------------------------ MODULE RevisionQueueProofs ------------------------
(***************************************************************************)
(* The inductive invariant of RevisionQueue holds, and with it the safety  *)
(* properties of the queue, for any number of files, workers, writes,      *)
(* revisions, foreign changes, failures and restarts; the queue implements *)
(* WriteBack; and, as long as a node has one worker at a time, older bytes *)
(* never follow newer ones and a machine on its own never forks a file.    *)
(* TypeOK is not inductive alone: that a step past staging has a blob, and *)
(* that a worker past the read-back has a revision, is what Inv says.      *)
(***************************************************************************)
EXTENDS RevisionQueueInv, TLAPS

(***************************************************************************)
(* Types: every step keeps TypeOK                                          *)
(***************************************************************************)
(* The sidecar and the op that stand for "none" are of the right shape.    *)
LEMMA BlankType == Blank \in Meta /\ NoJob \in Job
<1> USE BoundAssumption, FilesAssumption, WholenessAssumption, WorkerAssumption
<1> DEFINE any == CHOOSE f \in Files : TRUE
<1>1. any \in Files
  BY Zenon DEF any
<1> HIDE DEF any
<1>2. Blank = [of |-> 0, file |-> any, base |-> 0, complete |-> FALSE]
  BY DEF Blank, NoBlob, any
<1>3. Blank \in Meta
  BY <1>1, <1>2 DEF Meta, Rev
<1>4. Blank.file \in Files
  BY <1>1, <1>2
<1> QED
  BY <1>3, <1>4 DEF NoJob, Job, NoBlob

(* The shapes, stated once: the records that stand for "none", the fields  *)
(* of each record, and how records are put together.                       *)
LEMMA Shapes ==
  /\ Closed \in Handle
  /\ NoDraft \in Draft
  /\ \A b \in 0 .. MaxBlob, f \in Files, r \in Rev, c \in BOOLEAN :
       [of |-> b, file |-> f, base |-> r, complete |-> c] \in Meta
  /\ \A b \in 0 .. MaxBlob, r \in Rev, c \in BOOLEAN :
       [blob |-> b, base |-> r, complete |-> c] \in Draft
  /\ \A r \in Rev, o, c \in BOOLEAN : [open |-> o, base |-> r, whole |-> c] \in Handle
  /\ \A b \in 0 .. MaxBlob, f \in Files, m \in Meta :
       [file |-> f, blob |-> b, meta |-> m] \in Job
  /\ \A m \in Meta : /\ m.of \in 0 .. MaxBlob /\ m.file \in Files
                     /\ m.base \in Rev /\ m.complete \in BOOLEAN
  /\ \A d \in Draft : d.blob \in 0 .. MaxBlob /\ d.base \in Rev /\ d.complete \in BOOLEAN
  /\ \A h \in Handle : h.open \in BOOLEAN /\ h.base \in Rev /\ h.whole \in BOOLEAN
  /\ \A j \in Job : j.file \in Files /\ j.blob \in 0 .. MaxBlob /\ j.meta \in Meta
<1> USE BoundAssumption, FilesAssumption, WholenessAssumption, WorkerAssumption
<1>1. 0 \in Rev /\ 0 \in 0 .. MaxBlob
  BY DEF Rev
<1>2. Closed \in Handle /\ NoDraft \in Draft
  BY <1>1 DEF Closed, Handle, NoDraft, Draft, NoBlob
<1> QED
  BY <1>2 DEF Meta, Draft, Handle, Job

(* The ranges of blob and revision numbers.                                *)
LEMMA Ranges ==
  /\ NoBlob \in 0 .. MaxBlob /\ NoBlob \notin Blob
  /\ 0 .. MaxBlob = Blob \cup {NoBlob}
  /\ 0 \in Rev
  /\ Blob \subseteq Int
  /\ Rev \subseteq Int
  BY BoundAssumption, FilesAssumption, WholenessAssumption, WorkerAssumption DEF NoBlob, Blob, Rev

(* The program starts in a well-typed state (an empty staging directory).  *)
LEMMA InitType == Init => TypeOK
<1> USE BoundAssumption, FilesAssumption, WholenessAssumption, WorkerAssumption
<1> SUFFICES ASSUME Init PROVE TypeOK
  OBVIOUS
<1> USE DEF Init
<1>1. next \in 1 .. MaxBlob + 1 /\ nrev \in Rev
  BY Ranges
<1>2. foreigns \in 0 .. MaxForeign /\ crashes \in 0 .. MaxCrash /\ faults \in 0 .. MaxFault
  OBVIOUS
<1> QED
  BY <1>1, <1>2, BlankType, Shapes, Ranges
  DEF TypeOK, RowState, CallerStep, WorkerPc

(* A write past staging has a blob, and so has a worker on a revision op.  *)
LEMMA Anchored ==
  ASSUME Inv
  PROVE  /\ \A f \in Files : step[f] \in {"staged", "cancelled", "queued", "published"}
                               => draft[f].blob \in Blob
         /\ \A w \in Workers : pc[w] \in RevisionPc => job[w].blob \in Blob
<1> USE BoundAssumption, FilesAssumption, WholenessAssumption, WorkerAssumption
<1>1. ASSUME NEW f \in Files, step[f] \in {"staged", "cancelled", "queued", "published"}
      PROVE  draft[f].blob \in Blob
  BY <1>1 DEF Inv, CallerInv, Staging, Superseding, TypeOK
<1>2. ASSUME NEW w \in Workers, pc[w] \in RevisionPc
      PROVE  job[w].blob \in Blob
  BY <1>2 DEF Inv, WorkerInv, Attempt, TypeOK
<1> QED
  BY <1>1, <1>2

(* Folding a write over the queued one gives a sidecar of this write.      *)
LEMMA FoldedSidecar ==
  ASSUME TypeOK, NEW f \in Files, next \in Blob, NEW m \in Folded(f, NewMeta(f))
  PROVE  m \in Meta /\ m.file = f
<1> USE BoundAssumption, FilesAssumption, WholenessAssumption, WorkerAssumption
<1>1. NewMeta(f) \in Meta /\ NewMeta(f).file = f
  BY Shapes, Ranges DEF NewMeta, TypeOK
<1>2. pend[f] \in Meta
  BY DEF TypeOK
<1> HIDE DEF NewMeta
<1>3. CASE m = NewMeta(f)
  BY <1>1, <1>3
<1>4. CASE m # NewMeta(f)
  <2>1. PICK c \in {FALSE, pend[f].complete} :
          m = [of |-> NewMeta(f).of, file |-> NewMeta(f).file, base |-> pend[f].base,
               complete |-> c]
    BY <1>4 DEF Folded
  <2> QED
    BY <1>1, <1>2, <2>1, Shapes
<1> QED
  BY <1>3, <1>4

(* Every step of a release or an unlink keeps the types.                   *)
LEMMA MountType ==
  ASSUME Inv, NEW f \in Files, Mount(f)
  PROVE  TypeOK'
<1> USE BoundAssumption, FilesAssumption, WholenessAssumption, WorkerAssumption
<1>0. TypeOK
  BY DEF Inv
<1> USE <1>0, Shapes, Ranges
    DEF TypeOK, diskVars, memVars, callVars, drainVars, driveVars, histVars, budgetVars
<1>1. CASE OpenWrite(f)
  BY <1>1 DEF OpenWrite
<1>2. CASE ReleaseBase(f)
  <2>1. PICK c \in BOOLEAN : draft' = [draft EXCEPT ![f] =
          [blob |-> NoBlob, complete |-> c,
           base |-> IF pending[f] # NoBlob THEN pend[f].base ELSE handle[f].base]]
    BY <1>2 DEF ReleaseBase
  <2>2. draft' \in [Files -> Draft]
    BY <2>1
  <2> QED
    BY <1>2, <2>2 DEF ReleaseBase, CallerStep
<1>3. ASSUME PutInStaging(f)
      PROVE  side' \in [Blob -> Meta] /\ staged' \subseteq Blob /\ next \in Blob
             /\ next' \in 1 .. MaxBlob + 1
  <2>1. next \in Blob /\ next' \in 1 .. MaxBlob + 1
    BY <1>3 DEF PutInStaging, Blob
  <2>2. PICK m \in Folded(f, NewMeta(f)) : side' = [side EXCEPT ![next] = m]
    BY <1>3 DEF PutInStaging
  <2>3. m \in Meta
    BY <2>1, FoldedSidecar
  <2> QED
    BY <1>3, <2>1, <2>2, <2>3 DEF PutInStaging
<1>4. CASE ReleaseStage(f)
  BY <1>3, <1>4 DEF ReleaseStage, CallerStep
<1>5. CASE ReleaseRefused(f)
  BY <1>3, <1>5 DEF ReleaseRefused, EndCall, CallerStep, Fault
<1>6. CASE ReleaseCancel(f)
  BY <1>6 DEF ReleaseCancel, CancelUpload, CallerStep
<1>7. CASE ReleaseEnqueue(f)
  <2>1. draft[f].blob \in Blob
    BY <1>7, Anchored DEF ReleaseEnqueue
  <2>2. row' \in [Blob -> RowState] /\ RowsOf(f) \in SUBSET Blob
    BY <1>7, <2>1 DEF ReleaseEnqueue, Superseded, RowState, RowsOf
  <2> QED
    BY <1>7, <2>1, <2>2 DEF ReleaseEnqueue, Superseded, CallerStep
<1>8. CASE ReleaseEnqueueFails(f)
  BY <1>8 DEF ReleaseEnqueueFails, EndCall, CallerStep, Fault
<1>9. CASE ReleasePublish(f)
  <2>1. draft[f].blob \in Blob
    BY <1>9, Anchored DEF ReleasePublish
  <2> QED
    BY <1>9, <2>1 DEF ReleasePublish, CallerStep
<1>10. CASE ReleaseDiscard(f)
  BY <1>10 DEF ReleaseDiscard, EndCall, CallerStep
<1>11. CASE UnlinkCancel(f)
  BY <1>11 DEF UnlinkCancel, CancelUpload, CallerStep
<1>12. CASE UnlinkReplace(f)
  BY <1>12 DEF UnlinkReplace, RowsOf, RowState, CallerStep
<1>13. CASE UnlinkForget(f)
  BY <1>13 DEF UnlinkForget, EndCall, CallerStep
<1> QED
  BY <1>1, <1>2, <1>4, <1>5, <1>6, <1>7, <1>8, <1>9, <1>10, <1>11, <1>12, <1>13 DEF Mount

(* Every step of a drain worker keeps the types.                           *)
LEMMA DrainType ==
  ASSUME Inv, NEW w \in Workers, Drain(w)
  PROVE  TypeOK'
<1> USE BoundAssumption, FilesAssumption, WholenessAssumption, WorkerAssumption
<1>0. TypeOK
  BY DEF Inv
<1> USE <1>0, Shapes, Ranges
    DEF TypeOK, diskVars, memVars, callVars, drainVars, driveVars, histVars, budgetVars
<1>1. ASSUME NEW to \in WorkerPc, Goto(w, to)
      PROVE  pc' \in [Workers -> WorkerPc] /\ job' = job /\ seen' = seen
  BY <1>1 DEF Goto
<1>2. ASSUME Deregister(w)
      PROVE  registry' \in [Files -> Workers \cup {NoWorker}]
  BY <1>2 DEF Deregister
<1>3. ASSUME NEW kind, Fault(kind)
      PROVE  faults' \in 0 .. MaxFault /\ UNCHANGED <<foreigns, crashes>>
  BY <1>3 DEF Fault
<1>4. job[w] \in Job /\ job[w].file \in Files /\ job[w].meta \in Meta
  OBVIOUS
<1>5. CASE Claim(w)
  BY <1>5 DEF Claim, Claimable, FileOf, RowState, WorkerPc, NoRev
<1>6. CASE Check(w)
  BY <1>6 DEF Check, Goto, WorkerPc
<1>7. CASE Conflict(w)
  BY <1>7 DEF Conflict, Goto, WorkerPc
<1>8. CASE SendCopy(w)
  <2>1. job[w].blob \in Blob
    BY <1>8, Anchored DEF SendCopy, RevisionPc, WorkerPc
  <2> QED
    BY <1>8, <2>1, <1>3 DEF SendCopy, Goto, WorkerPc
<1>9. CASE Abandon(w)
  BY <1>9, <1>3 DEF Abandon, DeleteOp, Goto, WorkerPc, RowState
<1>10. CASE FillGaps(w)
  BY <1>10, <1>4 DEF FillGaps, WorkerPc
<1>11. CASE Register(w)
  BY <1>11 DEF Register, Goto, WorkerPc
<1>12. CASE Confirm(w) \/ Send(w)
  <2>1. \E to \in {"release", "send", "commit"} : Goto(w, to)
    BY <1>12 DEF Confirm, Send
  <2>2. pc' \in [Workers -> WorkerPc] /\ UNCHANGED <<job, seen>>
    BY <1>1, <2>1 DEF WorkerPc
  <2>3. registry' \in [Files -> Workers \cup {NoWorker}]
    BY <1>2, <1>12 DEF Confirm, Send
  <2>4. UNCHANGED <<diskVars, memVars, callVars, cancelled, driveVars, histVars, budgetVars>>
    BY <1>12 DEF Confirm, Send
  <2> QED
    BY <2>2, <2>3, <2>4
<1>14. CASE Commit(w)
  <2>1. job[w].blob \in Blob
    BY <1>14, Anchored DEF Commit, RevisionPc, WorkerPc
  <2>2. nrev < MaxRev => nrev + 1 \in Rev
    BY DEF Rev
  <2>3. CASE gone[job[w].file]
    <3>1. /\ pc' = [pc EXCEPT ![w] = "release"]
          /\ Deregister(w)
          /\ UNCHANGED <<driveVars, job, seen>>
      BY <1>14, <2>3 DEF Commit, Goto
    <3> QED
      BY <1>14, <1>2, <3>1 DEF Commit, WorkerPc
  <2>4. CASE ~gone[job[w].file]
    <3>1. /\ nrev < MaxRev
          /\ nrev' = nrev + 1
          /\ cur' = [cur EXCEPT ![job[w].file] = nrev + 1]
          /\ body' = [body EXCEPT ![nrev + 1] = job[w].blob]
          /\ landed' = landed \cup {job[w].blob}
          /\ pc' = [pc EXCEPT ![w] = "answer"]
          /\ UNCHANGED <<gone, copies, registry, job, seen>>
      BY <1>14, <2>4 DEF Commit, Goto
    <3> QED
      BY <1>14, <2>1, <2>2, <3>1 DEF Commit, WorkerPc
  <2> QED
    BY <2>3, <2>4
<1>15. CASE Answer(w)
  BY <1>15, <1>2, <1>3 DEF Answer, Goto, WorkerPc
<1>16. CASE Retire(w)
  BY <1>16 DEF Retire, DeleteOp, Goto, WorkerPc, RowState
<1>17. CASE ReadBack(w)
  <2>1. CASE /\ UNCHANGED budgetVars
             /\ unread' = [unread EXCEPT ![job[w].file] = NoBlob]
             /\ pc' = [pc EXCEPT ![w] = IF gone[job[w].file] THEN "letgo" ELSE "adopt"]
             /\ seen' = [seen EXCEPT ![w] = IF gone[job[w].file] THEN NoRev
                                            ELSE cur[job[w].file]]
             /\ UNCHANGED job
    <3>1. pc' \in [Workers -> WorkerPc]
      BY <2>1 DEF WorkerPc
    <3>2. cur[job[w].file] \in Rev
      OBVIOUS
    <3>3. seen' \in [Workers -> Rev \cup {NoRev}]
      BY <2>1, <3>2
    <3> QED
      BY <1>17, <2>1, <3>1, <3>3 DEF ReadBack
  <2>2. CASE Fault("readback") /\ Goto(w, "letgo")
    BY <1>17, <1>3, <1>4, <2>2 DEF ReadBack, Goto, WorkerPc
  <2> QED
    BY <1>17, <2>1, <2>2 DEF ReadBack
<1>18. CASE Adopt(w)
  <2>1. seen[w] \in Rev
    BY <1>18 DEF Adopt, Inv, WorkerInv, Attempt
  <2>2. handle' \in [Files -> Handle]
    BY <1>18, <2>1 DEF Adopt
  <2> QED
    BY <1>18, <2>1, <2>2 DEF Adopt, Goto, WorkerPc
<1>19. CASE LetGo(w)
  BY <1>19 DEF LetGo, AfterLetGo, ReleasePending, Goto, WorkerPc
<1>20. CASE Place(w)
  <2>1. seen[w] \in Rev
    BY <1>20 DEF Place, Inv, WorkerInv, Attempt
  <2>2. CASE pending[job[w].file] # NoBlob
    <3>1. pend[job[w].file] \in Meta
      OBVIOUS
    <3>2. [of |-> pend[job[w].file].of, file |-> pend[job[w].file].file, base |-> seen[w],
           complete |-> pend[job[w].file].complete] \in Meta
      BY <2>1, <3>1
    <3> DEFINE rebased == [of |-> pend[job[w].file].of, file |-> pend[job[w].file].file,
                           base |-> seen[w], complete |-> pend[job[w].file].complete]
    <3>3. /\ pend' = [pend EXCEPT ![job[w].file] = rebased]
          /\ meta' = [b \in Blob |-> IF b \in RowsOf(job[w].file) THEN rebased ELSE meta[b]]
          /\ UNCHANGED tree
      BY <1>20, <2>2 DEF Place
    <3> HIDE DEF rebased
    <3>4. pend' \in [Files -> Meta] /\ meta' \in [Blob -> Meta]
      BY <3>2, <3>3 DEF rebased
    <3> QED
      BY <1>20, <3>3, <3>4 DEF Place, Goto, WorkerPc
  <2>3. CASE pending[job[w].file] = NoBlob
    BY <1>20, <2>1, <2>3 DEF Place, Goto, WorkerPc
  <2> QED
    BY <2>2, <2>3
<1>21. CASE Discard(w)
  BY <1>21 DEF Discard, Goto, WorkerPc
<1>22. CASE ReleaseClaim(w)
  BY <1>22, BlankType DEF ReleaseClaim, Unclaim, RowState, WorkerPc, NoRev
<1>23. CASE ClaimTrash(w)
  BY <1>23, BlankType DEF ClaimTrash, RowState, WorkerPc
<1>24. CASE SendTrash(w)
  BY <1>24 DEF SendTrash, Goto, WorkerPc
<1>25. CASE RetireTrash(w)
  BY <1>25 DEF RetireTrash, Goto, WorkerPc, RowState, NoRev
<1>26. CASE AttemptFails(w)
  BY <1>26, <1>2, <1>3 DEF AttemptFails, Goto, WorkerPc
<1> QED
  BY <1>5, <1>6, <1>7, <1>8, <1>9, <1>10, <1>11, <1>12, <1>14, <1>15, <1>16, <1>17,
     <1>18, <1>19, <1>20, <1>21, <1>22, <1>23, <1>24, <1>25, <1>26
  DEF Drain

(* What another device does, and the event feed, keeps the types.          *)
LEMMA ElsewhereType ==
  ASSUME TypeOK, NEW f \in Files, Elsewhere(f)
  PROVE  TypeOK'
<1> USE BoundAssumption, FilesAssumption, WholenessAssumption, WorkerAssumption
<1> USE Ranges
    DEF TypeOK, diskVars, memVars, callVars, drainVars, driveVars, histVars, budgetVars
<1>1. nrev < MaxRev => nrev + 1 \in Rev
  BY DEF Rev
<1>2. CASE ForeignWrite(f)
  BY <1>1, <1>2 DEF ForeignWrite
<1>3. CASE ForeignTrash(f)
  BY <1>3 DEF ForeignTrash
<1>4. CASE ApplyEvent(f)
  BY <1>4 DEF ApplyEvent
<1> QED
  BY <1>2, <1>3, <1>4 DEF Elsewhere

(* The orphans a restart may queue again are staged blobs of their file,   *)
(* and a file that has rows is served by one of them.                      *)
LEMMA RestartChoice ==
  ASSUME TypeOK, NEW f \in Files
  PROVE  /\ Requeues(f) \subseteq 0 .. MaxBlob
         /\ Orphans(f) \subseteq Blob
         /\ RowsOf(f) \subseteq Blob
         /\ RowsOf(f) # {} => (CHOOSE b \in RowsOf(f) : TRUE) \in RowsOf(f)
<1> USE BoundAssumption, FilesAssumption, WholenessAssumption, WorkerAssumption
<1>1. Orphans(f) \subseteq Blob /\ RowsOf(f) \subseteq Blob
  BY DEF Orphans, RowsOf, TypeOK
<1>2. Requeues(f) \subseteq 0 .. MaxBlob
  BY <1>1, Ranges DEF Requeues
<1>3. RowsOf(f) # {} => (CHOOSE b \in RowsOf(f) : TRUE) \in RowsOf(f)
  <2> DEFINE S == RowsOf(f)
  <2> HIDE DEF S
  <2>1. S # {} => (CHOOSE b \in S : TRUE) \in S
    BY Zenon
  <2> QED
    BY <2>1 DEF S
<1> QED
  BY <1>1, <1>2, <1>3

(* A restart keeps the types.                                              *)
LEMMA RestartType ==
  ASSUME TypeOK, Restart
  PROVE  TypeOK'
<1> USE BoundAssumption, FilesAssumption, WholenessAssumption, WorkerAssumption
<1> DEFINE Serving(pick, f) ==
      IF RowsOf(f) # {} THEN CHOOSE b \in RowsOf(f) : TRUE ELSE pick[f]
    Taken(pick) == {pick[f] : f \in Files} \ {NoBlob}
<1>1. PICK pick \in [Files -> 0 .. MaxBlob] :
        /\ row' = [b \in Blob |-> IF b \in Taken(pick) THEN "queued" ELSE Unclaim(row[b])]
        /\ meta' = [b \in Blob |-> IF b \in Taken(pick) THEN side[b] ELSE meta[b]]
        /\ accepted' = accepted \cup Taken(pick)
        /\ pending' = [f \in Files |-> Serving(pick, f)]
        /\ pend' = [f \in Files |-> IF Serving(pick, f) = NoBlob THEN Blank
                                     ELSE meta'[Serving(pick, f)]]
  BY DEF Restart
<1>2. Taken(pick) \subseteq Blob
  BY Ranges
<1>3. \A f \in Files : Serving(pick, f) \in 0 .. MaxBlob
  BY RestartChoice, Ranges
<1> HIDE DEF Serving, Taken
<1>4. row' \in [Blob -> RowState] /\ meta' \in [Blob -> Meta] /\ accepted' \subseteq Blob
  BY <1>1, <1>2 DEF TypeOK, RowState, Unclaim
<1>5. pending' \in [Files -> 0 .. MaxBlob]
  BY <1>1, <1>3
<1>6. pend' \in [Files -> Meta]
  BY <1>1, <1>3, <1>4, BlankType, Ranges
<1>7. trash' \in [Files -> RowState]
  BY DEF Restart, TypeOK, RowState, Unclaim
<1>8. crashes' \in 0 .. MaxCrash
  BY DEF Restart, TypeOK
<1> QED
  BY <1>4, <1>5, <1>6, <1>7, <1>8, BlankType, Shapes, Ranges
  DEF Restart, TypeOK, CallerStep, WorkerPc, driveVars

(***************************************************************************)
(* Steps that touch nothing the invariant speaks of but one worker's pc    *)
(***************************************************************************)
(* No row, no staged blob, no pending entry and no caller changes, and     *)
(* every worker keeps its op; Drive may get a write.                       *)
Quiet ==
  /\ UNCHANGED <<staged, side, row, trash, step, draft, old, next, pending, accepted,
                 withdrawn>>
  /\ landed \subseteq landed'
  /\ \A f \in Files : handle'[f].open = handle[f].open
  /\ \A w \in Workers : job'[w].blob = job[w].blob /\ job'[w].file = job[w].file
  /\ \A w \in Workers : pc[w] = "idle" => pc'[w] = "idle"

(* The rows of a file are what row and side say.                           *)
LEMMA RowsFrame ==
  ASSUME UNCHANGED <<row, side>>, NEW f
  PROVE  RowsOf(f)' = RowsOf(f)
  BY DEF RowsOf, FileOf

LEMMA QuietStep ==
  ASSUME Inv, TypeOK', Quiet, \A w \in Workers : Attempt(w)'
  PROVE  Inv'
<1> USE DEF Inv, Quiet
<1>1. Numbered'
  BY DEF Numbered
<1>2. \A f \in Files : RowsOf(f)' = RowsOf(f)
  BY RowsFrame
<1>3. CallerInv'
  BY <1>2 DEF CallerInv, Staging, Superseding, Publishing, Unlinking, FileOf
<1>4. TrashInv'
  BY <1>2 DEF TrashInv
<1>5. PendingInv'
  BY DEF PendingInv, FileOf
<1>6. ReadsOwnWrites'
  BY <1>2 DEF ReadsOwnWrites
<1>7. HoldInv'
  BY DEF HoldInv, ClaimExclusive, ClaimHeld
<1>8. NothingLost'
  BY DEF NothingLost, FileOf
<1>9. \A w \in Workers : Trashing(w)' => Trashing(w)
  BY DEF Trashing
<1>10. TrashHoldInv'
  BY <1>9 DEF TrashHoldInv
<1> QED
  BY <1>1, <1>3, <1>4, <1>5, <1>6, <1>7, <1>8, <1>10 DEF WorkerInv

(* A worker that does not move keeps what its attempt has established.     *)
LEMMA OtherAttempt ==
  ASSUME Inv, Quiet, NEW v \in Workers, pc'[v] = pc[v], seen'[v] = seen[v]
  PROVE  Attempt(v)'
  BY DEF Inv, Quiet, WorkerInv, Attempt, FileOf

(* Another device and the event feed touch nothing the invariant is about. *)
LEMMA ElsewhereInv ==
  ASSUME Inv, NEW f \in Files, Elsewhere(f)
  PROVE  Inv'
<1>1. TypeOK'
  BY ElsewhereType DEF Inv
<1>2. Quiet /\ UNCHANGED <<pc, seen>>
  BY DEF Elsewhere, ForeignWrite, ForeignTrash, ApplyEvent, Quiet, diskVars, memVars,
         callVars, drainVars, driveVars, histVars
<1>3. \A v \in Workers : Attempt(v)'
  BY <1>2, OtherAttempt
<1> QED
  BY <1>1, <1>2, <1>3, QuietStep

(* The steps of an attempt that only talk to Drive, read the tables or     *)
(* write what the invariant does not mention (meta, own_sealed_rev, tree). *)
QuietDrain(w) ==
  \/ Check(w) \/ Conflict(w) \/ SendCopy(w) \/ FillGaps(w) \/ Register(w) \/ Confirm(w)
  \/ Send(w) \/ Commit(w) \/ Answer(w) \/ ReadBack(w) \/ Adopt(w) \/ Place(w)
  \/ SendTrash(w) \/ AttemptFails(w)

LEMMA QuietDrainInv ==
  ASSUME Inv, NEW w \in Workers, QuietDrain(w)
  PROVE  Inv'
<1>1. TypeOK /\ TypeOK'
  BY DrainType DEF QuietDrain, Drain, Inv
<1> USE DEF diskVars, memVars, callVars, drainVars, driveVars, histVars
<1>0. pc[w] # "idle" /\ \A v \in Workers \ {w} : pc'[v] = pc[v] /\ seen'[v] = seen[v]
  <2>1. pc \in [Workers -> WorkerPc] /\ seen \in [Workers -> Rev \cup {NoRev}]
    BY <1>1 DEF TypeOK
  <2>2. pc[w] # "idle"
    BY DEF QuietDrain, Check, Conflict, SendCopy, FillGaps, Register, Confirm, Send, Commit,
           Answer, ReadBack, Adopt, Place, SendTrash, AttemptFails
  <2>3. \E to : pc' = [pc EXCEPT ![w] = to]
    BY DEF QuietDrain, Check, Conflict, SendCopy, FillGaps, Register, Confirm, Send, Commit,
           Answer, ReadBack, Adopt, Place, SendTrash, AttemptFails, Goto
  <2>4. seen' = seen \/ \E r : seen' = [seen EXCEPT ![w] = r]
    BY DEF QuietDrain, Check, Conflict, SendCopy, FillGaps, Register, Confirm, Send, Commit,
           Answer, ReadBack, Adopt, Place, SendTrash, AttemptFails, Goto
  <2> QED
    BY <2>1, <2>2, <2>3, <2>4
<1>2. Quiet
  <2>1. UNCHANGED <<staged, side, row, trash, step, draft, old, next, pending, accepted,
                    withdrawn>>
    BY DEF QuietDrain, Check, Conflict, SendCopy, FillGaps, Register, Confirm, Send, Commit,
           Answer, ReadBack, Adopt, Place, SendTrash, AttemptFails
  <2>2. landed \subseteq landed'
    BY DEF QuietDrain, Check, Conflict, SendCopy, FillGaps, Register, Confirm, Send, Commit,
           Answer, ReadBack, Adopt, Place, SendTrash, AttemptFails
  <2>3. \A f \in Files : handle'[f].open = handle[f].open
    <3>1. CASE Adopt(w)
      <4>1. handle \in [Files -> Handle] /\ job[w].file \in Files
        BY <1>1, Shapes DEF TypeOK
      <4>2. handle' = handle \/ \E h : /\ handle' = [handle EXCEPT ![job[w].file] = h]
                                       /\ h.open = handle[job[w].file].open
        BY <3>1, <4>1, Shapes DEF Adopt
      <4> QED
        BY <4>1, <4>2
    <3>2. CASE ~Adopt(w)
      BY <3>2 DEF QuietDrain, Check, Conflict, SendCopy, FillGaps, Register, Confirm, Send,
           Commit, Answer, ReadBack, Place, SendTrash, AttemptFails
    <3> QED
      BY <3>1, <3>2
  <2>4. \A v \in Workers : job'[v].blob = job[v].blob /\ job'[v].file = job[v].file
    <3>1. CASE FillGaps(w)
      <4>1. job \in [Workers -> Job]
        BY <1>1 DEF TypeOK
      <4>2. PICK m : job' = [job EXCEPT ![w] =
                              [file |-> job[w].file, blob |-> job[w].blob, meta |-> m]]
        BY <3>1 DEF FillGaps
      <4> QED
        BY <4>1, <4>2
    <3>2. CASE ~FillGaps(w)
      <4>1. job' = job
        BY <3>2 DEF QuietDrain, Check, Conflict, SendCopy, Register, Confirm, Send, Commit,
               Answer, ReadBack, Adopt, Place, SendTrash, AttemptFails, Goto
      <4> QED
        BY <4>1
    <3> QED
      BY <3>1, <3>2
  <2>5. \A v \in Workers : pc[v] = "idle" => pc'[v] = "idle"
    BY <1>0
  <2> QED
    BY <2>1, <2>2, <2>3, <2>4, <2>5 DEF Quiet
<1>3. ASSUME NEW v \in Workers, v # w
      PROVE  Attempt(v)'
  <2>1. pc'[v] = pc[v] /\ seen'[v] = seen[v]
    BY <1>0, <1>3
  <2> QED
    BY <1>2, <2>1, OtherAttempt
<1>4. pc \in [Workers -> WorkerPc] /\ seen \in [Workers -> Rev \cup {NoRev}]
  BY <1>1 DEF TypeOK
<1>5. cur[job[w].file] # NoRev
  <2>1. cur \in [Files -> Rev] /\ job[w].file \in Files
    BY <1>1, Shapes DEF TypeOK
  <2> QED
    BY <2>1 DEF NoRev, Rev
<1>6. /\ Attempt(w)
      /\ UNCHANGED <<side, row, trash, pending, accepted>>
      /\ landed \subseteq landed'
      /\ job'[w].blob = job[w].blob /\ job'[w].file = job[w].file
  BY <1>2 DEF Inv, WorkerInv, Quiet
<1>7. Attempt(w)'
  <2> USE <1>6 DEF Attempt, RevisionPc, LandedPc, RetiredPc, WorkerPc, FileOf
  <2>1. CASE Check(w)
    <3>1. pc[w] = "check" /\ pc'[w] \in {"conflict", "register", "fill"}
      BY <1>4, <2>1 DEF Check, Goto
    <3> QED
      BY <3>1
  <2>2. CASE Conflict(w)
    <3>1. pc[w] = "conflict" /\ pc'[w] \in {"release", "copy"}
      BY <1>4, <2>2 DEF Conflict, Goto
    <3> QED
      BY <3>1
  <2>3. CASE SendCopy(w)
    <3>1. pc[w] = "copy" /\ pc'[w] \in {"copied", "release"} /\ job[w].blob \in landed'
      BY <1>4, <2>3 DEF SendCopy, Goto
    <3> QED
      BY <3>1
  <2>4. CASE FillGaps(w)
    <3>1. pc[w] = "fill" /\ pc'[w] = "register"
      BY <1>4, <2>4 DEF FillGaps, Goto
    <3> QED
      BY <3>1
  <2>5. CASE Register(w)
    <3>1. pc[w] = "register" /\ pc'[w] = "confirm"
      BY <1>4, <2>5 DEF Register, Goto
    <3> QED
      BY <3>1
  <2>6. CASE Confirm(w)
    <3>1. pc[w] = "confirm" /\ pc'[w] \in {"release", "send"}
      BY <1>4, <2>6 DEF Confirm, Goto
    <3> QED
      BY <3>1
  <2>7. CASE Send(w)
    <3>1. pc[w] = "send" /\ pc'[w] \in {"release", "commit"}
      BY <1>4, <2>7 DEF Send, Goto
    <3> QED
      BY <3>1
  <2>8. CASE Commit(w)
    <3>1. pc[w] = "commit" /\ pc'[w] \in {"release", "answer"}
          /\ (pc'[w] = "answer" => job[w].blob \in landed')
      BY <1>4, <2>8 DEF Commit, Goto
    <3> QED
      BY <3>1
  <2>9. CASE Answer(w)
    <3>1. pc[w] = "answer" /\ pc'[w] \in {"retire", "release"}
      BY <1>4, <2>9 DEF Answer, Goto
    <3> QED
      BY <3>1
  <2>10. CASE ReadBack(w)
    <3>1. pc[w] = "readback" /\ pc'[w] \in {"letgo", "adopt"}
          /\ (pc'[w] = "adopt" => seen'[w] = cur[job[w].file])
      BY <1>4, <2>10 DEF ReadBack, Goto
    <3> QED
      BY <3>1, <1>5
  <2>11. CASE Adopt(w)
    <3>1. pc[w] = "adopt" /\ pc'[w] = "letgo"
      BY <1>4, <2>11 DEF Adopt, Goto
    <3> QED
      BY <3>1
  <2>12. CASE Place(w)
    <3>1. pc[w] = "place" /\ pc'[w] = "discard"
      BY <1>4, <2>12 DEF Place, Goto
    <3> QED
      BY <3>1
  <2>13. CASE SendTrash(w)
    <3>1. pc[w] = "trash" /\ pc'[w] = "trashed"
      BY <1>4, <2>13 DEF SendTrash, Goto
    <3> QED
      BY <3>1
  <2>14. CASE AttemptFails(w)
    <3>1. pc[w] # "idle" /\ pc'[w] = "release"
      BY <1>4, <2>14 DEF AttemptFails, Goto
    <3> QED
      BY <3>1
  <2> QED
    BY <2>1, <2>2, <2>3, <2>4, <2>5, <2>6, <2>7, <2>8, <2>9, <2>10, <2>11, <2>12, <2>13,
       <2>14 DEF QuietDrain
<1> QED
  BY <1>1, <1>2, <1>3, <1>7, QuietStep

(***************************************************************************)
(* The steps of a release and of an unlink                                 *)
(***************************************************************************)
(* Steps that change a handle or a caller's step, away from enqueueing.    *)
LEMMA CallOnly ==
  ASSUME Inv, TypeOK', CallerInv',
         UNCHANGED <<staged, side, row, trash, next, pending, accepted, withdrawn, landed,
                     pc, job, seen>>,
         \A f \in Files : step'[f] # step[f] => step[f] # "queued" /\ step'[f] # "queued"
  PROVE  Inv'
<1> USE DEF Inv
<1>1. \A f \in Files : RowsOf(f)' = RowsOf(f)
  BY RowsFrame
<1>2. Numbered' /\ PendingInv' /\ NothingLost'
  BY DEF Numbered, PendingInv, NothingLost, FileOf
<1>3. TrashInv' /\ ReadsOwnWrites'
  BY <1>1 DEF TrashInv, ReadsOwnWrites
<1>4. WorkerInv'
  BY DEF WorkerInv, Attempt, FileOf
<1>5. HoldInv' /\ TrashHoldInv'
  BY DEF HoldInv, ClaimExclusive, ClaimHeld, TrashHoldInv, Trashing
<1> QED
  BY <1>2, <1>3, <1>4, <1>5

CallStep(f) ==
  OpenWrite(f) \/ ReleaseBase(f) \/ ReleaseCancel(f) \/ ReleaseEnqueueFails(f)
  \/ UnlinkCancel(f)

LEMMA CallStepInv ==
  ASSUME Inv, NEW f \in Files, CallStep(f)
  PROVE  Inv'
<1>1. TypeOK /\ TypeOK'
  BY MountType DEF CallStep, Mount, Inv
<1> USE DEF diskVars, memVars, callVars, drainVars, driveVars, histVars
<1>2. UNCHANGED <<staged, side, row, trash, next, pending, accepted, withdrawn, landed,
                  pc, job, seen>>
  BY DEF CallStep, OpenWrite, ReleaseBase, ReleaseCancel, ReleaseEnqueueFails, UnlinkCancel
<1>3. \A g \in Files : step'[g] # step[g] => step[g] # "queued" /\ step'[g] # "queued"
  <2>1. step \in [Files -> CallerStep]
    BY <1>1 DEF TypeOK
  <2>2. \/ step' = step
        \/ /\ step[f] # "queued"
           /\ \E to \in {"based", "cancelled", "idle", "unlinking"} :
                step' = [step EXCEPT ![f] = to]
    BY DEF CallStep, OpenWrite, ReleaseBase, ReleaseCancel, ReleaseEnqueueFails, EndCall,
           UnlinkCancel
  <2> QED
    BY <2>1, <2>2
<1>4. CallerInv'
  <2>1. \A g \in Files : RowsOf(g)' = RowsOf(g)
    BY <1>2, RowsFrame
  <2> USE <1>1, <1>2, <2>1 DEF TypeOK, Inv, CallerInv, Staging, Superseding, Publishing,
          Unlinking, FileOf
  <2>2. CASE OpenWrite(f)
    BY <2>2 DEF OpenWrite
  <2>3. CASE ReleaseBase(f)
    BY <2>3 DEF ReleaseBase, Closed
  <2>4. CASE ReleaseCancel(f)
    BY <2>4 DEF ReleaseCancel
  <2>5. CASE ReleaseEnqueueFails(f)
    BY <2>5 DEF ReleaseEnqueueFails, EndCall
  <2>6. CASE UnlinkCancel(f)
    BY <2>6 DEF UnlinkCancel
  <2> QED
    BY <2>2, <2>3, <2>4, <2>5, <2>6 DEF CallStep
<1> QED
  BY <1>1, <1>2, <1>3, <1>4, CallOnly

(* stage_write: a fresh number, so no row, entry or worker knows the blob. *)
LEMMA StageInv ==
  ASSUME Inv, NEW f \in Files, ReleaseStage(f) \/ ReleaseRefused(f)
  PROVE  Inv'
<1>1. TypeOK /\ TypeOK'
  BY MountType DEF Mount, Inv
<1> USE DEF diskVars, memVars, callVars, drainVars, driveVars, histVars
<1>2. /\ PutInStaging(f)
      /\ UNCHANGED <<row, trash, pending, accepted, withdrawn, landed, pc, job, seen, handle>>
      /\ \A g \in Files \ {f} : /\ step'[g] = step[g]
                                /\ draft'[g] = draft[g]
                                /\ old'[g] = old[g]
  BY <1>1 DEF ReleaseStage, ReleaseRefused, EndCall, TypeOK
<1>3. next \in Blob /\ next' = next + 1 /\ staged' = staged \cup {next} /\ step[f] = "based"
  BY <1>1, <1>2 DEF PutInStaging, TypeOK, Blob
<1>4. \A b \in Blob : side'[b].file = IF b = next THEN f ELSE side[b].file
  <2>1. PICK m \in Folded(f, NewMeta(f)) : side' = [side EXCEPT ![next] = m]
    BY <1>2 DEF PutInStaging
  <2>2. m.file = f
    BY <1>1, <1>3, FoldedSidecar
  <2> QED
    <3>1. side \in [Blob -> Meta]
      BY <1>1 DEF TypeOK
    <3> QED
      BY <1>3, <2>1, <2>2, <3>1
<1>5. /\ staged \subseteq Blob /\ accepted \subseteq Blob /\ Blob \subseteq Int /\ next \in Int
      /\ next \notin staged /\ next \notin accepted /\ row[next] = "none"
  <2>1. staged \subseteq Blob /\ accepted \subseteq Blob /\ Blob \subseteq Int
    BY <1>1, Ranges DEF TypeOK
  <2>2. \A b \in staged \cup accepted : b < next
    BY DEF Inv, Numbered
  <2>3. next \in Int /\ ~(next < next)
    BY <1>3, <2>1
  <2> QED
    BY <1>3, <2>1, <2>2, <2>3 DEF Inv, Numbered
<1>5a. \A a \in accepted : side'[a].file = side[a].file
  BY <1>4, <1>5
<1>6. \A g \in Files : RowsOf(g)' = RowsOf(g)
  BY <1>2, <1>3, <1>4, <1>5 DEF RowsOf, FileOf
<1>7. Numbered'
  <2>1. \A b \in staged \cup accepted : b < next
    BY DEF Inv, Numbered
  <2>2. \A b \in staged \cup accepted \cup {next} : b < next + 1
    BY <2>1, <1>5
  <2>3. \A b \in Blob : row[b] # "none" => b \in accepted /\ b \in staged
    BY DEF Inv, Numbered
  <2> QED
    BY <1>2, <1>3, <2>2, <2>3 DEF Numbered
<1>8. f \notin withdrawn
  BY <1>3 DEF Inv, CallerInv, Unlinking
<1>9. ASSUME NEW g \in Files
      PROVE  Staging(g)' /\ Superseding(g)' /\ Publishing(g)' /\ Unlinking(g)'
  <2>1. CASE g # f
    <3>0. /\ step'[g] = step[g] /\ draft'[g] = draft[g] /\ old'[g] = old[g]
          /\ handle'[g] = handle[g]
          /\ Staging(g) /\ Superseding(g) /\ Publishing(g) /\ Unlinking(g)
      BY <1>2, <2>1 DEF Inv, CallerInv
    <3>1. Staging(g)'
      BY <1>2, <1>3, <1>4, <1>5, <3>0 DEF Staging, FileOf
    <3>2. Superseding(g)'
      BY <1>2, <1>5a, <3>0 DEF Superseding, FileOf
    <3>3. Publishing(g)' /\ Unlinking(g)'
      BY <1>2, <1>4, <1>5, <1>6, <3>0 DEF Publishing, Unlinking, FileOf
    <3> QED
      BY <3>1, <3>2, <3>3
  <2>2. CASE g = f /\ ReleaseStage(f)
    <3>1. step'[f] = "staged" /\ draft'[f].blob = next
      BY <1>1, <2>2 DEF ReleaseStage, TypeOK
    <3>2. \A a \in accepted : a < next
      BY DEF Inv, Numbered
    <3> QED
      BY <1>2, <1>3, <1>4, <1>5, <1>8, <2>2, <3>1, <3>2
      DEF Staging, Superseding, Publishing, Unlinking, FileOf
  <2>3. CASE g = f /\ ReleaseRefused(f)
    <3>1. step'[f] = "idle"
      BY <1>1, <2>3 DEF ReleaseRefused, EndCall, TypeOK
    <3> QED
      BY <1>2, <1>8, <2>3, <3>1 DEF Staging, Superseding, Publishing, Unlinking
  <2> QED
    BY <2>1, <2>2, <2>3
<1>10. TrashInv'
  BY <1>2, <1>6 DEF Inv, TrashInv
<1>11. PendingInv'
  BY <1>2, <1>3, <1>4, <1>5 DEF Inv, PendingInv, FileOf
<1>12. ReadsOwnWrites'
  <2>1. \A g \in Files : step'[g] = "queued" <=> step[g] = "queued"
    BY <1>1, <1>3 DEF ReleaseStage, ReleaseRefused, EndCall, TypeOK
  <2> QED
    BY <1>2, <1>6, <2>1 DEF Inv, ReadsOwnWrites
<1>13. WorkerInv'
  BY <1>2, <1>5a DEF Inv, WorkerInv, Attempt, FileOf
<1>14. HoldInv' /\ TrashHoldInv'
  BY <1>2 DEF Inv, HoldInv, ClaimExclusive, ClaimHeld, TrashHoldInv, Trashing
<1>15. NothingLost'
  BY <1>2, <1>3, <1>4, <1>5 DEF Inv, NothingLost, FileOf
<1> QED
  BY <1>1, <1>7, <1>9, <1>10, <1>11, <1>12, <1>13, <1>14, <1>15 DEF Inv, CallerInv

(* A caller that does not move keeps what its call has established, when   *)
(* no row of its file changes and nothing it staged is touched.            *)
LEMMA OtherCaller ==
  ASSUME Inv, NEW g \in Files, side' = side,
         step'[g] = step[g], draft'[g] = draft[g], old'[g] = old[g], handle'[g] = handle[g],
         g \in withdrawn' <=> g \in withdrawn,
         pending'[g] = pending[g] \/ pending'[g] = NoBlob,
         accepted \subseteq accepted', \A b \in accepted' \ accepted : FileOf(b) # g,
         \A b \in staged \ staged' : b \in accepted,
         \A b \in Blob : FileOf(b) = g => row'[b] = row[b]
  PROVE  Staging(g)' /\ Superseding(g)' /\ Publishing(g)' /\ Unlinking(g)'
<1>1. Staging(g) /\ Superseding(g) /\ Publishing(g) /\ Unlinking(g)
  BY DEF Inv, CallerInv
<1>2. RowsOf(g)' = RowsOf(g)
  BY DEF RowsOf, FileOf
<1>3. old[g] \subseteq Blob /\ accepted \subseteq Blob
  BY DEF Inv, TypeOK
<1>4. Staging(g)'
  BY <1>1 DEF Staging, FileOf
<1>5. Superseding(g)'
  BY <1>1, <1>3 DEF Superseding, FileOf
<1>6. Publishing(g)'
  BY <1>1, <1>2, <1>3 DEF Publishing, Superseding, FileOf
<1>7. Unlinking(g)'
  BY <1>1, <1>2 DEF Unlinking, FileOf
<1> QED
  BY <1>4, <1>5, <1>6, <1>7

(* enqueue_op: the older rows of the file go as the new one comes.         *)
LEMMA EnqueueInv ==
  ASSUME Inv, NEW f \in Files, ReleaseEnqueue(f)
  PROVE  Inv'
<1> DEFINE b == draft[f].blob
<1>1. TypeOK /\ TypeOK'
  BY MountType DEF Mount, Inv
<1> USE DEF diskVars, memVars, callVars, drainVars, driveVars, histVars
<1>2. /\ UNCHANGED <<staged, side, trash, pending, withdrawn, landed, next, pc, job, seen,
                     handle, draft>>
      /\ accepted' = accepted \cup {b}
      /\ step' = [step EXCEPT ![f] = "queued"] /\ old' = [old EXCEPT ![f] = RowsOf(f)]
      /\ step[f] = "cancelled"
      /\ row' = [x \in Blob |-> IF x = b THEN "queued"
                                 ELSE IF x \in RowsOf(f) THEN "none" ELSE row[x]]
  BY DEF ReleaseEnqueue, Superseded
<1>3. /\ b \in Blob /\ b \in staged /\ b \notin accepted /\ side[b].file = f
      /\ f \notin withdrawn
      /\ \A a \in accepted : side[a].file = f => a < b
      /\ row[b] = "none" /\ b < next
      /\ staged \subseteq Blob /\ accepted \subseteq Blob
  BY <1>1, <1>2, Anchored DEF Inv, CallerInv, Staging, Numbered, FileOf, TypeOK
<1> HIDE DEF b
<1>4. /\ RowsOf(f)' = {b}
      /\ \A g \in Files \ {f} : RowsOf(g)' = RowsOf(g)
      /\ \A x \in RowsOf(f) : x \in accepted /\ x < b /\ side[x].file = f
  <2>1. \A x \in RowsOf(f) : x \in accepted /\ x < b /\ side[x].file = f
    BY <1>3 DEF RowsOf, Inv, Numbered, FileOf
  <2>2. \A g : RowsOf(g)' = {x \in Blob : row'[x] # "none" /\ side[x].file = g}
    BY <1>2 DEF RowsOf, FileOf
  <2>3. \A x \in Blob : side[x].file = f /\ x # b => row'[x] = "none"
    BY <1>2 DEF RowsOf, FileOf
  <2>4. \A x \in Blob : side[x].file # f => row'[x] = row[x]
    BY <1>2, <1>3 DEF RowsOf, FileOf
  <2>5. RowsOf(f)' = {b}
    BY <1>2, <1>3, <2>2, <2>3
  <2>6. \A g \in Files \ {f} : RowsOf(g)' = RowsOf(g)
    BY <2>2, <2>4 DEF RowsOf, FileOf
  <2> QED
    BY <2>1, <2>5, <2>6
<1>5. Numbered'
  BY <1>2, <1>3 DEF Inv, Numbered
<1>6. ASSUME NEW g \in Files
      PROVE  Staging(g)' /\ Superseding(g)' /\ Publishing(g)' /\ Unlinking(g)'
  <2>1. CASE g # f
    <3>1. \A x \in Blob : FileOf(x) = g => row'[x] = row[x]
      BY <1>2, <1>3, <2>1 DEF RowsOf, FileOf
    <3>2. step'[g] = step[g] /\ old'[g] = old[g]
      BY <1>1, <1>2, <2>1 DEF TypeOK
    <3>3. /\ UNCHANGED <<side, staged, handle, draft, withdrawn, pending>>
          /\ accepted \subseteq accepted' /\ \A x \in accepted' \ accepted : FileOf(x) # g
      BY <1>2, <1>3, <2>1 DEF FileOf
    <3> QED
      BY <3>1, <3>2, <3>3, OtherCaller
  <2>2. CASE g = f
    <3>1. step'[f] = "queued" /\ old'[f] = RowsOf(f) /\ draft'[f].blob = b
      BY <1>1, <1>2 DEF TypeOK, b
    <3>2. \A o \in RowsOf(f) : row'[o] = "none"
      BY <1>2, <1>3 DEF RowsOf, Inv, Numbered
    <3> QED
      BY <1>2, <1>3, <1>4, <2>2, <3>1, <3>2
      DEF Staging, Superseding, Publishing, Unlinking, FileOf
  <2> QED
    BY <2>1, <2>2
<1>7. TrashInv'
  BY <1>2, <1>3, <1>4 DEF Inv, TrashInv
<1>8. PendingInv'
  BY <1>2 DEF Inv, PendingInv, FileOf
<1>9. ReadsOwnWrites'
  BY <1>1, <1>2, <1>4 DEF Inv, ReadsOwnWrites, TypeOK
<1>10. \A w \in Workers : job[w].blob # b
  BY <1>1, <1>3, Ranges DEF Inv, WorkerInv, Attempt
<1>11. \A x \in Blob \ {b} : row'[x] = row[x] \/ row'[x] = "none"
  BY <1>2
<1>12. WorkerInv'
  <2> SUFFICES ASSUME NEW w \in Workers PROVE Attempt(w)'
    BY DEF WorkerInv
  <2>1. Attempt(w)
    BY DEF Inv, WorkerInv
  <2>2. pc[w] \in RetiredPc => job[w].blob \in Blob
    BY Anchored DEF RetiredPc, RevisionPc, WorkerPc
  <2> QED
    BY <1>2, <1>10, <1>11, <2>1, <2>2 DEF Attempt, FileOf
<1>13. HoldInv' /\ TrashHoldInv'
  BY <1>2, <1>10, <1>11 DEF Inv, HoldInv, ClaimExclusive, ClaimHeld, TrashHoldInv, Trashing
<1>14. NothingLost'
  BY <1>2, <1>3 DEF Inv, NothingLost, FileOf
<1> QED
  BY <1>1, <1>5, <1>6, <1>7, <1>8, <1>9, <1>12, <1>13, <1>14 DEF Inv, CallerInv

(* Core::pending is pointed at the blob the row already names.             *)
LEMMA PublishInv ==
  ASSUME Inv, NEW f \in Files, ReleasePublish(f)
  PROVE  Inv'
<1> DEFINE b == draft[f].blob
<1>1. TypeOK /\ TypeOK'
  BY MountType DEF Mount, Inv
<1> USE DEF diskVars, memVars, callVars, drainVars, driveVars, histVars
<1>2. /\ UNCHANGED <<staged, side, row, trash, accepted, withdrawn, landed, next, pc, job,
                     seen, handle, draft, old>>
      /\ pending' = [pending EXCEPT ![f] = b]
      /\ step' = [step EXCEPT ![f] = "published"]
      /\ step[f] = "queued"
  BY DEF ReleasePublish
<1>3. /\ b \in Blob /\ b \in staged /\ b \in accepted /\ side[b].file = f
      /\ row[b] = "queued" /\ RowsOf(f) = {b}
  BY <1>1, <1>2, Anchored
  DEF Inv, CallerInv, Superseding, Publishing, Numbered, FileOf
<1>4. \A g \in Files : RowsOf(g)' = RowsOf(g)
  BY <1>2, RowsFrame
<1>5. /\ step'[f] = "published" /\ pending'[f] = b /\ draft'[f].blob = b
      /\ \A g \in Files \ {f} : step'[g] = step[g] /\ pending'[g] = pending[g]
  BY <1>1, <1>2 DEF TypeOK
<1>6. \A w \in Workers : job[w].blob # b
  BY <1>3 DEF Inv, HoldInv
<1> HIDE DEF b
<1>7. ASSUME NEW g \in Files
      PROVE  Staging(g)' /\ Superseding(g)' /\ Publishing(g)' /\ Unlinking(g)'
  <2>1. CASE g # f
    BY <1>2, <1>5, <2>1, OtherCaller
  <2>2. CASE g = f
    <3>1. Superseding(f) /\ Unlinking(f)
      BY DEF Inv, CallerInv
    <3> QED
      BY <1>2, <1>5, <2>2, <3>1 DEF Staging, Superseding, Publishing, Unlinking, FileOf
  <2> QED
    BY <2>1, <2>2
<1>8. Numbered' /\ NothingLost'
  BY <1>2 DEF Inv, Numbered, NothingLost, FileOf
<1>9. TrashInv'
  BY <1>2, <1>4 DEF Inv, TrashInv
<1>10. PendingInv'
  BY <1>2, <1>3, <1>5 DEF Inv, PendingInv, FileOf
<1>11. ReadsOwnWrites'
  BY <1>3, <1>4, <1>5 DEF Inv, ReadsOwnWrites
<1>12. WorkerInv'
  BY <1>2, <1>5, <1>6 DEF Inv, WorkerInv, Attempt, FileOf
<1>13. HoldInv' /\ TrashHoldInv'
  BY <1>2 DEF Inv, HoldInv, ClaimExclusive, ClaimHeld, TrashHoldInv, Trashing
<1> QED
  BY <1>1, <1>7, <1>8, <1>9, <1>10, <1>11, <1>12, <1>13 DEF Inv, CallerInv

(* Bytes go only when no row and no pending entry names them, and when     *)
(* they are expendable.                                                    *)
Forgetting ==
  /\ UNCHANGED <<side, row, accepted, withdrawn, landed, next>>
  /\ staged' \subseteq staged
  /\ \A b \in staged \ staged' :
       /\ row[b] = "none"
       /\ \A f \in Files : pending'[f] # b
       /\ b \in accepted =>
            \/ b \in landed
            \/ FileOf(b) \in withdrawn
            \/ \E newer \in accepted : newer > b /\ FileOf(newer) = FileOf(b)
  /\ \A f \in Files : pending'[f] # pending[f] => pending'[f] = NoBlob /\ RowsOf(f) = {}
  /\ \A f \in Files : step'[f] # step[f] => step[f] # "queued"
  /\ \A w \in Workers : job'[w].blob = job[w].blob

LEMMA ForgetStep ==
  ASSUME Inv, TypeOK', CallerInv', WorkerInv', TrashInv', TrashHoldInv', Forgetting
  PROVE  Inv'
<1> USE DEF Forgetting
<1>1. \A f \in Files : RowsOf(f)' = RowsOf(f)
  BY RowsFrame
<1>2. Numbered'
  BY DEF Inv, Numbered
<1>3. PendingInv'
  BY DEF Inv, PendingInv, FileOf
<1>4. ReadsOwnWrites'
  BY <1>1 DEF Inv, ReadsOwnWrites
<1>5. HoldInv'
  BY DEF Inv, HoldInv, ClaimExclusive, ClaimHeld
<1>6. NothingLost'
  BY DEF Inv, NothingLost, FileOf
<1> QED
  BY <1>2, <1>3, <1>4, <1>5, <1>6 DEF Inv

(* discard_staged of the blob a newer write replaced.                      *)
LEMMA ReleaseDiscardInv ==
  ASSUME Inv, NEW f \in Files, ReleaseDiscard(f)
  PROVE  Inv'
<1>1. TypeOK /\ TypeOK'
  BY MountType DEF Mount, Inv
<1> USE DEF diskVars, memVars, callVars, drainVars, driveVars, histVars
<1>2. /\ UNCHANGED <<side, row, trash, pending, accepted, withdrawn, landed, next, pc, job,
                     seen, handle>>
      /\ staged' = staged \ old[f]
      /\ step[f] = "published" /\ step'[f] = "idle"
      /\ \A g \in Files \ {f} : /\ step'[g] = step[g] /\ draft'[g] = draft[g]
                                /\ old'[g] = old[g]
  BY <1>1 DEF ReleaseDiscard, EndCall, TypeOK
<1>3. Superseding(f) /\ Publishing(f) /\ Unlinking(f)
  BY DEF Inv, CallerInv
<1>4. \A o \in old[f] :
        /\ row[o] = "none"
        /\ \A g \in Files : pending[g] # o
        /\ o \in accepted
        /\ \E newer \in accepted : newer > o /\ FileOf(newer) = FileOf(o)
  <2> SUFFICES ASSUME NEW o \in old[f]
               PROVE  /\ row[o] = "none"
                      /\ \A g \in Files : pending[g] # o
                      /\ o \in accepted
                      /\ \E newer \in accepted : newer > o /\ FileOf(newer) = FileOf(o)
    OBVIOUS
  <2>1. /\ o \in accepted /\ o < draft[f].blob /\ FileOf(o) = f /\ row[o] = "none"
        /\ draft[f].blob \in accepted /\ FileOf(draft[f].blob) = f
        /\ pending[f] \in {draft[f].blob, NoBlob}
    BY <1>2, <1>3 DEF Superseding, Publishing
  <2>2. o \in Int /\ o \in Blob /\ draft[f].blob \in Int
    BY <1>1, <2>1, Ranges DEF TypeOK
  <2>3. \A g \in Files : pending[g] # o
    BY <2>1, <2>2, Ranges DEF Inv, PendingInv
  <2>4. draft[f].blob > o
    BY <2>1, <2>2
  <2> QED
    BY <2>1, <2>3, <2>4
<1>5. ASSUME NEW g \in Files
      PROVE  Staging(g)' /\ Superseding(g)' /\ Publishing(g)' /\ Unlinking(g)'
  <2>1. CASE g # f
    BY <1>2, <1>4, <2>1, OtherCaller
  <2>2. CASE g = f
    BY <1>2, <1>3, <2>2 DEF Staging, Superseding, Publishing, Unlinking
  <2> QED
    BY <2>1, <2>2
<1>6. \A g \in Files : RowsOf(g)' = RowsOf(g)
  BY <1>2, RowsFrame
<1>7. WorkerInv' /\ TrashInv' /\ TrashHoldInv'
  BY <1>2, <1>6 DEF Inv, WorkerInv, Attempt, FileOf, TrashInv, TrashHoldInv, Trashing
<1>8. CallerInv'
  BY <1>5 DEF CallerInv
<1>9. Forgetting
  BY <1>2, <1>4 DEF Forgetting
<1> QED
  BY <1>1, <1>7, <1>8, <1>9, ForgetStep

(* release_dropped_ops, after the user deleted the file.                   *)
LEMMA UnlinkForgetInv ==
  ASSUME Inv, NEW f \in Files, UnlinkForget(f)
  PROVE  Inv'
<1>1. TypeOK /\ TypeOK'
  BY MountType DEF Mount, Inv
<1> USE DEF diskVars, memVars, callVars, drainVars, driveVars, histVars
<1>2. /\ UNCHANGED <<side, row, trash, accepted, withdrawn, landed, next, pc, job, seen,
                     handle>>
      /\ staged' = staged \ old[f]
      /\ step[f] = "unlinked" /\ step'[f] = "idle" /\ pending'[f] = NoBlob
      /\ \A g \in Files \ {f} : /\ step'[g] = step[g] /\ draft'[g] = draft[g]
                                /\ old'[g] = old[g] /\ pending'[g] = pending[g]
  BY <1>1 DEF UnlinkForget, EndCall, TypeOK
<1>3. /\ f \in withdrawn /\ RowsOf(f) = {} /\ ~handle[f].open
      /\ \A o \in old[f] : o \in accepted /\ FileOf(o) = f
  BY <1>2 DEF Inv, CallerInv, Unlinking
<1>4. \A o \in old[f] : row[o] = "none" /\ \A g \in Files : pending'[g] # o
  <2>1. \A o \in old[f] : o \in Blob
    BY <1>1 DEF TypeOK
  <2>2. \A o \in old[f] : row[o] = "none"
    BY <1>3, <2>1 DEF RowsOf
  <2>3. \A o \in old[f], g \in Files : pending'[g] # o
    BY <1>2, <1>3, <2>1, Ranges DEF Inv, PendingInv
  <2> QED
    BY <2>2, <2>3
<1>5. ASSUME NEW g \in Files
      PROVE  Staging(g)' /\ Superseding(g)' /\ Publishing(g)' /\ Unlinking(g)'
  <2>1. CASE g # f
    BY <1>2, <1>3, <2>1, OtherCaller
  <2>2. CASE g = f
    BY <1>2, <1>3, <2>2 DEF Staging, Superseding, Publishing, Unlinking
  <2> QED
    BY <2>1, <2>2
<1>6. \A g \in Files : RowsOf(g)' = RowsOf(g)
  BY <1>2, RowsFrame
<1>7. WorkerInv'
  <2> SUFFICES ASSUME NEW w \in Workers PROVE Attempt(w)'
    BY DEF WorkerInv
  <2>1. Attempt(w) /\ job[w].file \in Files
    BY <1>1, Shapes DEF Inv, WorkerInv, TypeOK
  <2>2. pc[w] \in {"place", "discard"} => job[w].blob # NoBlob
    BY <2>1 DEF Attempt, RevisionPc, WorkerPc
  <2> QED
    BY <1>2, <2>1, <2>2 DEF Attempt, FileOf
<1>8. TrashInv' /\ TrashHoldInv'
  BY <1>2, <1>6 DEF Inv, TrashInv, TrashHoldInv, Trashing
<1>9. CallerInv'
  BY <1>5 DEF CallerInv
<1>10. Forgetting
  BY <1>2, <1>3, <1>4 DEF Forgetting
<1> QED
  BY <1>1, <1>7, <1>8, <1>9, <1>10, ForgetStep

(* replace_ops_with_trash: the rows of the file go as its trash row comes. *)
LEMMA UnlinkReplaceInv ==
  ASSUME Inv, NEW f \in Files, UnlinkReplace(f)
  PROVE  Inv'
<1>1. TypeOK /\ TypeOK'
  BY MountType DEF Mount, Inv
<1> USE DEF diskVars, memVars, callVars, drainVars, driveVars, histVars
<1>2. /\ UNCHANGED <<staged, side, pending, accepted, landed, next, pc, job, seen, handle,
                     draft>>
      /\ row' = [b \in Blob |-> IF b \in RowsOf(f) THEN "none" ELSE row[b]]
      /\ trash' = [trash EXCEPT ![f] = "queued"]
      /\ withdrawn' = withdrawn \cup {f}
      /\ step[f] = "unlinking" /\ step'[f] = "unlinked" /\ old'[f] = RowsOf(f)
      /\ \A g \in Files \ {f} : step'[g] = step[g] /\ old'[g] = old[g]
  BY <1>1 DEF UnlinkReplace, TypeOK
<1>3. f \notin withdrawn /\ ~handle[f].open
  BY <1>2 DEF Inv, CallerInv, Unlinking
<1>4. \A b \in Blob : /\ side[b].file = f => row'[b] = "none"
                      /\ side[b].file # f => row'[b] = row[b]
                      /\ row'[b] = row[b] \/ row'[b] = "none"
  BY <1>2 DEF RowsOf, FileOf
<1>5. RowsOf(f)' = {} /\ \A g \in Files \ {f} : RowsOf(g)' = RowsOf(g)
  BY <1>2, <1>4 DEF RowsOf, FileOf
<1>6. Numbered' /\ NothingLost'
  BY <1>2, <1>4 DEF Inv, Numbered, NothingLost, FileOf
<1>7. ASSUME NEW g \in Files
      PROVE  Staging(g)' /\ Superseding(g)' /\ Publishing(g)' /\ Unlinking(g)'
  <2>1. CASE g # f
    <3>1. \A b \in Blob : FileOf(b) = g => row'[b] = row[b]
      BY <1>4, <2>1 DEF FileOf
    <3> QED
      BY <1>2, <2>1, <3>1, OtherCaller
  <2>2. CASE g = f
    <3>1. \A o \in RowsOf(f) : o \in accepted /\ FileOf(o) = f
      BY DEF Inv, Numbered, RowsOf
    <3> QED
      BY <1>2, <1>3, <1>5, <2>2, <3>1
      DEF Staging, Superseding, Publishing, Unlinking, FileOf
  <2> QED
    BY <2>1, <2>2
<1>8. TrashInv'
  BY <1>1, <1>2, <1>5 DEF Inv, TrashInv, TypeOK
<1>9. PendingInv'
  BY <1>2 DEF Inv, PendingInv, FileOf
<1>10. ReadsOwnWrites'
  BY <1>2, <1>5 DEF Inv, ReadsOwnWrites
<1>11. WorkerInv'
  <2> SUFFICES ASSUME NEW w \in Workers PROVE Attempt(w)'
    BY DEF WorkerInv
  <2>1. Attempt(w)
    BY DEF Inv, WorkerInv
  <2>2. pc[w] \in RetiredPc => job[w].blob \in Blob
    BY Anchored DEF RetiredPc, RevisionPc, WorkerPc
  <2>3. pc[w] \in {"trash", "trashed"} => job[w].file \in withdrawn
    BY <2>1 DEF Attempt, Inv, TrashHoldInv, Trashing
  <2>4. pc[w] \in {"trash", "trashed"} => trash'[job[w].file] = trash[job[w].file]
    BY <1>1, <1>2, <1>3, <2>3 DEF TypeOK
  <2> QED
    BY <1>2, <1>4, <2>1, <2>2, <2>4 DEF Attempt, FileOf
<1>12. HoldInv'
  BY <1>2, <1>4 DEF Inv, HoldInv, ClaimExclusive, ClaimHeld
<1>13. TrashHoldInv'
  <2>1. \A w \in Workers : Trashing(w)' <=> Trashing(w)
    BY <1>2 DEF Trashing
  <2> QED
    BY <1>1, <1>2, <1>3, <2>1 DEF Inv, TrashHoldInv, TypeOK
<1> QED
  BY <1>1, <1>6, <1>7, <1>8, <1>9, <1>10, <1>11, <1>12, <1>13 DEF Inv, CallerInv

(***************************************************************************)
(* The steps of a drain attempt                                            *)
(***************************************************************************)
(* claim_next_due_op: the row it takes is nobody's, and no caller is about *)
(* to publish it.                                                          *)
LEMMA ClaimInv ==
  ASSUME Inv, NEW w \in Workers, Claim(w)
  PROVE  Inv'
<1>1. TypeOK /\ TypeOK'
  BY DrainType DEF Drain, Inv
<1> USE DEF diskVars, memVars, callVars, drainVars, driveVars, histVars
<1>2. PICK b \in Blob : /\ row[b] = "queued"
                        /\ Debounced(b)
                        /\ row' = [row EXCEPT ![b] = "claimed"]
                        /\ job' = [job EXCEPT ![w] = [file |-> FileOf(b), blob |-> b,
                                                      meta |-> meta[b]]]
  BY DEF Claim, Claimable
<1>3. /\ UNCHANGED <<staged, side, trash, pending, accepted, landed, next, step, draft, old,
                     handle, withdrawn>>
      /\ pc[w] = "idle" /\ pc'[w] = "check"
      /\ \A v \in Workers \ {w} : pc'[v] = pc[v] /\ seen'[v] = seen[v]
  BY <1>1 DEF Claim, TypeOK
<1>4. /\ row'[b] = "claimed" /\ \A x \in Blob \ {b} : row'[x] = row[x]
      /\ job'[w].blob = b /\ job'[w].file = side[b].file
      /\ \A v \in Workers \ {w} : job'[v] = job[v]
  BY <1>1, <1>2 DEF TypeOK, FileOf
<1>5. \A g \in Files : RowsOf(g)' = RowsOf(g)
  BY <1>2, <1>3, <1>4 DEF RowsOf, FileOf
<1>6. b \in accepted /\ b # NoBlob /\ \A v \in Workers : job[v].blob # b
  BY <1>2, Ranges DEF Inv, Numbered, HoldInv
<1>7. Numbered' /\ NothingLost' /\ PendingInv'
  BY <1>2, <1>3, <1>4 DEF Inv, Numbered, NothingLost, PendingInv, FileOf
<1>8. CallerInv'
  <2> SUFFICES ASSUME NEW g \in Files
               PROVE  Staging(g)' /\ Superseding(g)' /\ Publishing(g)' /\ Unlinking(g)'
    BY DEF CallerInv
  <2>1. Staging(g) /\ Superseding(g) /\ Publishing(g) /\ Unlinking(g) /\ old[g] \subseteq Blob
    BY <1>1 DEF Inv, CallerInv, TypeOK
  <2>2. step[g] = "queued" => draft[g].blob # b /\ draft[g].blob \in Blob
    BY <1>2, Anchored DEF Debounced
  <2> QED
    BY <1>2, <1>3, <1>4, <1>5, <2>1, <2>2
    DEF Staging, Superseding, Publishing, Unlinking, FileOf
<1>9. TrashInv' /\ ReadsOwnWrites'
  BY <1>3, <1>5 DEF Inv, TrashInv, ReadsOwnWrites
<1>10. WorkerInv'
  <2> SUFFICES ASSUME NEW v \in Workers PROVE Attempt(v)'
    BY DEF WorkerInv
  <2>1. CASE v # w
    <3>1. Attempt(v)
      BY DEF Inv, WorkerInv
    <3>2. pc[v] \in RetiredPc => job[v].blob \in Blob
      BY Anchored DEF RetiredPc, RevisionPc, WorkerPc
    <3> QED
      BY <1>3, <1>4, <1>6, <2>1, <3>1, <3>2 DEF Attempt, FileOf
  <2>2. CASE v = w
    BY <1>3, <1>4, <1>6, <2>2 DEF Attempt, FileOf, LandedPc, RetiredPc
  <2> QED
    BY <2>1, <2>2
<1>11. HoldInv'
  <2>1. ClaimExclusive' /\ \A x \in Blob, v \in Workers : row'[x] = "queued" => job'[v].blob # x
    BY <1>1, <1>4, <1>6 DEF Inv, HoldInv, ClaimExclusive
  <2>2. ClaimHeld'
    <3> SUFFICES ASSUME NEW x \in Blob, row'[x] = "claimed"
                 PROVE  \E v \in Workers : job'[v].blob = x
      BY DEF ClaimHeld
    <3>1. CASE x = b
      BY <1>4, <3>1
    <3>2. CASE x # b
      <4>1. PICK v \in Workers : job[v].blob = x
        BY <1>4, <3>2 DEF Inv, HoldInv, ClaimHeld
      <4>2. v # w
        BY <1>3, <4>1, Ranges DEF Inv, WorkerInv, Attempt
      <4> QED
        BY <1>4, <4>1, <4>2
    <3> QED
      BY <3>1, <3>2
  <2> QED
    BY <2>1, <2>2 DEF HoldInv
<1>12. TrashHoldInv'
  <2>1. ~Trashing(w)' /\ \A v \in Workers \ {w} : Trashing(v)' <=> Trashing(v)
    BY <1>3, <1>4, <1>6 DEF Trashing
  <2> QED
    BY <1>3, <1>4, <2>1 DEF Inv, TrashHoldInv
<1> QED
  BY <1>1, <1>7, <1>8, <1>9, <1>10, <1>11, <1>12 DEF Inv

(* delete_op: the row goes before the pending entry and the bytes do.      *)
LEMMA RetireInv ==
  ASSUME Inv, NEW w \in Workers, Retire(w) \/ Abandon(w)
  PROVE  Inv'
<1> DEFINE b == job[w].blob
<1>1. TypeOK /\ TypeOK'
  BY DrainType DEF Drain, Inv
<1> USE DEF diskVars, memVars, callVars, drainVars, driveVars, histVars
<1>2. /\ UNCHANGED <<staged, side, trash, pending, accepted, landed, next, step, draft, old,
                     handle, withdrawn, job, seen>>
      /\ row' = [row EXCEPT ![b] = "none"]
      /\ \A v \in Workers \ {w} : pc'[v] = pc[v]
  BY <1>1 DEF Retire, Abandon, DeleteOp, Goto, TypeOK
<1>3. \/ pc[w] \in {"retire", "copied"} /\ pc'[w] \in {"readback", "letgo"}
      \/ pc[w] = "copy" /\ pc'[w] = "abandon"
  BY <1>1 DEF Retire, Abandon, DeleteOp, Goto, TypeOK
<1>4. b \in Blob /\ b # NoBlob /\ Attempt(w)
  BY <1>3, Anchored, Ranges DEF Inv, WorkerInv, RevisionPc, WorkerPc
<1>5. row'[b] = "none" /\ \A x \in Blob : row'[x] = row[x] \/ x = b
  BY <1>1, <1>2, <1>4 DEF TypeOK
<1>6. \A x \in Blob : row[x] = "queued" => x # b
  BY DEF Inv, HoldInv
<1> HIDE DEF b
<1>7. \A g \in Files : RowsOf(g)' = RowsOf(g) \ {b}
  BY <1>2, <1>5 DEF RowsOf, FileOf
<1>8. Numbered' /\ NothingLost' /\ PendingInv'
  BY <1>2, <1>5 DEF Inv, Numbered, NothingLost, PendingInv, FileOf
<1>9. CallerInv'
  <2> SUFFICES ASSUME NEW g \in Files
               PROVE  Staging(g)' /\ Superseding(g)' /\ Publishing(g)' /\ Unlinking(g)'
    BY DEF CallerInv
  <2>1. Staging(g) /\ Superseding(g) /\ Publishing(g) /\ Unlinking(g) /\ old[g] \subseteq Blob
    BY <1>1 DEF Inv, CallerInv, TypeOK
  <2>2. step[g] = "queued" => draft[g].blob \in Blob
    BY Anchored
  <2> QED
    BY <1>2, <1>5, <1>6, <1>7, <2>1, <2>2
    DEF Staging, Superseding, Publishing, Unlinking, FileOf
<1>10. TrashInv' /\ ReadsOwnWrites'
  BY <1>2, <1>7 DEF Inv, TrashInv, ReadsOwnWrites
<1>11. WorkerInv'
  <2> SUFFICES ASSUME NEW v \in Workers PROVE Attempt(v)'
    BY DEF WorkerInv
  <2>1. Attempt(v)
    BY DEF Inv, WorkerInv
  <2>2. CASE v # w
    <3>1. pc[v] \in RetiredPc => job[v].blob \in Blob
      BY Anchored DEF RetiredPc, RevisionPc, WorkerPc
    <3> QED
      BY <1>2, <1>5, <2>1, <2>2, <3>1 DEF Attempt, FileOf
  <2>3. CASE v = w
    BY <1>2, <1>3, <1>4, <1>5, <2>1, <2>3
    DEF Attempt, FileOf, LandedPc, RetiredPc, RevisionPc, b
  <2> QED
    BY <2>2, <2>3
<1>12. HoldInv'
  BY <1>2, <1>5 DEF Inv, HoldInv, ClaimExclusive, ClaimHeld
<1>13. TrashHoldInv'
  <2>1. \A v \in Workers : Trashing(v)' => Trashing(v)
    BY <1>2, <1>4 DEF Trashing, b
  <2> QED
    BY <1>2, <2>1 DEF Inv, TrashHoldInv
<1> QED
  BY <1>1, <1>8, <1>9, <1>10, <1>11, <1>12, <1>13 DEF Inv

(* release_pending: the entry goes only if it still names the blob whose   *)
(* row is already gone.                                                    *)
LEMMA LetGoInv ==
  ASSUME Inv, NEW w \in Workers, LetGo(w)
  PROVE  Inv'
<1>1. TypeOK /\ TypeOK'
  BY DrainType DEF Drain, Inv
<1> USE DEF diskVars, memVars, callVars, drainVars, driveVars, histVars
<1>2. /\ UNCHANGED <<staged, side, row, trash, accepted, landed, next, step, draft, old,
                     handle, withdrawn, job, seen>>
      /\ pending' = IF pending[job[w].file] = job[w].blob
                       THEN [pending EXCEPT ![job[w].file] = NoBlob] ELSE pending
      /\ \A v \in Workers \ {w} : pc'[v] = pc[v]
  BY <1>1 DEF LetGo, AfterLetGo, ReleasePending, Goto, TypeOK
<1>3. /\ pc[w] \in {"letgo", "abandon"}
      /\ pc'[w] = IF pc[w] = "abandon" THEN "release"
                  ELSE IF seen[w] = NoRev THEN "discard" ELSE "place"
  BY <1>1 DEF LetGo, AfterLetGo, Goto, TypeOK
<1>4. /\ job[w].blob \in Blob /\ job[w].blob # NoBlob /\ Attempt(w) /\ job[w].file \in Files
      /\ row[job[w].blob] = "none"
  BY <1>1, <1>3, Anchored, Ranges, Shapes
  DEF Inv, WorkerInv, Attempt, RevisionPc, RetiredPc, WorkerPc, TypeOK
<1>5. /\ pending'[job[w].file] # job[w].blob
      /\ \A f \in Files : \/ pending'[f] = pending[f]
                          \/ pending'[f] = NoBlob /\ pending[f] = job[w].blob
  BY <1>1, <1>2, <1>4 DEF TypeOK
<1>6. \A g \in Files : RowsOf(g)' = RowsOf(g)
  BY <1>2, RowsFrame
<1>7. Numbered' /\ NothingLost' /\ PendingInv'
  BY <1>2, <1>5 DEF Inv, Numbered, NothingLost, PendingInv, FileOf
<1>8. CallerInv'
  BY <1>2, <1>5, <1>6 DEF Inv, CallerInv, Staging, Superseding, Publishing, Unlinking, FileOf
<1>9. TrashInv'
  BY <1>2, <1>6 DEF Inv, TrashInv
<1>10. ReadsOwnWrites'
  BY <1>2, <1>4, <1>5, <1>6 DEF Inv, ReadsOwnWrites, RowsOf
<1>11. WorkerInv'
  <2> SUFFICES ASSUME NEW v \in Workers PROVE Attempt(v)'
    BY DEF WorkerInv
  <2>1. Attempt(v) /\ job[v].file \in Files
    BY <1>1, Shapes DEF Inv, WorkerInv, TypeOK
  <2>2. CASE v # w
    BY <1>2, <1>5, <2>1, <2>2 DEF Attempt, FileOf, RevisionPc, WorkerPc
  <2>3. CASE v = w
    BY <1>2, <1>3, <1>4, <1>5, <2>1, <2>3
    DEF Attempt, FileOf, LandedPc, RetiredPc, RevisionPc
  <2> QED
    BY <2>2, <2>3
<1>12. HoldInv'
  BY <1>2 DEF Inv, HoldInv, ClaimExclusive, ClaimHeld
<1>13. TrashHoldInv'
  <2>1. \A v \in Workers : Trashing(v)' => Trashing(v)
    BY <1>2, <1>4 DEF Trashing
  <2> QED
    BY <1>2, <2>1 DEF Inv, TrashHoldInv
<1> QED
  BY <1>1, <1>7, <1>8, <1>9, <1>10, <1>11, <1>12, <1>13 DEF Inv

(* discard_staged of a write that landed.                                  *)
LEMMA DiscardInv ==
  ASSUME Inv, NEW w \in Workers, Discard(w)
  PROVE  Inv'
<1>1. TypeOK /\ TypeOK'
  BY DrainType DEF Drain, Inv
<1> USE DEF diskVars, memVars, callVars, drainVars, driveVars, histVars
<1>2. /\ UNCHANGED <<side, row, trash, pending, accepted, landed, next, step, draft, old,
                     handle, withdrawn, job, seen>>
      /\ staged' = staged \ {job[w].blob}
      /\ pc[w] = "discard" /\ pc'[w] = "release"
      /\ \A v \in Workers \ {w} : pc'[v] = pc[v]
  BY <1>1 DEF Discard, Goto, TypeOK
<1>3. /\ job[w].blob # NoBlob /\ job[w].blob \in landed /\ job[w].blob \in accepted
      /\ row[job[w].blob] = "none" /\ pending[job[w].file] # job[w].blob
      /\ FileOf(job[w].blob) = job[w].file /\ Attempt(w)
  BY <1>2 DEF Inv, WorkerInv, Attempt, RevisionPc, LandedPc, RetiredPc, WorkerPc
<1>4. \A g \in Files : pending[g] # job[w].blob
  BY <1>3 DEF Inv, PendingInv
<1>5. \A g \in Files : RowsOf(g)' = RowsOf(g)
  BY <1>2, RowsFrame
<1>6. CallerInv'
  BY <1>2, <1>3, <1>5
  DEF Inv, CallerInv, Staging, Superseding, Publishing, Unlinking, FileOf
<1>7. TrashInv'
  BY <1>2, <1>5 DEF Inv, TrashInv
<1>8. WorkerInv'
  <2> SUFFICES ASSUME NEW v \in Workers PROVE Attempt(v)'
    BY DEF WorkerInv
  <2>1. Attempt(v)
    BY DEF Inv, WorkerInv
  <2>2. CASE v # w
    BY <1>2, <2>1, <2>2 DEF Attempt, FileOf
  <2>3. CASE v = w
    BY <1>2, <1>3, <2>1, <2>3 DEF Attempt, FileOf, LandedPc, RetiredPc, RevisionPc
  <2> QED
    BY <2>2, <2>3
<1>9. TrashHoldInv'
  <2>1. \A v \in Workers : Trashing(v)' => Trashing(v)
    BY <1>2, <1>3 DEF Trashing
  <2> QED
    BY <1>2, <2>1 DEF Inv, TrashHoldInv
<1>10. Forgetting
  BY <1>2, <1>3, <1>4 DEF Forgetting
<1> QED
  BY <1>1, <1>6, <1>7, <1>8, <1>9, <1>10, ForgetStep

(* release_op_claim: a row that is still there goes back from its holder.  *)
LEMMA ReleaseClaimInv ==
  ASSUME Inv, NEW w \in Workers, ReleaseClaim(w)
  PROVE  Inv'
<1> DEFINE b == job[w].blob
           f == job[w].file
<1>1. TypeOK /\ TypeOK'
  BY DrainType DEF Drain, Inv
<1> USE DEF diskVars, memVars, callVars, drainVars, driveVars, histVars
<1>2. /\ UNCHANGED <<staged, side, pending, accepted, landed, next, step, draft, old,
                     handle, withdrawn>>
      /\ pc[w] = "release" /\ pc'[w] = "idle" /\ job'[w].blob = NoBlob
      /\ \A v \in Workers \ {w} : pc'[v] = pc[v] /\ job'[v] = job[v] /\ seen'[v] = seen[v]
  BY <1>1 DEF ReleaseClaim, NoJob, TypeOK
<1>3. b \in 0 .. MaxBlob /\ f \in Files
  BY <1>1, Shapes DEF TypeOK
<1>4. \A x \in Blob : row'[x] = IF x = b THEN Unclaim(row[x]) ELSE row[x]
  BY <1>1, <1>3, Ranges DEF ReleaseClaim, Unclaim, TypeOK
<1>5. \A g \in Files : trash'[g] = IF g = f /\ b = NoBlob THEN Unclaim(trash[g]) ELSE trash[g]
  BY <1>1, <1>3 DEF ReleaseClaim, Unclaim, TypeOK
<1> HIDE DEF b, f
<1>6. \A g \in Files : RowsOf(g)' = RowsOf(g)
  BY <1>2, <1>4 DEF RowsOf, FileOf, Unclaim
<1>7. Numbered' /\ NothingLost' /\ PendingInv'
  BY <1>2, <1>4 DEF Inv, Numbered, NothingLost, PendingInv, FileOf, Unclaim
<1>8. CallerInv'
  <2> SUFFICES ASSUME NEW g \in Files
               PROVE  Staging(g)' /\ Superseding(g)' /\ Publishing(g)' /\ Unlinking(g)'
    BY DEF CallerInv
  <2>1. Staging(g) /\ Superseding(g) /\ Publishing(g) /\ Unlinking(g) /\ old[g] \subseteq Blob
    BY <1>1 DEF Inv, CallerInv, TypeOK
  <2>2. step[g] = "queued" => draft[g].blob \in Blob
    BY Anchored
  <2> QED
    BY <1>2, <1>4, <1>6, <2>1, <2>2
    DEF Staging, Superseding, Publishing, Unlinking, FileOf, Unclaim
<1>9. TrashInv' /\ ReadsOwnWrites'
  BY <1>2, <1>5, <1>6 DEF Inv, TrashInv, ReadsOwnWrites, Unclaim
<1>10. WorkerInv'
  <2> SUFFICES ASSUME NEW v \in Workers PROVE Attempt(v)'
    BY DEF WorkerInv
  <2>1. CASE v # w
    <3>1. Attempt(v) /\ job[v].file \in Files
      BY <1>1, Shapes DEF Inv, WorkerInv, TypeOK
    <3>2. pc[v] \in RetiredPc => job[v].blob \in Blob
      BY Anchored DEF RetiredPc, RevisionPc, WorkerPc
    <3>3. pc[v] \in {"trash", "trashed"} => trash'[job[v].file] = trash[job[v].file]
      <4> SUFFICES ASSUME pc[v] \in {"trash", "trashed"}, b = NoBlob PROVE job[v].file # f
        BY <1>5, <3>1
      <4>1. Trashing(v) /\ Trashing(w)
        BY <1>2, <3>1 DEF Trashing, Attempt, b
      <4> QED
        BY <2>1, <4>1 DEF Inv, TrashHoldInv, f
    <3> QED
      BY <1>2, <1>4, <2>1, <3>1, <3>2, <3>3 DEF Attempt, FileOf, Unclaim
  <2>2. CASE v = w
    BY <1>2, <2>2 DEF Attempt, RevisionPc, LandedPc, RetiredPc
  <2> QED
    BY <2>1, <2>2
<1>11. HoldInv'
  <2>1. ClaimExclusive'
    BY <1>2 DEF Inv, HoldInv, ClaimExclusive, ClaimHeld
  <2>2. ASSUME NEW x \in Blob, NEW v \in Workers, row'[x] = "queued"
        PROVE  job'[v].blob # x
    <3>1. CASE v = w
      BY <1>2, <3>1, Ranges
    <3>2. CASE v # w /\ x = b
      BY <1>2, <3>2, Ranges DEF Inv, HoldInv, ClaimExclusive, ClaimHeld, b
    <3>3. CASE v # w /\ x # b
      BY <1>2, <1>4, <2>2, <3>3 DEF Inv, HoldInv
    <3> QED
      BY <3>1, <3>2, <3>3
  <2>3. ClaimHeld'
    <3> SUFFICES ASSUME NEW x \in Blob, row'[x] = "claimed"
                 PROVE  \E v \in Workers : job'[v].blob = x
      BY DEF ClaimHeld
    <3>1. x # b /\ row[x] = "claimed"
      BY <1>4 DEF Unclaim
    <3>2. PICK v \in Workers : job[v].blob = x
      BY <3>1 DEF Inv, HoldInv, ClaimHeld
    <3>3. v # w
      BY <3>1, <3>2 DEF b
    <3> QED
      BY <1>2, <3>2, <3>3
  <2> QED
    BY <2>1, <2>2, <2>3 DEF HoldInv
<1>12. TrashHoldInv'
  <2>1. ~Trashing(w)' /\ \A v \in Workers \ {w} : Trashing(v)' <=> Trashing(v)
    BY <1>2 DEF Trashing
  <2>2. \A v \in Workers \ {w} : Trashing(v) => trash'[job[v].file] # "queued"
    <3> SUFFICES ASSUME NEW v \in Workers \ {w}, Trashing(v)
                 PROVE  trash'[job[v].file] # "queued"
      OBVIOUS
    <3>1. trash[job[v].file] # "queued" /\ job[v].file \in Files
      BY <1>1, Shapes DEF Inv, TrashHoldInv, TypeOK
    <3>2. b = NoBlob => job[v].file # f
      BY <1>2 DEF Inv, TrashHoldInv, Trashing, b, f
    <3> QED
      BY <1>5, <3>1, <3>2
  <2> QED
    BY <1>2, <2>1, <2>2 DEF Inv, TrashHoldInv
<1> QED
  BY <1>1, <1>7, <1>8, <1>9, <1>10, <1>11, <1>12 DEF Inv

(* A worker claims a trash row, which nobody else holds.                   *)
LEMMA ClaimTrashInv ==
  ASSUME Inv, NEW w \in Workers, ClaimTrash(w)
  PROVE  Inv'
<1>1. TypeOK /\ TypeOK'
  BY DrainType DEF Drain, Inv
<1> USE DEF diskVars, memVars, callVars, drainVars, driveVars, histVars
<1>2. PICK f \in Files : /\ trash[f] = "queued"
                         /\ trash' = [trash EXCEPT ![f] = "claimed"]
                         /\ job' = [job EXCEPT ![w] = [file |-> f, blob |-> NoBlob,
                                                       meta |-> Blank]]
  BY DEF ClaimTrash
<1>3. /\ UNCHANGED <<staged, side, row, pending, accepted, landed, next, step, draft, old,
                     handle, withdrawn, seen>>
      /\ pc[w] = "idle" /\ pc'[w] = "trash"
      /\ \A v \in Workers \ {w} : pc'[v] = pc[v]
  BY <1>1 DEF ClaimTrash, TypeOK
<1>4. /\ job'[w].blob = NoBlob /\ job'[w].file = f
      /\ \A v \in Workers \ {w} : job'[v] = job[v]
      /\ trash'[f] = "claimed" /\ \A g \in Files \ {f} : trash'[g] = trash[g]
  BY <1>1, <1>2 DEF TypeOK
<1>5. f \in withdrawn /\ \A v \in Workers : Trashing(v) => job[v].file # f
  BY <1>2 DEF Inv, TrashInv, TrashHoldInv
<1>6. \A g \in Files : RowsOf(g)' = RowsOf(g)
  BY <1>3, RowsFrame
<1>7. Numbered' /\ NothingLost' /\ PendingInv'
  BY <1>3 DEF Inv, Numbered, NothingLost, PendingInv, FileOf
<1>8. CallerInv'
  BY <1>3, <1>6 DEF Inv, CallerInv, Staging, Superseding, Publishing, Unlinking, FileOf
<1>9. TrashInv' /\ ReadsOwnWrites'
  BY <1>2, <1>3, <1>4, <1>6 DEF Inv, TrashInv, ReadsOwnWrites
<1>10. WorkerInv'
  <2> SUFFICES ASSUME NEW v \in Workers PROVE Attempt(v)'
    BY DEF WorkerInv
  <2>1. CASE v # w
    <3>1. Attempt(v) /\ job[v].file \in Files
      BY <1>1, Shapes DEF Inv, WorkerInv, TypeOK
    <3> QED
      BY <1>2, <1>3, <1>4, <2>1, <3>1 DEF Attempt, FileOf
  <2>2. CASE v = w
    BY <1>3, <1>4, <2>2 DEF Attempt, RevisionPc, LandedPc, RetiredPc
  <2> QED
    BY <2>1, <2>2
<1>11. HoldInv'
  <2>1. job[w].blob = NoBlob
    BY <1>3 DEF Inv, WorkerInv, Attempt
  <2>2. \A v \in Workers : job'[v].blob = job[v].blob
    BY <1>4, <2>1
  <2> QED
    BY <1>3, <2>2 DEF Inv, HoldInv, ClaimExclusive, ClaimHeld
<1>12. TrashHoldInv'
  <2>1. \A v \in Workers \ {w} : Trashing(v)' <=> Trashing(v)
    BY <1>3, <1>4 DEF Trashing
  <2>2. \A v \in Workers : job[v].file \in Files
    BY <1>1, Shapes DEF TypeOK
  <2> QED
    BY <1>3, <1>4, <1>5, <2>1, <2>2 DEF Inv, TrashHoldInv
<1> QED
  BY <1>1, <1>7, <1>8, <1>9, <1>10, <1>11, <1>12 DEF Inv

(* retire_trash_op: the row, the pending entry and its bytes go together.  *)
LEMMA RetireTrashInv ==
  ASSUME Inv, NEW w \in Workers, RetireTrash(w)
  PROVE  Inv'
<1> DEFINE f == job[w].file
<1>1. TypeOK /\ TypeOK'
  BY DrainType DEF Drain, Inv
<1> USE DEF diskVars, memVars, callVars, drainVars, driveVars, histVars
<1>2. /\ UNCHANGED <<side, row, accepted, landed, next, step, draft, old, handle, withdrawn,
                     job, seen>>
      /\ staged' = staged \ {pending[f]}
      /\ pc[w] = "trashed" /\ pc'[w] = "release"
      /\ \A v \in Workers \ {w} : pc'[v] = pc[v]
  BY <1>1 DEF RetireTrash, Goto, TypeOK
<1>3. /\ f \in Files /\ trash'[f] = "none" /\ pending'[f] = NoBlob
      /\ \A g \in Files \ {f} : trash'[g] = trash[g] /\ pending'[g] = pending[g]
  BY <1>1, Shapes DEF RetireTrash, TypeOK
<1>4. trash[f] = "claimed" /\ job[w].blob = NoBlob /\ Attempt(w) /\ Trashing(w)
  BY <1>2 DEF Inv, WorkerInv, Attempt, Trashing
<1>5. f \in withdrawn /\ RowsOf(f) = {}
  BY <1>3, <1>4 DEF Inv, TrashInv
<1> HIDE DEF f
<1>6. \A b \in staged \ staged' : /\ b = pending[f] /\ b # NoBlob /\ b \in Blob
                                  /\ b \in accepted /\ FileOf(b) = f /\ row[b] = "none"
  BY <1>1, <1>2, <1>3, <1>5, Ranges DEF Inv, PendingInv, RowsOf, TypeOK
<1>7. \A g \in Files : RowsOf(g)' = RowsOf(g)
  BY <1>2, RowsFrame
<1>8. CallerInv'
  BY <1>2, <1>3, <1>6, OtherCaller DEF CallerInv
<1>9. TrashInv'
  BY <1>2, <1>3, <1>7 DEF Inv, TrashInv
<1>10. WorkerInv'
  <2> SUFFICES ASSUME NEW v \in Workers PROVE Attempt(v)'
    BY DEF WorkerInv
  <2>1. Attempt(v) /\ job[v].file \in Files
    BY <1>1, Shapes DEF Inv, WorkerInv, TypeOK
  <2>2. CASE v # w
    <3>1. pc[v] \in {"trash", "trashed"} => job[v].file # f
      BY <1>4, <2>1, <2>2 DEF Inv, TrashHoldInv, Trashing, Attempt, f
    <3>2. pc[v] \in {"place", "discard"} => job[v].blob # NoBlob
      BY <2>1 DEF Attempt, RevisionPc, WorkerPc
    <3> QED
      BY <1>2, <1>3, <2>1, <2>2, <3>1, <3>2 DEF Attempt, FileOf
  <2>3. CASE v = w
    BY <1>2, <1>4, <2>3 DEF Attempt, RevisionPc, LandedPc, RetiredPc
  <2> QED
    BY <2>2, <2>3
<1>11. TrashHoldInv'
  <2>1. \A v \in Workers : Trashing(v)' => Trashing(v)
    BY <1>2, <1>4 DEF Trashing
  <2>2. \A v \in Workers : job[v].file \in Files
    BY <1>1, Shapes DEF TypeOK
  <2> QED
    BY <1>2, <1>3, <2>1, <2>2 DEF Inv, TrashHoldInv
<1>12. Forgetting
  <2>1. \A b \in staged \ staged', g \in Files : pending'[g] # b
    BY <1>3, <1>6 DEF Inv, PendingInv
  <2> QED
    BY <1>2, <1>3, <1>5, <1>6, <2>1 DEF Forgetting
<1> QED
  BY <1>1, <1>8, <1>9, <1>10, <1>11, <1>12, ForgetStep

(***************************************************************************)
(* A restart                                                               *)
(***************************************************************************)
(* A file has at most one revision row, so hydrate_pending serves it.      *)
LEMMA OneRow ==
  ASSUME Inv, NEW f \in Files, NEW a \in RowsOf(f), NEW b \in RowsOf(f)
  PROVE  a = b
<1>1. CASE step[f] = "queued"
  BY <1>1 DEF Inv, CallerInv, Publishing
<1>2. CASE step[f] # "queued"
  BY <1>2 DEF Inv, ReadsOwnWrites
<1> QED
  BY <1>1, <1>2

(* clear_op_claims, hydrate_pending and reconcile_staging rebuild the      *)
(* invariant from what is on disk.                                         *)
LEMMA RestartInv ==
  ASSUME Inv, Restart
  PROVE  Inv'
<1> DEFINE Serving(pick, f) ==
      IF RowsOf(f) # {} THEN CHOOSE b \in RowsOf(f) : TRUE ELSE pick[f]
    Taken(pick) == {pick[f] : f \in Files} \ {NoBlob}
<1>1. TypeOK /\ TypeOK'
  BY RestartType DEF Inv
<1>2. PICK pick \in [Files -> 0 .. MaxBlob] :
        /\ \A f \in Files : pick[f] \in Requeues(f)
        /\ row' = [b \in Blob |-> IF b \in Taken(pick) THEN "queued" ELSE Unclaim(row[b])]
        /\ accepted' = accepted \cup Taken(pick)
        /\ pending' = [f \in Files |-> Serving(pick, f)]
  BY DEF Restart
<1>3. /\ UNCHANGED <<side, next, withdrawn, landed>>
      /\ staged' = staged \ Swept
      /\ trash' = [f \in Files |-> Unclaim(trash[f])]
      /\ handle' = [f \in Files |-> Closed]
      /\ step' = [f \in Files |-> "idle"]
      /\ pc' = [w \in Workers |-> "idle"]
      /\ job' = [w \in Workers |-> NoJob]
  BY DEF Restart, driveVars
<1>4. \A f \in Files : pick[f] # NoBlob =>
        /\ pick[f] \in Blob /\ pick[f] \in staged /\ side[pick[f]].file = f
        /\ RowsOf(f) = {} /\ trash[f] = "none"
  BY <1>1, <1>2 DEF Requeues, Orphans, FileOf, TypeOK
<1>5. Taken(pick) \subseteq staged /\ Taken(pick) \subseteq Blob
  BY <1>4
<1>6. \A b \in Swept : row[b] = "none" /\ b \notin Taken(pick) /\ FileOf(b) \in withdrawn
  <2> SUFFICES ASSUME NEW b \in Swept
               PROVE  row[b] = "none" /\ b \notin Taken(pick) /\ FileOf(b) \in withdrawn
    OBVIOUS
  <2>1. row[b] = "none" /\ trash[FileOf(b)] # "none" /\ b \in Blob
    BY <1>1 DEF Swept, Orphans, TypeOK
  <2>2. FileOf(b) \in Files
    BY <1>1, <2>1, Shapes DEF FileOf, TypeOK
  <2>3. b \notin Taken(pick)
    BY <1>4, <2>1 DEF FileOf
  <2> QED
    BY <2>1, <2>2, <2>3 DEF Inv, TrashInv
<1>7. \A f \in Files : RowsOf(f)' = IF pick[f] = NoBlob THEN RowsOf(f) ELSE {pick[f]}
  <2> SUFFICES ASSUME NEW f \in Files
               PROVE  RowsOf(f)' = IF pick[f] = NoBlob THEN RowsOf(f) ELSE {pick[f]}
    OBVIOUS
  <2>1. RowsOf(f)' = {b \in Blob : row'[b] # "none" /\ side[b].file = f}
    BY <1>3 DEF RowsOf, FileOf
  <2>2. \A b \in Blob : row'[b] # "none" <=> b \in Taken(pick) \/ row[b] # "none"
    BY <1>2 DEF Unclaim
  <2>3. \A b \in Blob : b \in Taken(pick) /\ side[b].file = f <=> b = pick[f] /\ b # NoBlob
    BY <1>4
  <2>4. RowsOf(f)' = {b \in Blob : \/ b = pick[f] /\ b # NoBlob
                                   \/ row[b] # "none" /\ side[b].file = f}
    BY <2>1, <2>2, <2>3
  <2>5. RowsOf(f) = {b \in Blob : row[b] # "none" /\ side[b].file = f}
    BY DEF RowsOf, FileOf
  <2> QED
    BY <1>4, <2>4, <2>5
<1>8. \A f \in Files :
        /\ Serving(pick, f) # NoBlob => Serving(pick, f) \in RowsOf(f)'
        /\ \A b \in RowsOf(f)' : Serving(pick, f) = b
  <2> SUFFICES ASSUME NEW f \in Files
               PROVE  /\ Serving(pick, f) # NoBlob => Serving(pick, f) \in RowsOf(f)'
                      /\ \A b \in RowsOf(f)' : Serving(pick, f) = b
    OBVIOUS
  <2>1. CASE RowsOf(f) # {}
    <3>1. pick[f] = NoBlob
      BY <1>4, <2>1
    <3>2. Serving(pick, f) \in RowsOf(f)
      BY <1>1, <2>1, RestartChoice
    <3> HIDE DEF Serving
    <3> QED
      BY <1>7, <3>1, <3>2, OneRow
  <2>2. CASE RowsOf(f) = {}
    BY <1>7, <2>2
  <2> QED
    BY <2>1, <2>2
<1> HIDE DEF Serving, Taken
<1>9. Numbered'
  BY <1>2, <1>3, <1>5, <1>6 DEF Inv, Numbered, Unclaim
<1>10. CallerInv'
  BY <1>3 DEF Inv, CallerInv, Staging, Superseding, Publishing, Unlinking, Closed
<1>11. TrashInv'
  BY <1>3, <1>4, <1>7 DEF Inv, TrashInv, Unclaim
<1>12. PendingInv'
  <2> SUFFICES ASSUME NEW f \in Files, pending'[f] # NoBlob
               PROVE  /\ pending'[f] \in staged' /\ pending'[f] \in accepted'
                      /\ side'[pending'[f]].file = f
    BY DEF PendingInv, FileOf
  <2>1. pending'[f] \in RowsOf(f)'
    BY <1>2, <1>8
  <2>2. pending'[f] \in Blob /\ row'[pending'[f]] # "none" /\ side'[pending'[f]].file = f
    BY <2>1 DEF RowsOf, FileOf
  <2> QED
    BY <1>9, <2>2 DEF Numbered
<1>13. ReadsOwnWrites'
  BY <1>2, <1>8 DEF ReadsOwnWrites
<1>14. WorkerInv'
  BY <1>3 DEF WorkerInv, Attempt, RevisionPc, LandedPc, RetiredPc, NoJob
<1>15. HoldInv'
  <2>1. \A b \in Blob : row'[b] # "claimed"
    BY <1>2 DEF Unclaim
  <2> QED
    BY <1>3, <2>1, Ranges DEF HoldInv, ClaimExclusive, ClaimHeld, NoJob
<1>16. TrashHoldInv'
  BY <1>3 DEF TrashHoldInv, Trashing
<1>17. NothingLost'
  <2> SUFFICES ASSUME NEW b \in accepted'
               PROVE  \/ b \in staged' \/ b \in landed' \/ side'[b].file \in withdrawn'
                      \/ \E newer \in accepted' : newer > b
                                                 /\ side'[newer].file = side'[b].file
    BY DEF NothingLost, FileOf
  <2>1. CASE b \in accepted
    BY <1>2, <1>3, <1>6, <2>1 DEF Inv, NothingLost, FileOf
  <2>2. CASE b \in Taken(pick)
    BY <1>3, <1>5, <1>6, <2>2
  <2> QED
    BY <1>2, <2>1, <2>2
<1> QED
  BY <1>1, <1>9, <1>10, <1>11, <1>12, <1>13, <1>14, <1>15, <1>16, <1>17 DEF Inv

(***************************************************************************)
(* The theorems                                                            *)
(***************************************************************************)
LEMMA InitInv == Init => Inv
<1> SUFFICES ASSUME Init PROVE Inv
  OBVIOUS
<1>1. TypeOK
  BY InitType
<1>2. /\ staged = {} /\ accepted = {} /\ withdrawn = {}
      /\ \A b \in Blob : row[b] = "none"
      /\ \A f \in Files : /\ trash[f] = "none" /\ step[f] = "idle"
                          /\ pending[f] = NoBlob /\ RowsOf(f) = {}
      /\ \A w \in Workers : pc[w] = "idle" /\ job[w].blob = NoBlob
  BY DEF Init, RowsOf, NoJob
<1>3. Numbered /\ NothingLost /\ PendingInv /\ TrashInv /\ ReadsOwnWrites
  BY <1>2 DEF Numbered, NothingLost, PendingInv, TrashInv, ReadsOwnWrites
<1>4. CallerInv
  BY <1>2 DEF CallerInv, Staging, Superseding, Publishing, Unlinking
<1>5. WorkerInv /\ HoldInv /\ TrashHoldInv
  BY <1>2
  DEF WorkerInv, Attempt, RevisionPc, LandedPc, RetiredPc, HoldInv, ClaimExclusive, ClaimHeld,
      TrashHoldInv, Trashing
<1> QED
  BY <1>1, <1>3, <1>4, <1>5 DEF Inv

LEMMA StutterInv == Inv /\ UNCHANGED vars => Inv'
<1> SUFFICES ASSUME Inv, UNCHANGED vars PROVE Inv'
  OBVIOUS
<1> USE DEF vars, diskVars, memVars, callVars, drainVars, driveVars, histVars, budgetVars
<1>1. TypeOK'
  BY DEF Inv, TypeOK
<1>2. Quiet /\ UNCHANGED <<pc, seen>>
  BY DEF Quiet
<1>3. \A w \in Workers : Attempt(w)'
  BY <1>2, OtherAttempt
<1> QED
  BY <1>1, <1>2, <1>3, QuietStep

LEMMA NextInv == Inv /\ [Next]_vars => Inv'
<1> SUFFICES ASSUME Inv, [Next]_vars PROVE Inv'
  OBVIOUS
<1>1. ASSUME NEW f \in Files, Mount(f) PROVE Inv'
  BY <1>1, CallStepInv, StageInv, EnqueueInv, PublishInv, ReleaseDiscardInv,
     UnlinkReplaceInv, UnlinkForgetInv
  DEF Mount, CallStep
<1>2. ASSUME NEW w \in Workers, Drain(w) PROVE Inv'
  BY <1>2, QuietDrainInv, ClaimInv, RetireInv, LetGoInv, DiscardInv, ReleaseClaimInv,
     ClaimTrashInv, RetireTrashInv
  DEF Drain, QuietDrain
<1> QED
  BY <1>1, <1>2, ElsewhereInv, RestartInv, StutterInv DEF Next

(* The inductive invariant holds in every state the queue can reach.       *)
THEOREM Invariance == Spec => []Inv
  BY InitInv, NextInv, PTL DEF Spec

(* Every variable keeps its type, whatever the release, unlink, drain and  *)
(* restart steps do.                                                       *)
THEOREM TypeCorrect == Spec => []TypeOK
<1>1. Inv => TypeOK
  BY DEF Inv
<1> QED
  BY <1>1, Invariance, PTL

(* drain.rs:10-18: a write the queue accepted stays in staging until Drive *)
(* has it, a newer write replaces it or the user deletes the file, across  *)
(* any failures and restarts.                                              *)
THEOREM AcceptedWritesKept == Spec => []NothingLost
<1>1. Inv => NothingLost
  BY DEF Inv
<1> QED
  BY <1>1, Invariance, PTL

(* No queued op points at bytes that are gone: a row is deleted before its *)
(* blob (drain_revision, enqueue_staged_write, queue_trash).               *)
THEOREM RowsHaveBytes == Spec => []QueuedBytesStaged
<1>1. Inv => QueuedBytesStaged
  BY DEF Inv, Numbered, QueuedBytesStaged
<1> QED
  BY <1>1, Invariance, PTL

(* A read or a write open that finds a pending entry finds its bytes       *)
(* (serve_open against release_pending and discard_staged).                *)
THEOREM PendingHasBytes == Spec => []PendingReadable
<1>1. Inv => PendingReadable
  BY DEF Inv, PendingInv, PendingReadable
<1> QED
  BY <1>1, Invariance, PTL

(* While a write is queued, the file's reads come from its blob            *)
(* (release_pending lets go only of its own blob).                         *)
THEOREM OwnWritesRead == Spec => []ReadsOwnWrites
<1>1. Inv => ReadsOwnWrites
  BY DEF Inv
<1> QED
  BY <1>1, Invariance, PTL

(* No row stays claimed by nobody: whatever failed, the worker that claimed *)
(* it still holds it and gives it back (run_pending_drain).                *)
THEOREM ClaimsHeld == Spec => []ClaimHeld
<1>1. Inv => ClaimHeld
  BY DEF Inv, HoldInv
<1> QED
  BY <1>1, Invariance, PTL

(* No staged write is sent by two workers at once (claim_next_due_op and   *)
(* release_op_claim).                                                      *)
THEOREM ClaimsExclusive == Spec => []ClaimExclusive
<1>1. Inv => ClaimExclusive
  BY DEF Inv, HoldInv
<1> QED
  BY <1>1, Invariance, PTL

(***************************************************************************)
(* The refinement of WriteBack: every step of a release, an unlink, a      *)
(* drain attempt or a restart is a step of the abstract queue, or leaves   *)
(* alone what that queue speaks of.                                        *)
(***************************************************************************)
(* The file of each blob, as the abstract queue sees it.                   *)
LEMMA FileMap ==
  ASSUME TypeOK
  PROVE  /\ [b \in Blob |-> FileOf(b)] \in [Blob -> Files]
         /\ \A b \in Blob : [x \in Blob |-> FileOf(x)][b] = FileOf(b)
  BY Shapes DEF TypeOK, FileOf

LEMMA InitPromise == Init => Promise!WBInit
<1> SUFFICES ASSUME Init PROVE Promise!WBInit
  OBVIOUS
<1>1. TypeOK
  BY InitType
<1> QED
  BY <1>1, FileMap DEF Init, Promise!WBInit

(* Steps that leave staging, the accepted writes and the sidecars alone.   *)
LEMMA AsideStep ==
  ASSUME UNCHANGED <<staged, side, accepted, landed, withdrawn>>
  PROVE  UNCHANGED Promise!abstractVars
  BY DEF Promise!abstractVars, FileOf

(* What is let go of is expendable: the bytes have landed, or a newer      *)
(* write was accepted, or the file was deleted.                            *)
LEMMA ForgetPromise ==
  ASSUME Inv, Inv', UNCHANGED <<side, accepted, landed, withdrawn>>, staged' \subseteq staged,
         staged \ staged' \subseteq accepted
  PROVE  Promise!WBForget
<1>1. ASSUME NEW b \in staged \ staged'
      PROVE  Promise!Expendable(b)
  <2>1. b \in Blob /\ b \in accepted' /\ b \notin staged'
    BY <1>1 DEF Inv, TypeOK
  <2>2. \/ b \in landed
        \/ FileOf(b) \in withdrawn
        \/ \E newer \in accepted : newer > b /\ FileOf(newer) = FileOf(b)
    BY <2>1 DEF Inv, NothingLost, FileOf
  <2>3. accepted \subseteq Blob
    BY DEF Inv, TypeOK
  <2> QED
    BY <2>1, <2>2, <2>3 DEF Promise!Expendable
<1>2. staged' = staged \ (staged \ staged')
  OBVIOUS
<1>3. UNCHANGED [b \in Blob |-> FileOf(b)]
  BY DEF FileOf
<1> QED
  BY <1>1, <1>2, <1>3 DEF Promise!WBForget

(* Staging a write is WBStage, queueing it WBAccept.                       *)
LEMMA MountPromise ==
  ASSUME Inv, Inv', NEW f \in Files, Mount(f)
  PROVE  Promise!WBNext \/ UNCHANGED Promise!abstractVars
<1> USE DEF diskVars, memVars, callVars, drainVars, driveVars, histVars
<1>1. CASE CallStep(f) \/ ReleasePublish(f)
  <2>1. UNCHANGED <<staged, side, accepted, landed, withdrawn>>
    BY <1>1 DEF CallStep, OpenWrite, ReleaseBase, ReleaseCancel, ReleaseEnqueueFails,
                UnlinkCancel, ReleasePublish
  <2> QED
    BY <2>1, AsideStep
<1>2. CASE ReleaseStage(f) \/ ReleaseRefused(f)
  <2>1. PutInStaging(f) /\ UNCHANGED <<accepted, landed, withdrawn>> /\ TypeOK /\ TypeOK'
    BY <1>2 DEF ReleaseStage, ReleaseRefused, Inv
  <2>2. next \in Blob /\ next \notin staged /\ next \notin accepted
    BY <2>1, Ranges DEF PutInStaging, Inv, Numbered, TypeOK, Blob
  <2>3. PICK m \in Folded(f, NewMeta(f)) : side' = [side EXCEPT ![next] = m]
    BY <2>1 DEF PutInStaging
  <2>4. m.file = f
    BY <2>1, <2>2, FoldedSidecar
  <2>5. \A b \in Blob : side'[b].file = IF b = next THEN f ELSE side[b].file
    BY <2>1, <2>2, <2>3, <2>4 DEF TypeOK
  <2>6. [b \in Blob |-> FileOf(b)]' = [[b \in Blob |-> FileOf(b)] EXCEPT ![next] = f]
    BY <2>2, <2>5 DEF FileOf
  <2>7. staged' = staged \cup {next}
    BY <2>1 DEF PutInStaging
  <2>8. Promise!WBStage
    BY <2>1, <2>2, <2>6, <2>7 DEF Promise!WBStage
  <2> QED
    BY <2>8 DEF Promise!WBNext
<1>3. CASE ReleaseEnqueue(f)
  <2>1. draft[f].blob \in staged
    BY <1>3 DEF ReleaseEnqueue, Inv, CallerInv, Staging
  <2>2. UNCHANGED <<staged, [b \in Blob |-> FileOf(b)], landed, withdrawn>>
    BY <1>3 DEF ReleaseEnqueue, FileOf
  <2>3. Promise!WBAccept
    BY <1>3, <2>1, <2>2 DEF ReleaseEnqueue, Promise!WBAccept
  <2> QED
    BY <2>3 DEF Promise!WBNext
<1>4. CASE ReleaseDiscard(f) \/ UnlinkForget(f)
  <2>1. old[f] \subseteq accepted
    BY <1>4 DEF ReleaseDiscard, UnlinkForget, Inv, CallerInv, Superseding, Unlinking
  <2>2. UNCHANGED <<side, accepted, landed, withdrawn>> /\ staged' = staged \ old[f]
    BY <1>4 DEF ReleaseDiscard, UnlinkForget
  <2>3. Promise!WBForget
    BY <2>1, <2>2, ForgetPromise
  <2> QED
    BY <2>3 DEF Promise!WBNext
<1>5. CASE UnlinkReplace(f)
  <2>1. UNCHANGED <<staged, [b \in Blob |-> FileOf(b)], accepted, landed>>
    BY <1>5 DEF UnlinkReplace, FileOf
  <2>2. Promise!WBWithdraw
    BY <1>5, <2>1 DEF UnlinkReplace, Promise!WBWithdraw
  <2> QED
    BY <2>2 DEF Promise!WBNext
<1> QED
  BY <1>1, <1>2, <1>3, <1>4, <1>5 DEF Mount, CallStep

(* Sealing a revision or a conflict copy is WBLand, discarding WBForget.   *)
LEMMA DrainPromise ==
  ASSUME Inv, Inv', NEW w \in Workers, Drain(w)
  PROVE  Promise!WBNext \/ UNCHANGED Promise!abstractVars
<1> USE DEF diskVars, memVars, callVars, drainVars, driveVars, histVars
<1>1. CASE SendCopy(w) \/ Commit(w)
  <2>1. job[w].blob \in accepted
    BY <1>1 DEF SendCopy, Commit, Inv, WorkerInv, Attempt, RevisionPc, WorkerPc
  <2>2. UNCHANGED <<staged, side, accepted, withdrawn>>
    BY <1>1 DEF SendCopy, Commit
  <2>3. landed' = landed \cup {job[w].blob} \/ landed' = landed
    BY <1>1 DEF SendCopy, Commit
  <2>4. UNCHANGED [b \in Blob |-> FileOf(b)]
    BY <2>2 DEF FileOf
  <2>5. Promise!WBLand \/ UNCHANGED landed
    BY <2>1, <2>2, <2>3, <2>4 DEF Promise!WBLand
  <2> QED
    BY <2>2, <2>5, AsideStep DEF Promise!WBNext
<1>2. CASE Discard(w) \/ RetireTrash(w)
  <2>1. /\ UNCHANGED <<side, accepted, landed, withdrawn>>
        /\ staged' = staged \ {job[w].blob} \/ staged' = staged \ {pending[job[w].file]}
    BY <1>2 DEF Discard, RetireTrash
  <2>2. staged' = staged \ {job[w].blob} => job[w].blob \in accepted \/ staged' = staged
    <3>1. TypeOK
      BY DEF Inv
    <3>2. job[w].blob # NoBlob => job[w].blob \in accepted
      BY DEF Inv, WorkerInv, Attempt
    <3> QED
      BY <3>1, <3>2, Ranges DEF TypeOK
  <2>3. pending[job[w].file] \in accepted \/ pending[job[w].file] \notin staged
    <3>1. TypeOK /\ job[w].file \in Files
      BY Shapes DEF Inv, TypeOK
    <3> QED
      BY <3>1, Ranges DEF Inv, PendingInv, TypeOK
  <2>4. staged' \subseteq staged /\ staged \ staged' \subseteq accepted
    BY <2>1, <2>2, <2>3
  <2>5. Promise!WBForget
    BY <2>1, <2>4, ForgetPromise
  <2> QED
    BY <2>5 DEF Promise!WBNext
<1>3. CASE ~(SendCopy(w) \/ Commit(w) \/ Discard(w) \/ RetireTrash(w))
  <2>1. UNCHANGED <<staged, side, accepted, landed, withdrawn>>
    BY <1>3 DEF Drain, Claim, Check, Conflict, Abandon, FillGaps, Register, Confirm, Send,
                Answer, Retire, ReadBack, Adopt, LetGo, Place, ReleaseClaim, ClaimTrash,
                SendTrash, AttemptFails
  <2> QED
    BY <2>1, AsideStep
<1> QED
  BY <1>1, <1>2, <1>3

(* A restart is WBReconcile: what it deletes belongs to deleted files, and *)
(* what it queues was in staging.                                          *)
LEMMA RestartPromise ==
  ASSUME Inv, Inv', Restart
  PROVE  Promise!WBNext
<1>1. PICK pick \in [Files -> 0 .. MaxBlob] :
        /\ \A f \in Files : pick[f] \in Requeues(f)
        /\ accepted' = accepted \cup ({pick[f] : f \in Files} \ {NoBlob})
  BY DEF Restart
<1> DEFINE taken == {pick[f] : f \in Files} \ {NoBlob}
<1>2. /\ staged' = staged \ Swept
      /\ UNCHANGED <<side, landed, withdrawn>>
  BY DEF Restart, driveVars
<1>3. \A b \in taken : b \in staged /\ trash[FileOf(b)] = "none"
  BY <1>1 DEF Requeues, Orphans
<1>4. \A b \in Swept : b \in staged /\ trash[FileOf(b)] # "none"
  BY DEF Swept
<1>5. \A b \in Swept : FileOf(b) \in withdrawn
  <2>1. \A b \in Swept : FileOf(b) \in Files
    BY <1>4, Shapes DEF Inv, TypeOK, FileOf
  <2> QED
    BY <1>4, <2>1 DEF Inv, TrashInv
<1>6. UNCHANGED [b \in Blob |-> FileOf(b)]
  BY <1>2 DEF FileOf
<1>7. Swept \subseteq Blob
  BY <1>4 DEF Inv, TypeOK
<1> HIDE DEF taken
<1>8. taken \cap Swept = {} /\ taken \subseteq staged /\ Swept \subseteq staged
  BY <1>3, <1>4
<1>9. accepted' = accepted \cup taken
  BY <1>1 DEF taken
<1>10. \A b \in Swept : [x \in Blob |-> FileOf(x)][b] \in withdrawn
  BY <1>5, <1>7
<1>11. Promise!WBReconcile
  BY <1>2, <1>6, <1>8, <1>9, <1>10 DEF Promise!WBReconcile
<1> QED
  BY <1>11 DEF Promise!WBNext

(* The write-back queue of drain.rs, lib.rs and db/ops.rs keeps the        *)
(* promise of WriteBack: accepted bytes are let go of only when Drive has  *)
(* them, a newer write was accepted or the user deleted the file.          *)
THEOREM Implementation == Spec => KeepsPromise
<1>1. Inv /\ Inv' /\ [Next]_vars => [Promise!WBNext]_(Promise!abstractVars)
  <2> SUFFICES ASSUME Inv, Inv', [Next]_vars
               PROVE  Promise!WBNext \/ UNCHANGED Promise!abstractVars
    OBVIOUS
  <2>1. ASSUME NEW f \in Files, Elsewhere(f) PROVE UNCHANGED Promise!abstractVars
    <3>1. UNCHANGED <<staged, side, accepted, landed, withdrawn>>
      BY <2>1 DEF Elsewhere, ForeignWrite, ForeignTrash, ApplyEvent, diskVars, driveVars,
                  histVars
    <3> QED
      BY <3>1, AsideStep
  <2>2. CASE UNCHANGED vars
    <3>1. UNCHANGED <<staged, side, accepted, landed, withdrawn>>
      BY <2>2 DEF vars, diskVars, driveVars, histVars
    <3> QED
      BY <3>1, AsideStep
  <2> QED
    BY <2>1, <2>2, MountPromise, DrainPromise, RestartPromise DEF Next
<1> QED
  BY <1>1, InitPromise, Invariance, PTL DEF Spec, KeepsPromise, Promise!WBSpec

(***************************************************************************)
(* What Drive holds: which revisions are sealed here, and in what order    *)
(***************************************************************************)
(* Staging a write gives a file to no blob that is accepted already.       *)
LEMMA StagedFresh ==
  ASSUME Inv, NEW f \in Files, PutInStaging(f)
  PROVE  /\ next \in Blob /\ next' = next + 1 /\ next \notin accepted
         /\ \A b \in Blob : b # next => side'[b] = side[b]
         /\ side'[next].file = f
<1>1. TypeOK
  BY DEF Inv
<1>2. next \in Blob /\ next' = next + 1
  BY <1>1 DEF PutInStaging, TypeOK, Blob
<1>3. PICK m \in Folded(f, NewMeta(f)) : side' = [side EXCEPT ![next] = m]
  BY DEF PutInStaging
<1>4. m.file = f
  BY <1>1, <1>2, FoldedSidecar
<1>5. \A b \in accepted : b < next
  BY DEF Inv, Numbered
<1>6. next \notin accepted
  BY <1>2, <1>5, Ranges
<1> QED
  BY <1>1, <1>2, <1>3, <1>4, <1>6 DEF TypeOK

(* No step but a commit, a copy, or another device's write changes what    *)
(* Drive holds, and no step changes the file of an accepted blob.          *)
DriveStill ==
  /\ UNCHANGED <<cur, body, nrev, landed>>
  /\ accepted \subseteq accepted'
  /\ \A b \in accepted : FileOf(b)' = FileOf(b)

LEMMA MountStill ==
  ASSUME Inv, NEW f \in Files, Mount(f)
  PROVE  DriveStill
<1> USE DEF diskVars, memVars, callVars, drainVars, driveVars, histVars, budgetVars
<1>1. CASE ReleaseStage(f) \/ ReleaseRefused(f)
  <2>1. PutInStaging(f) /\ UNCHANGED <<cur, body, nrev, landed, accepted>>
    BY <1>1 DEF ReleaseStage, ReleaseRefused
  <2>2. accepted \subseteq Blob
    BY DEF Inv, TypeOK
  <2> QED
    BY <2>1, <2>2, StagedFresh DEF DriveStill, FileOf
<1>2. CASE ReleaseEnqueue(f)
  BY <1>2 DEF ReleaseEnqueue, DriveStill, FileOf
<1>3. CASE CallStep(f)
  BY <1>3 DEF CallStep, OpenWrite, ReleaseBase, ReleaseCancel, ReleaseEnqueueFails,
              UnlinkCancel, DriveStill, FileOf
<1>4. CASE ReleasePublish(f) \/ ReleaseDiscard(f) \/ UnlinkReplace(f) \/ UnlinkForget(f)
  BY <1>4 DEF ReleasePublish, ReleaseDiscard, UnlinkReplace, UnlinkForget, DriveStill, FileOf
<1> QED
  BY <1>1, <1>2, <1>3, <1>4 DEF Mount, CallStep

LEMMA RestartStill ==
  ASSUME Restart
  PROVE  DriveStill
  BY DEF Restart, DriveStill, FileOf, driveVars

(* What is landed by a commit was an accepted write of the job's file.     *)
LEMMA CommitShape ==
  ASSUME Inv, NEW w \in Workers, Commit(w), ~gone[job[w].file]
  PROVE  /\ nrev \in Rev /\ nrev + 1 \in Rev /\ nrev' = nrev + 1
         /\ job[w].file \in Files /\ job[w].blob \in accepted
         /\ FileOf(job[w].blob) = job[w].file
         /\ cur'[job[w].file] = nrev + 1
         /\ \A f \in Files : f # job[w].file => cur'[f] = cur[f]
         /\ body'[nrev + 1] = job[w].blob
         /\ \A r \in Rev : r # nrev + 1 => body'[r] = body[r]
         /\ landed' = landed \cup {job[w].blob}
         /\ UNCHANGED <<accepted, side, row>>
<1>1. TypeOK
  BY DEF Inv
<1>2. /\ nrev < MaxRev /\ nrev' = nrev + 1
      /\ cur' = [cur EXCEPT ![job[w].file] = nrev + 1]
      /\ body' = [body EXCEPT ![nrev + 1] = job[w].blob]
      /\ landed' = landed \cup {job[w].blob}
      /\ UNCHANGED <<accepted, side, row>>
  BY DEF Commit, diskVars, histVars
<1>3. nrev \in Rev /\ nrev + 1 \in Rev
  BY <1>1, <1>2, BoundAssumption DEF TypeOK, Rev
<1>4. job[w].file \in Files
  BY <1>1, Shapes DEF TypeOK
<1>5. job[w].blob \in accepted /\ FileOf(job[w].blob) = job[w].file
  BY DEF Inv, WorkerInv, Attempt, Commit, RevisionPc, WorkerPc
<1> QED
  BY <1>1, <1>2, <1>3, <1>4, <1>5 DEF TypeOK

LEMMA CommitSealed ==
  ASSUME Inv, SealedInv, NEW w \in Workers, Commit(w)
  PROVE  SealedInv'
<1>1. CASE gone[job[w].file]
  BY <1>1 DEF Commit, SealedInv, FileOf, driveVars, histVars, diskVars
<1>2. CASE ~gone[job[w].file]
  <2> DEFINE f0 == job[w].file
             b0 == job[w].blob
  <2>0. /\ nrev \in Rev /\ nrev + 1 \in Rev /\ nrev' = nrev + 1
        /\ f0 \in Files /\ b0 \in accepted /\ side[b0].file = f0
        /\ cur'[f0] = nrev + 1 /\ \A f \in Files : f # f0 => cur'[f] = cur[f]
        /\ body'[nrev + 1] = b0 /\ \A r \in Rev : r # nrev + 1 => body'[r] = body[r]
        /\ landed' = landed \cup {b0} /\ accepted' = accepted /\ side' = side
    BY <1>2, CommitShape DEF FileOf
  <2> HIDE DEF f0, b0
  <2>00. nrev \in Int /\ Rev \subseteq Int /\ cur \in [Files -> Rev]
    BY <2>0, Ranges DEF Inv, TypeOK
  <2>1. landed' \subseteq accepted'
    BY <2>0 DEF SealedInv
  <2>2. ASSUME NEW r \in Rev, r > nrev' PROVE body'[r] = NoBlob
    <3>1. r > nrev /\ r # nrev + 1
      BY <2>0, <2>00, <2>2
    <3> QED
      BY <2>0, <2>2, <3>1 DEF SealedInv
  <2>3. ASSUME NEW f \in Files
        PROVE  /\ cur'[f] <= nrev'
               /\ body'[cur'[f]] # NoBlob =>
                    body'[cur'[f]] \in landed' /\ side'[body'[cur'[f]]].file = f
    <3>1. CASE f = f0
      BY <2>0, <2>00, <3>1
    <3>2. CASE f # f0
      <4>1. cur'[f] = cur[f] /\ cur[f] <= nrev /\ cur[f] \in Rev
        BY <2>0, <2>00, <3>2 DEF SealedInv
      <4>a. cur[f] \in Int
        BY <2>00, <4>1
      <4>2. cur[f] # nrev + 1 /\ cur[f] <= nrev + 1
        BY <2>00, <4>1, <4>a
      <4>3. body'[cur'[f]] = body[cur[f]]
        BY <2>0, <4>1, <4>2
      <4> QED
        BY <2>0, <4>1, <4>2, <4>3 DEF SealedInv, FileOf
    <3> QED
      BY <3>1, <3>2
  <2> QED
    BY <2>1, <2>2, <2>3 DEF SealedInv, FileOf
<1> QED
  BY <1>1, <1>2

LEMMA DrainStill ==
  ASSUME Inv, NEW w \in Workers, Drain(w)
  PROVE  DriveStill \/ Commit(w) \/ SendCopy(w)
<1> USE DEF diskVars, memVars, callVars, drainVars, driveVars, histVars, budgetVars,
            DriveStill, FileOf
<1>1. CASE Claim(w) \/ Check(w) \/ Conflict(w) \/ Abandon(w) \/ FillGaps(w) \/ Register(w)
  BY <1>1 DEF Claim, Check, Conflict, Abandon, FillGaps, Register
<1>2. CASE Confirm(w) \/ Send(w) \/ Answer(w) \/ Retire(w) \/ ReadBack(w) \/ Adopt(w)
  BY <1>2 DEF Confirm, Send, Answer, Retire, ReadBack, Adopt
<1>3. CASE LetGo(w) \/ Place(w) \/ Discard(w) \/ ReleaseClaim(w) \/ AttemptFails(w)
  BY <1>3 DEF LetGo, Place, Discard, ReleaseClaim, AttemptFails
<1>4. CASE ClaimTrash(w) \/ SendTrash(w) \/ RetireTrash(w)
  BY <1>4 DEF ClaimTrash, SendTrash, RetireTrash
<1> QED
  BY <1>1, <1>2, <1>3, <1>4 DEF Drain

LEMMA StillSealed ==
  ASSUME SealedInv, DriveStill
  PROVE  SealedInv'
  BY DEF SealedInv, DriveStill

LEMMA SealedNext == Inv /\ SealedInv /\ [Next]_vars => SealedInv'
<1> SUFFICES ASSUME Inv, SealedInv, [Next]_vars PROVE SealedInv'
  OBVIOUS
<1>1. ASSUME NEW w \in Workers, SendCopy(w) PROVE SealedInv'
  <2>1. job[w].blob \in accepted
    BY <1>1 DEF SendCopy, Inv, WorkerInv, Attempt, RevisionPc, WorkerPc
  <2> QED
    BY <1>1, <2>1 DEF SendCopy, SealedInv, FileOf, diskVars, histVars
<1>2. ASSUME NEW f \in Files, Elsewhere(f) PROVE SealedInv'
  <2>1. CASE ForeignWrite(f)
    <3>1. TypeOK
      BY DEF Inv
    <3>2. /\ nrev' = nrev + 1 /\ cur' = [cur EXCEPT ![f] = nrev + 1] /\ nrev < MaxRev
          /\ UNCHANGED <<body, landed, accepted, side>>
      BY <2>1 DEF ForeignWrite, diskVars, histVars
    <3>3. nrev + 1 \in Rev /\ nrev \in Int
      BY <3>1, <3>2, BoundAssumption DEF TypeOK, Rev
    <3>4. body[nrev + 1] = NoBlob
      BY <3>3 DEF SealedInv
    <3>5. \A g \in Files : cur'[g] = IF g = f THEN nrev + 1 ELSE cur[g]
      BY <3>1, <3>2 DEF TypeOK
    <3>6. \A g \in Files : cur[g] \in Int
      BY <3>1, Ranges DEF TypeOK
    <3> QED
      BY <3>2, <3>3, <3>4, <3>5, <3>6, Ranges DEF SealedInv, FileOf
  <2>2. CASE ForeignTrash(f) \/ ApplyEvent(f)
    BY <2>2 DEF ForeignTrash, ApplyEvent, SealedInv, FileOf, diskVars, driveVars, histVars
  <2> QED
    BY <1>2, <2>1, <2>2 DEF Elsewhere
<1>3. CASE UNCHANGED vars
  BY <1>3 DEF vars, diskVars, driveVars, histVars, SealedInv, FileOf
<1> QED
  BY <1>1, <1>2, <1>3, MountStill, DrainStill, RestartStill, StillSealed, CommitSealed DEF Next

(***************************************************************************)
(* The order of the writes that land                                       *)
(***************************************************************************)
(* Nothing is queued, claimed or landed by such a step, though rows may go *)
(* and workers may let go of their op.                                     *)
NoNews ==
  /\ UNCHANGED <<landed, accepted, requeued>>
  /\ \A x \in Blob : row'[x] # "none" => row[x] # "none"
  /\ \A b \in accepted : FileOf(b)' = FileOf(b)
  /\ \A w \in Workers : job'[w].blob # NoBlob => /\ job'[w].blob = job[w].blob
                                                 /\ job'[w].file = job[w].file

LEMMA NoNewsRows ==
  ASSUME Inv, RowsNewest, NoNews
  PROVE  RowsNewest'
<1>1. \A x \in Blob : row[x] # "none" => x \in accepted
  BY DEF Inv, Numbered
<1>2. ASSUME NEW x \in Blob \ requeued', row'[x] # "none",
             NEW a \in accepted', FileOf(a)' = FileOf(x)'
      PROVE  a <= x
  BY <1>1, <1>2 DEF RowsNewest, NoNews
<1> QED
  BY <1>2 DEF RowsNewest

LEMMA NoNewsJobs ==
  ASSUME Inv, SealedInv, JobsNewest, NoNews
  PROVE  JobsNewest'
<1>1. landed \subseteq accepted
  BY DEF SealedInv
<1>2. ASSUME NEW w \in Workers, job'[w].blob # NoBlob, job'[w].blob \notin requeued',
             NEW b \in landed', FileOf(b)' = job'[w].file
      PROVE  b <= job'[w].blob
  BY <1>1, <1>2 DEF JobsNewest, NoNews
<1> QED
  BY <1>2 DEF JobsNewest

(* A write being queued is newer than all that its file had accepted, and  *)
(* takes the rows they had.                                                *)
LEMMA EnqueueRows ==
  ASSUME Inv, RowsNewest, NEW f \in Files, ReleaseEnqueue(f)
  PROVE  RowsNewest'
<1> DEFINE b == draft[f].blob
<1>1. TypeOK
  BY DEF Inv
<1>2. /\ UNCHANGED <<side, requeued>>
      /\ step[f] = "cancelled"
      /\ accepted' = accepted \cup {b}
      /\ row' = [x \in Blob |-> IF x = b THEN "queued"
                                 ELSE IF x \in RowsOf(f) THEN "none" ELSE row[x]]
  BY DEF ReleaseEnqueue, Superseded
<1>3. b \in Blob /\ FileOf(b) = f /\ \A a \in accepted : FileOf(a) = f => a < b
  BY <1>2, Anchored DEF Inv, CallerInv, Staging
<1>4. accepted \subseteq Int /\ Blob \subseteq Int
  BY <1>1, Ranges DEF TypeOK
<1> HIDE DEF b
<1>5. b <= b /\ \A a \in accepted : FileOf(a) = f => a <= b
  BY <1>3, <1>4
<1>6. ASSUME NEW x \in Blob \ requeued, row'[x] # "none",
             NEW a \in accepted \cup {b}, FileOf(a) = FileOf(x)
      PROVE  a <= x
  <2>1. CASE x = b
    BY <1>3, <1>5, <1>6, <2>1
  <2>2. CASE x # b
    <3>1. row[x] # "none" /\ x \notin RowsOf(f)
      BY <1>2, <1>6, <2>2
    <3>2. FileOf(x) # f
      BY <3>1 DEF RowsOf
    <3> QED
      BY <1>3, <1>6, <3>1, <3>2 DEF RowsNewest
  <2> QED
    BY <2>1, <2>2
<1> QED
  BY <1>2, <1>6 DEF RowsNewest, FileOf

(* A restart queues an orphan only for a file that has no row, and notes   *)
(* the one that is older than an accepted write.                           *)
LEMMA RestartRows ==
  ASSUME Inv, RowsNewest, Restart
  PROVE  RowsNewest'
<1>1. TypeOK
  BY DEF Inv
<1>2. PICK pick \in [Files -> 0 .. MaxBlob] :
        /\ \A f \in Files : pick[f] \in Requeues(f)
        /\ row' = [b \in Blob |-> IF b \in {pick[f] : f \in Files} \ {NoBlob} THEN "queued"
                                  ELSE Unclaim(row[b])]
        /\ accepted' = accepted \cup ({pick[f] : f \in Files} \ {NoBlob})
        /\ requeued' = requeued \cup
             {b \in {pick[f] : f \in Files} \ {NoBlob} : Outdated(b)}
  BY DEF Restart
<1> DEFINE taken == {pick[f] : f \in Files} \ {NoBlob}
<1>3. side' = side
  BY DEF Restart
<1>4. ASSUME NEW b \in taken
      PROVE  /\ b \in Blob /\ RowsOf(FileOf(b)) = {}
             /\ \A c \in taken : FileOf(c) = FileOf(b) => c = b
  <2>1. \A f \in Files : pick[f] # NoBlob =>
          pick[f] \in staged /\ FileOf(pick[f]) = f /\ RowsOf(f) = {}
    BY <1>2 DEF Requeues, Orphans
  <2>2. staged \subseteq Blob
    BY <1>1 DEF TypeOK
  <2> QED
    BY <2>1, <2>2
<1>5. /\ row' = [b \in Blob |-> IF b \in taken THEN "queued" ELSE Unclaim(row[b])]
      /\ accepted' = accepted \cup taken
      /\ requeued' = requeued \cup {b \in taken : Outdated(b)}
  BY <1>2
<1>6. accepted \subseteq Int /\ Blob \subseteq Int
  BY <1>1, Ranges DEF TypeOK
<1> HIDE DEF taken
<1>7. ASSUME NEW x \in Blob, x \notin requeued', row'[x] # "none",
             NEW a \in accepted \cup taken, FileOf(a) = FileOf(x)
      PROVE  a <= x
  <2>0. x \in Int /\ a \in Int /\ x <= x
    BY <1>4, <1>6
  <2>1. CASE x \in taken
    <3>1. ~Outdated(x)
      BY <1>5, <1>7, <2>1
    <3>2. a \in accepted => ~(a > x)
      BY <1>7, <3>1 DEF Outdated
    <3>3. a \in taken => a = x
      BY <1>4, <1>7, <2>1
    <3> QED
      BY <1>7, <2>0, <3>2, <3>3
  <2>2. CASE x \notin taken
    <3>1. row[x] # "none"
      BY <1>5, <1>7, <2>2 DEF Unclaim
    <3>2. x \in RowsOf(FileOf(x))
      BY <3>1 DEF RowsOf
    <3>3. a \notin taken
      BY <1>4, <1>7, <3>2
    <3>4. x \notin requeued
      BY <1>5, <1>7
    <3> QED
      BY <1>7, <3>1, <3>3, <3>4 DEF RowsNewest
  <2> QED
    BY <2>1, <2>2
<1> QED
  BY <1>3, <1>5, <1>7 DEF RowsNewest, FileOf

(* A worker claims a write that is the newest of its file.                 *)
LEMMA ClaimRows ==
  ASSUME Inv, RowsNewest, NEW w \in Workers, Claim(w)
  PROVE  RowsNewest'
<1>1. UNCHANGED <<side, accepted, requeued>> /\ \A x \in Blob : row'[x] # "none" => row[x] # "none"
  BY DEF Claim, Claimable, Inv, TypeOK, histVars
<1> QED
  BY <1>1 DEF RowsNewest, FileOf

LEMMA ClaimJobs ==
  ASSUME Inv, SealedInv, RowsNewest, JobsNewest, NEW w \in Workers, Claim(w)
  PROVE  JobsNewest'
<1>1. PICK b \in Blob : /\ row[b] = "queued"
                        /\ job' = [job EXCEPT ![w] = [file |-> FileOf(b), blob |-> b,
                                                      meta |-> meta[b]]]
  BY DEF Claim, Claimable
<1>2. UNCHANGED <<side, landed, requeued>>
  BY DEF Claim, driveVars, histVars
<1>3. /\ job'[w].blob = b /\ job'[w].file = FileOf(b)
      /\ \A v \in Workers \ {w} : job'[v] = job[v]
  BY <1>1 DEF Inv, TypeOK
<1>4. ASSUME NEW v \in Workers, job'[v].blob # NoBlob, job'[v].blob \notin requeued,
             NEW l \in landed, FileOf(l) = job'[v].file
      PROVE  l <= job'[v].blob
  <2>1. CASE v = w
    BY <1>1, <1>3, <1>4, <2>1 DEF RowsNewest, SealedInv
  <2>2. CASE v # w
    BY <1>3, <1>4, <2>2 DEF JobsNewest
  <2> QED
    BY <2>1, <2>2
<1> QED
  BY <1>2, <1>4 DEF JobsNewest, FileOf

(* A worker alone on its node is the only one to land a write of it.       *)
LEMMA LandJobs ==
  ASSUME Inv, OneWorkerPerNode, JobsNewest, NEW w \in Workers,
         job[w].blob # NoBlob, pc[w] # "idle", landed' = landed \cup {job[w].blob},
         UNCHANGED <<side, job, requeued>>
  PROVE  JobsNewest'
<1> DEFINE b == job[w].blob
<1>1. b \in accepted /\ FileOf(b) = job[w].file
  BY DEF Inv, WorkerInv, Attempt
<1>2. \A v \in Workers : v # w /\ job[v].blob # NoBlob => job[v].file # job[w].file
  BY DEF Inv, WorkerInv, Attempt, OneWorkerPerNode
<1>3. accepted \subseteq Int
  BY Ranges DEF Inv, TypeOK
<1> HIDE DEF b
<1>4. b <= b
  BY <1>1, <1>3
<1>5. ASSUME NEW v \in Workers, job[v].blob # NoBlob, job[v].blob \notin requeued,
             NEW l \in landed \cup {b}, FileOf(l) = job[v].file
      PROVE  l <= job[v].blob
  <2>1. CASE l \in landed
    BY <1>5, <2>1 DEF JobsNewest
  <2>2. CASE l = b
    BY <1>1, <1>2, <1>4, <1>5, <2>2 DEF b
  <2> QED
    BY <1>5, <2>1, <2>2
<1> QED
  BY <1>5 DEF JobsNewest, FileOf, b

LEMMA MountNoNews ==
  ASSUME Inv, NEW f \in Files, Mount(f)
  PROVE  NoNews \/ ReleaseEnqueue(f)
<1> USE DEF diskVars, memVars, callVars, drainVars, driveVars, histVars, budgetVars
<1>0. DriveStill
  BY MountStill
<1>1. CASE CallStep(f) \/ ReleaseStage(f) \/ ReleaseRefused(f)
  <2>1. UNCHANGED <<row, job, landed, accepted, requeued>>
    BY <1>1 DEF CallStep, OpenWrite, ReleaseBase, ReleaseCancel, ReleaseEnqueueFails,
                UnlinkCancel, ReleaseStage, ReleaseRefused
  <2> QED
    BY <1>0, <2>1 DEF DriveStill, NoNews
<1>2. CASE ReleasePublish(f) \/ ReleaseDiscard(f) \/ UnlinkForget(f)
  <2>1. UNCHANGED <<row, job, landed, accepted, requeued>>
    BY <1>2 DEF ReleasePublish, ReleaseDiscard, UnlinkForget
  <2> QED
    BY <1>0, <2>1 DEF DriveStill, NoNews
<1>3. CASE UnlinkReplace(f)
  <2>1. UNCHANGED <<job, landed, accepted, requeued>> /\ \A x \in Blob : row'[x] # "none" => row[x] # "none"
    BY <1>3 DEF UnlinkReplace
  <2> QED
    BY <1>0, <2>1 DEF DriveStill, NoNews
<1> QED
  BY <1>1, <1>2, <1>3 DEF Mount, CallStep

LEMMA DrainNoNews ==
  ASSUME Inv, NEW w \in Workers, Drain(w)
  PROVE  NoNews \/ Claim(w) \/ Commit(w) \/ SendCopy(w)
<1> USE DEF diskVars, memVars, callVars, drainVars, driveVars, histVars, budgetVars
<1>0. DriveStill \/ Commit(w) \/ SendCopy(w)
  BY DrainStill
<1>1. TypeOK
  BY DEF Inv
<1>2. CASE Check(w) \/ Conflict(w) \/ Register(w) \/ Confirm(w) \/ Send(w) \/ Answer(w)
  <2>1. UNCHANGED <<row, job, accepted, requeued>>
    BY <1>2 DEF Check, Conflict, Register, Confirm, Send, Answer, Goto
  <2> QED
    BY <1>0, <2>1 DEF DriveStill, NoNews
<1>3. CASE ReadBack(w) \/ Adopt(w) \/ LetGo(w) \/ Place(w) \/ Discard(w)
           \/ AttemptFails(w) \/ SendTrash(w) \/ RetireTrash(w)
  <2>1. UNCHANGED <<row, job, accepted, requeued>>
    BY <1>3 DEF ReadBack, Adopt, LetGo, Place, Discard, AttemptFails, SendTrash, RetireTrash,
                Goto
  <2> QED
    BY <1>0, <2>1 DEF DriveStill, NoNews
<1>4. CASE FillGaps(w)
  <2>1. UNCHANGED <<row, accepted, requeued>> /\ \A v \in Workers : job'[v].blob = job[v].blob /\ job'[v].file = job[v].file
    BY <1>1, <1>4, Shapes DEF FillGaps, TypeOK
  <2> QED
    BY <1>0, <2>1 DEF DriveStill, NoNews
<1>5. CASE Retire(w) \/ Abandon(w)
  <2>1. UNCHANGED <<job, accepted, requeued>> /\ \A x \in Blob : row'[x] # "none" => row[x] # "none"
    BY <1>1, <1>5 DEF Retire, Abandon, DeleteOp, Goto, TypeOK
  <2> QED
    BY <1>0, <2>1 DEF DriveStill, NoNews
<1>6. CASE ReleaseClaim(w)
  <2>1. UNCHANGED <<accepted, requeued>> /\ \A x \in Blob : row'[x] # "none" => row[x] # "none"
    BY <1>1, <1>6 DEF ReleaseClaim, Unclaim, TypeOK
  <2>2. \A v \in Workers : job'[v].blob # NoBlob => job'[v] = job[v]
    BY <1>1, <1>6 DEF ReleaseClaim, NoJob, TypeOK
  <2> QED
    BY <1>0, <2>1, <2>2 DEF DriveStill, NoNews
<1>7. CASE ClaimTrash(w)
  <2>1. UNCHANGED <<row, accepted, requeued>>
    BY <1>7 DEF ClaimTrash
  <2>2. \A v \in Workers : job'[v].blob # NoBlob => job'[v] = job[v]
    BY <1>1, <1>7 DEF ClaimTrash, TypeOK
  <2> QED
    BY <1>0, <2>1, <2>2 DEF DriveStill, NoNews
<1> QED
  BY <1>2, <1>3, <1>4, <1>5, <1>6, <1>7 DEF Drain

LEMMA LandRows ==
  ASSUME RowsNewest, UNCHANGED <<side, row, accepted, requeued>>
  PROVE  RowsNewest'
  BY DEF RowsNewest, FileOf

LEMMA RowsNext == Inv /\ RowsNewest /\ [Next]_vars => RowsNewest'
<1> SUFFICES ASSUME Inv, RowsNewest, [Next]_vars PROVE RowsNewest'
  OBVIOUS
<1>1. ASSUME NEW f \in Files, Mount(f) PROVE RowsNewest'
  BY <1>1, MountNoNews, NoNewsRows, EnqueueRows
<1>2. ASSUME NEW w \in Workers, Drain(w) PROVE RowsNewest'
  <2>1. CASE NoNews \/ Claim(w)
    BY <2>1, NoNewsRows, ClaimRows
  <2>2. CASE Commit(w) \/ SendCopy(w)
    BY <2>2, LandRows DEF Commit, SendCopy, diskVars, histVars
  <2> QED
    BY <1>2, <2>1, <2>2, DrainNoNews
<1>3. ASSUME NEW f \in Files, Elsewhere(f) PROVE RowsNewest'
  BY <1>3, LandRows DEF Elsewhere, ForeignWrite, ForeignTrash, ApplyEvent, diskVars, histVars
<1>4. CASE UNCHANGED vars
  BY <1>4, LandRows DEF vars, diskVars, histVars
<1> QED
  BY <1>1, <1>2, <1>3, <1>4, RestartRows DEF Next

LEMMA JobsNext ==
  Inv /\ OneWorkerPerNode /\ SealedInv /\ RowsNewest /\ JobsNewest /\ [Next]_vars => JobsNewest'
<1> SUFFICES ASSUME Inv, OneWorkerPerNode, SealedInv, RowsNewest, JobsNewest, [Next]_vars
             PROVE  JobsNewest'
  OBVIOUS
<1>1. ASSUME NEW f \in Files, Mount(f) PROVE JobsNewest'
  <2>1. CASE ReleaseEnqueue(f)
    BY <2>1 DEF ReleaseEnqueue, JobsNewest, FileOf, drainVars, driveVars
  <2> QED
    BY <1>1, <2>1, MountNoNews, NoNewsJobs
<1>2. ASSUME NEW w \in Workers, Drain(w) PROVE JobsNewest'
  <2>1. CASE NoNews \/ Claim(w)
    BY <2>1, NoNewsJobs, ClaimJobs
  <2>2. CASE Commit(w) \/ SendCopy(w)
    <3>1. job[w].blob # NoBlob /\ pc[w] # "idle"
      BY <2>2 DEF Commit, SendCopy, RevisionPc, WorkerPc, Inv, WorkerInv, Attempt
    <3>2. UNCHANGED <<side, job, requeued>>
      BY <2>2 DEF Commit, SendCopy, Goto, diskVars, histVars
    <3>3. landed' = landed \/ landed' = landed \cup {job[w].blob}
      BY <2>2 DEF Commit, SendCopy, driveVars
    <3>4. landed' = landed => JobsNewest'
      BY <3>2 DEF JobsNewest, FileOf
    <3> QED
      BY <3>1, <3>2, <3>3, <3>4, LandJobs
  <2> QED
    BY <1>2, <2>1, <2>2, DrainNoNews
<1>3. UNCHANGED <<side, landed, job, requeued>> => JobsNewest'
  BY DEF JobsNewest, FileOf
<1>4. ASSUME NEW f \in Files, Elsewhere(f) PROVE JobsNewest'
  BY <1>3, <1>4 DEF Elsewhere, ForeignWrite, ForeignTrash, ApplyEvent, diskVars, drainVars,
                    driveVars, histVars
<1>5. CASE UNCHANGED vars
  BY <1>3, <1>5 DEF vars, diskVars, drainVars, driveVars, histVars
<1>6. CASE Restart
  <2>1. \A w \in Workers : job'[w].blob = NoBlob
    BY <1>6 DEF Restart, NoJob
  <2> QED
    BY <2>1 DEF JobsNewest
<1> QED
  BY <1>1, <1>2, <1>4, <1>5, <1>6 DEF Next

LEMMA InitSealed == Init => SealedInv /\ RowsNewest /\ JobsNewest
<1> SUFFICES ASSUME Init PROVE SealedInv /\ RowsNewest /\ JobsNewest
  OBVIOUS
<1>1. /\ landed = {} /\ nrev = 0 /\ (\A f \in Files : cur[f] = 0)
      /\ (\A r \in Rev : body[r] = NoBlob) /\ 0 \in Rev
      /\ \A w \in Workers : job[w].blob = NoBlob
      /\ \A b \in Blob : row[b] = "none"
  BY Ranges DEF Init, NoJob
<1> QED
  BY <1>1 DEF SealedInv, RowsNewest, JobsNewest

(* A commit seals a write no older than the one it follows, but for the    *)
(* exceptions, and nothing else puts one of our writes in the place of     *)
(* another.                                                                *)
Forward ==
  \A f \in Files :
    LET was == body[cur[f]]
        is  == body'[cur'[f]]
    IN was # NoBlob /\ is # NoBlob =>
         is >= was \/ is \in requeued \/ row[is] = "none"

ForwardAlone ==
  \A f \in Files :
    LET was == body[cur[f]]
        is  == body'[cur'[f]]
    IN was # NoBlob /\ is # NoBlob => is >= was \/ is \in requeued

(* Every file keeps its revision, or gets one that is not ours.            *)
NoneSealed ==
  \A f \in Files : body'[cur'[f]] \in {NoBlob, body[cur[f]]}

LEMMA NoneSealedForward ==
  ASSUME TypeOK, NoneSealed
  PROVE  Forward /\ ForwardAlone
<1>1. \A f \in Files : body[cur[f]] \in Int
  BY DEF TypeOK
<1>2. \A f \in Files : body[cur[f]] >= body[cur[f]]
  BY <1>1
<1> QED
  BY <1>2 DEF NoneSealed, Forward, ForwardAlone

LEMMA CommitForward ==
  ASSUME Inv, SealedInv, NEW w \in Workers, Commit(w), ~gone[job[w].file]
  PROVE  /\ RowsNewest => Forward
         /\ JobsNewest => ForwardAlone
<1> DEFINE f0 == job[w].file
           b0 == job[w].blob
<1>1. /\ nrev \in Rev /\ f0 \in Files /\ b0 \in accepted
      /\ cur'[f0] = nrev + 1 /\ \A f \in Files : f # f0 => cur'[f] = cur[f]
      /\ body'[nrev + 1] = b0 /\ \A r \in Rev : r # nrev + 1 => body'[r] = body[r]
  BY CommitShape
<1>2. /\ nrev \in Int /\ Rev \subseteq Int /\ cur \in [Files -> Rev]
      /\ accepted \subseteq Int /\ \A r \in Rev : body[r] \in Int
  BY <1>1, Ranges DEF Inv, TypeOK
<1>3. b0 # NoBlob /\ b0 \in Blob /\ FileOf(b0) = f0
  BY DEF Commit, Inv, WorkerInv, Attempt, RevisionPc, WorkerPc, TypeOK
<1>4. RowsNewest /\ b0 \notin requeued /\ row[b0] # "none" =>
        \A l \in landed : FileOf(l) = f0 => l <= b0
  BY <1>3 DEF RowsNewest, SealedInv
<1>5. JobsNewest /\ b0 \notin requeued => \A l \in landed : FileOf(l) = f0 => l <= b0
  BY <1>3 DEF JobsNewest
<1> HIDE DEF f0, b0
<1>6. ASSUME NEW f \in Files, body[cur[f]] # NoBlob
      PROVE  body[cur[f]] \in landed /\ FileOf(body[cur[f]]) = f /\ body[cur[f]] \in Int
  BY <1>2, <1>6 DEF SealedInv
<1>7. ASSUME NEW f \in Files, f # f0, body[cur[f]] # NoBlob
      PROVE  body'[cur'[f]] >= body[cur[f]]
  <2>1. cur'[f] = cur[f] /\ cur[f] <= nrev /\ cur[f] \in Rev /\ cur[f] \in Int
    BY <1>1, <1>2, <1>7 DEF SealedInv
  <2>2. cur[f] # nrev + 1
    BY <1>2, <2>1
  <2>3. body'[cur'[f]] = body[cur[f]]
    BY <1>1, <2>1, <2>2
  <2> QED
    BY <1>6, <1>7, <2>3
<1>8. body'[cur'[f0]] = b0 /\ b0 \in Int
  BY <1>1, <1>2
<1>9. ASSUME NEW f \in Files, f = f0, body[cur[f]] # NoBlob,
             \A l \in landed : FileOf(l) = f0 => l <= b0
      PROVE  body'[cur'[f]] >= body[cur[f]]
  BY <1>6, <1>8, <1>9
<1>10. RowsNewest => Forward
  BY <1>4, <1>7, <1>8, <1>9 DEF Forward
<1>11. JobsNewest => ForwardAlone
  BY <1>5, <1>7, <1>8, <1>9 DEF ForwardAlone
<1> QED
  BY <1>10, <1>11

LEMMA ForwardNext ==
  Inv /\ SealedInv /\ [Next]_vars =>
    /\ RowsNewest => [Forward]_vars
    /\ JobsNewest => [ForwardAlone]_vars
<1> SUFFICES ASSUME Inv, SealedInv, [Next]_vars
             PROVE  (RowsNewest => Forward) /\ (JobsNewest => ForwardAlone)
  OBVIOUS
<1>1. TypeOK
  BY DEF Inv
<1>2. UNCHANGED <<cur, body>> => NoneSealed
  BY DEF NoneSealed
<1>3. ASSUME NEW w \in Workers, Drain(w)
      PROVE  NoneSealed \/ (Commit(w) /\ ~gone[job[w].file])
  <2>1. Commit(w) /\ gone[job[w].file] => UNCHANGED <<cur, body>>
    BY DEF Commit, driveVars
  <2>2. SendCopy(w) => UNCHANGED <<cur, body>>
    BY DEF SendCopy
  <2>3. DriveStill => UNCHANGED <<cur, body>>
    BY DEF DriveStill
  <2> QED
    BY <1>2, <1>3, <2>1, <2>2, <2>3, DrainStill
<1>4. ASSUME NEW f \in Files, Elsewhere(f) PROVE NoneSealed
  <2>1. CASE ForeignWrite(f)
    <3>1. /\ nrev < MaxRev /\ cur' = [cur EXCEPT ![f] = nrev + 1] /\ body' = body
      BY <2>1 DEF ForeignWrite
    <3>2. nrev + 1 \in Rev /\ nrev + 1 > nrev
      BY <1>1, <3>1, BoundAssumption DEF TypeOK, Rev
    <3>3. body[nrev + 1] = NoBlob
      BY <3>2 DEF SealedInv
    <3>4. \A g \in Files : cur'[g] = IF g = f THEN nrev + 1 ELSE cur[g]
      BY <1>1, <3>1 DEF TypeOK
    <3> QED
      BY <3>1, <3>3, <3>4 DEF NoneSealed
  <2>2. CASE ForeignTrash(f) \/ ApplyEvent(f)
    BY <1>2, <2>2 DEF ForeignTrash, ApplyEvent, driveVars
  <2> QED
    BY <1>4, <2>1, <2>2 DEF Elsewhere
<1>5. UNCHANGED vars => NoneSealed
  BY <1>2 DEF vars, driveVars
<1>6. ASSUME NEW f \in Files, Mount(f) PROVE NoneSealed
  BY <1>2, <1>6, MountStill DEF DriveStill
<1>7. Restart => NoneSealed
  BY <1>2, RestartStill DEF DriveStill
<1> QED
  BY <1>1, <1>3, <1>4, <1>5, <1>6, <1>7, NoneSealedForward, CommitForward DEF Next

(* A single worker is alone on every node.                                 *)
LEMMA AloneOnNode ==
  ASSUME \A v, w \in Workers : v = w
  PROVE  OneWorkerPerNode
  BY DEF OneWorkerPerNode

(* lib.rs:1966: whatever crashes, fails, is lost, or is written elsewhere, *)
(* and however many workers drain, older bytes follow newer ones of this   *)
(* machine only as an orphan that a restart queued behind a newer write,   *)
(* or from an upload whose row a newer write had taken.                    *)
THEOREM NewerStays == Spec => OlderNeverOverNewer
<1>1. []Inv /\ []SealedInv /\ []RowsNewest /\ [][Next]_vars => [][Forward]_vars
  BY ForwardNext, PTL
<1>2. Spec => []Inv /\ []SealedInv /\ []RowsNewest
  BY Invariance, InitSealed, SealedNext, RowsNext, PTL DEF Spec
<1>3. Forward <=> \A f \in Files :
       LET was == body[cur[f]]
           is  == body'[cur'[f]]
       IN was # NoBlob /\ is # NoBlob =>
            is >= was \/ is \in requeued \/ row[is] = "none"
  BY DEF Forward
<1>4. [][Forward]_vars => OlderNeverOverNewer
  BY <1>3, PTL DEF OlderNeverOverNewer
<1> QED
  BY <1>1, <1>2, <1>4, PTL DEF Spec

(* As long as the claims keep a node to one worker at a time               *)
(* (ARCHITECTURE.md:240), the orphan is the only exception, restarts and   *)
(* all other faults included.                                              *)
THEOREM OrphansAlone == Spec /\ []OneWorkerPerNode => OnlyOrphansGoBack
<1>1. []Inv /\ []SealedInv /\ []JobsNewest /\ [][Next]_vars => [][ForwardAlone]_vars
  BY ForwardNext, PTL
<1>2. Spec /\ []OneWorkerPerNode => []Inv /\ []SealedInv /\ []RowsNewest /\ []JobsNewest
  BY Invariance, InitSealed, SealedNext, RowsNext, JobsNext, PTL DEF Spec
<1>3. ForwardAlone <=> \A f \in Files :
       LET was == body[cur[f]]
           is  == body'[cur'[f]]
       IN was # NoBlob /\ is # NoBlob => is >= was \/ is \in requeued
  BY DEF ForwardAlone
<1>4. [][ForwardAlone]_vars => OnlyOrphansGoBack
  BY <1>3, PTL DEF OnlyOrphansGoBack
<1> QED
  BY <1>1, <1>2, <1>4, PTL DEF Spec

(***************************************************************************)
(* Baselines: with no other device writing, a file never conflicts with    *)
(* itself                                                                  *)
(***************************************************************************)
(* No sidecar, op or pending entry is made or rewritten.                   *)
MetaKept ==
  /\ UNCHANGED <<side, next>>
  /\ \A f \in Files : pending'[f] # NoBlob => pending[f] # NoBlob /\ pend'[f] = pend[f]
  /\ \A b \in Blob : row'[b] # "none" => row[b] # "none" /\ meta'[b] = meta[b]
  /\ \A w \in Workers : job'[w].blob # NoBlob =>
       job[w].blob # NoBlob /\ job'[w].file = job[w].file /\ job'[w].meta = job[w].meta

(* No handle, draft or node takes a new base.                              *)
CallKept ==
  /\ UNCHANGED <<tree, landing>>
  /\ \A f \in Files : /\ step'[f] = "based" => step[f] = "based"
                      /\ draft'[f] = draft[f] \/ (draft'[f] = NoDraft /\ step'[f] # "based")
                      /\ handle'[f] = handle[f] \/ handle'[f] = Closed
                      /\ cur'[f] = 0 => cur[f] = 0

(* One worker's steps leave the other workers and the callers alone.       *)
LEMMA MetaKeptKeeps ==
  ASSUME WholeInv, FirstInv, MetaKept, CallKept
  PROVE  WholeInv' /\ FirstInv'
<1>1. ASSUME NEW f \in Files
      PROVE  /\ step'[f] = "based" => draft'[f].complete
             /\ pending'[f] # NoBlob => pend'[f].complete
  BY DEF WholeInv, MetaKept, CallKept
<1>2. ASSUME NEW b \in Blob
      PROVE  /\ b < next' => side'[b].complete
             /\ row'[b] # "none" => meta'[b].complete
  BY DEF WholeInv, MetaKept
<1>3. ASSUME NEW w \in Workers, job'[w].blob # NoBlob
      PROVE  job'[w].meta.complete
  BY <1>3 DEF WholeInv, MetaKept
<1>4. WholeInv'
  BY <1>1, <1>2, <1>3 DEF WholeInv
<1>5. ASSUME NEW f \in Files, cur'[f] = 0
      PROVE  FirstBase(f)'
  <2>1. FirstBase(f)
    BY <1>5 DEF FirstInv, CallKept
  <2>2. tree'[f] = 0 /\ landing'[f] \in {NoRev, 0}
    BY <2>1 DEF FirstBase, CallKept
  <2>3. handle'[f].base = 0 /\ draft'[f].base = 0
    BY <2>1 DEF FirstBase, CallKept, Closed, NoDraft
  <2>4. pending'[f] # NoBlob => pend'[f].base = 0
    BY <2>1 DEF FirstBase, MetaKept
  <2>5. ASSUME NEW b \in Blob, FileOf(b)' = f
        PROVE  /\ b < next' => side'[b].base = 0
               /\ row'[b] # "none" => meta'[b].base = 0
    BY <2>1, <2>5 DEF FirstBase, MetaKept, FileOf
  <2>6. ASSUME NEW w \in Workers, job'[w].blob # NoBlob, job'[w].file = f
        PROVE  job'[w].meta.base = 0
    BY <2>1, <2>6 DEF FirstBase, MetaKept
  <2> QED
    BY <2>2, <2>3, <2>4, <2>5, <2>6 DEF FirstBase
<1> QED
  BY <1>4, <1>5 DEF FirstInv

LEMMA OpenKept ==
  ASSUME Inv, WholeInv, FirstInv, NEW f \in Files, OpenWrite(f)
  PROVE  WholeInv' /\ FirstInv'
<1>1. TypeOK
  BY DEF Inv
<1>2. /\ UNCHANGED <<side, row, meta, tree, pending, pend, landing, step, draft, next, job, cur>>
      /\ \A g \in Files \ {f} : handle'[g] = handle[g]
      /\ handle'[f].base = IF pending[f] = NoBlob /\ landing[f] # NoRev
                             THEN landing[f] ELSE tree[f]
  BY <1>1 DEF OpenWrite, TypeOK, diskVars, memVars, drainVars, driveVars
<1>3. WholeInv'
  BY <1>2 DEF WholeInv
<1>4. ASSUME NEW g \in Files, cur[g] = 0
      PROVE  handle'[g].base = 0
  BY <1>2, <1>4 DEF FirstInv, FirstBase
<1>5. FirstInv'
  BY <1>2, <1>4 DEF FirstInv, FirstBase, FileOf
<1> QED
  BY <1>3, <1>5

LEMMA BaseKept ==
  ASSUME Alone, Inv, WholeInv, FirstInv, NEW f \in Files, ReleaseBase(f)
  PROVE  WholeInv' /\ FirstInv'
<1>1. TypeOK
  BY DEF Inv
<1>2. PICK c \in IF handle[f].whole THEN {TRUE} ELSE Wholeness :
        draft' = [draft EXCEPT ![f] =
          [blob     |-> NoBlob,
           base     |-> IF pending[f] # NoBlob THEN pend[f].base ELSE handle[f].base,
           complete |-> c]]
  BY DEF ReleaseBase
<1>3. c = TRUE
  BY DEF Alone
<1>4. /\ UNCHANGED <<side, row, meta, tree, pending, pend, landing, next, job, cur>>
      /\ \A g \in Files \ {f} : handle'[g] = handle[g] /\ draft'[g] = draft[g] /\ step'[g] = step[g]
      /\ handle'[f].base = 0 /\ draft'[f].complete
      /\ draft'[f].base = IF pending[f] # NoBlob THEN pend[f].base ELSE handle[f].base
  BY <1>1, <1>2, <1>3
  DEF ReleaseBase, Closed, TypeOK, diskVars, memVars, drainVars, driveVars
<1>5. WholeInv'
  BY <1>4 DEF WholeInv
<1>6. ASSUME NEW g \in Files, cur[g] = 0
      PROVE  handle'[g].base = 0 /\ draft'[g].base = 0
  BY <1>4, <1>6 DEF FirstInv, FirstBase
<1>7. FirstInv'
  BY <1>4, <1>6 DEF FirstInv, FirstBase, FileOf
<1> QED
  BY <1>5, <1>7

(* A whole write is not folded, and takes the base its release noted.      *)
LEMMA StageKept ==
  ASSUME Inv, WholeInv, FirstInv, NEW f \in Files, ReleaseStage(f) \/ ReleaseRefused(f)
  PROVE  WholeInv' /\ FirstInv'
<1>1. TypeOK
  BY DEF Inv
<1>2. PutInStaging(f)
  BY DEF ReleaseStage, ReleaseRefused
<1>3. /\ next \in Blob /\ next' = next + 1 /\ next \notin accepted
      /\ \A b \in Blob : b # next => side'[b] = side[b]
      /\ side'[next].file = f
  BY <1>2, StagedFresh
<1>4. step[f] = "based" /\ draft[f].complete
  BY <1>2 DEF PutInStaging, WholeInv
<1>5. Folded(f, NewMeta(f)) = {NewMeta(f)}
  BY <1>4 DEF Folded, NewMeta
<1>6. side' = [side EXCEPT ![next] = NewMeta(f)]
  BY <1>2, <1>5 DEF PutInStaging
<1>7. side'[next].complete /\ side'[next].base = draft[f].base
  BY <1>1, <1>3, <1>4, <1>6 DEF TypeOK, NewMeta
<1>8. /\ UNCHANGED <<row, meta, tree, pending, pend, landing, handle, job, cur>>
      /\ \A g \in Files \ {f} : draft'[g] = draft[g] /\ step'[g] = step[g]
      /\ step'[f] # "based" /\ draft'[f].base \in {0, draft[f].base}
  BY <1>1 DEF ReleaseStage, ReleaseRefused, EndCall, NoDraft, TypeOK, memVars, drainVars,
              driveVars
<1>9. row[next] = "none"
  BY <1>3 DEF Inv, Numbered
<1>10. \A b \in Blob : b < next' /\ b # next => b < next
  BY <1>3, Ranges
<1>11. ASSUME NEW b \in Blob
       PROVE  /\ b < next' => side'[b].complete
              /\ row'[b] # "none" => meta'[b].complete
  BY <1>3, <1>7, <1>8, <1>9, <1>10 DEF WholeInv
<1>12. WholeInv'
  BY <1>8, <1>11 DEF WholeInv
<1>13. ASSUME NEW g \in Files, cur[g] = 0
       PROVE  FirstBase(g)'
  <2>1. FirstBase(g)
    BY <1>13 DEF FirstInv
  <2>2. draft'[g].base = 0
    BY <1>8, <2>1 DEF FirstBase
  <2>3. ASSUME NEW b \in Blob, side'[b].file = g
        PROVE  /\ b < next' => side'[b].base = 0
               /\ row'[b] # "none" => meta'[b].base = 0
    <3>1. CASE b = next
      BY <1>3, <1>7, <1>8, <1>9, <2>1, <2>3, <3>1 DEF FirstBase
    <3>2. CASE b # next
      BY <1>3, <1>8, <1>10, <2>1, <2>3, <3>2 DEF FirstBase, FileOf
    <3> QED
      BY <3>1, <3>2
  <2> QED
    BY <1>8, <2>1, <2>2, <2>3 DEF FirstBase, FileOf
<1> QED
  BY <1>8, <1>12, <1>13 DEF FirstInv

LEMMA EnqueueKept ==
  ASSUME Inv, WholeInv, FirstInv, NEW f \in Files, ReleaseEnqueue(f)
  PROVE  WholeInv' /\ FirstInv'
<1> DEFINE b == draft[f].blob
<1>1. TypeOK
  BY DEF Inv
<1>2. /\ UNCHANGED <<side, tree, pending, pend, landing, handle, draft, next, job, cur>>
      /\ step' = [step EXCEPT ![f] = "queued"]
      /\ meta' = [meta EXCEPT ![b] = side[b]]
      /\ row' = [x \in Blob |-> IF x = b THEN "queued"
                                 ELSE IF x \in RowsOf(f) THEN "none" ELSE row[x]]
      /\ step[f] = "cancelled"
  BY DEF ReleaseEnqueue, Superseded, memVars, drainVars, driveVars
<1>3. b \in Blob /\ b < next
  BY <1>2, Anchored DEF Inv, CallerInv, Staging, Numbered
<1> HIDE DEF b
<1>4. /\ meta'[b] = side[b]
      /\ \A x \in Blob : x # b => meta'[x] = meta[x] /\ (row'[x] # "none" => row[x] # "none")
      /\ \A g \in Files : step'[g] = "based" => step[g] = "based"
  BY <1>1, <1>2, <1>3 DEF TypeOK
<1>5. ASSUME NEW x \in Blob, row'[x] # "none"
      PROVE  meta'[x].complete
  BY <1>3, <1>4, <1>5 DEF WholeInv
<1>6. WholeInv'
  BY <1>2, <1>4, <1>5 DEF WholeInv
<1>7. ASSUME NEW g \in Files, cur[g] = 0, NEW x \in Blob, FileOf(x) = g, row'[x] # "none"
      PROVE  meta'[x].base = 0
  BY <1>3, <1>4, <1>7 DEF FirstInv, FirstBase
<1>8. FirstInv'
  BY <1>2, <1>7 DEF FirstInv, FirstBase, FileOf
<1> QED
  BY <1>6, <1>8

LEMMA PublishKept ==
  ASSUME Inv, WholeInv, FirstInv, NEW f \in Files, ReleasePublish(f)
  PROVE  WholeInv' /\ FirstInv'
<1> DEFINE b == draft[f].blob
<1>1. TypeOK
  BY DEF Inv
<1>2. /\ UNCHANGED <<side, row, meta, tree, landing, handle, draft, next, job, cur>>
      /\ step' = [step EXCEPT ![f] = "published"]
      /\ pending' = [pending EXCEPT ![f] = b]
      /\ pend' = [pend EXCEPT ![f] = side[b]]
      /\ step[f] = "queued"
  BY DEF ReleasePublish, diskVars, drainVars, driveVars
<1>3. b \in Blob /\ b < next /\ FileOf(b) = f
  BY <1>2, Anchored DEF Inv, CallerInv, Superseding, Numbered
<1> HIDE DEF b
<1>4. /\ pend'[f] = side[b]
      /\ \A g \in Files \ {f} : pend'[g] = pend[g] /\ pending'[g] = pending[g]
      /\ \A g \in Files : step'[g] = "based" => step[g] = "based"
  BY <1>1, <1>2 DEF TypeOK
<1>5. ASSUME NEW g \in Files, pending'[g] # NoBlob
      PROVE  pend'[g].complete
  BY <1>3, <1>4, <1>5 DEF WholeInv
<1>6. WholeInv'
  BY <1>2, <1>4, <1>5 DEF WholeInv
<1>7. ASSUME NEW g \in Files, cur[g] = 0, pending'[g] # NoBlob
      PROVE  pend'[g].base = 0
  BY <1>3, <1>4, <1>7 DEF FirstInv, FirstBase
<1>8. FirstInv'
  BY <1>2, <1>7 DEF FirstInv, FirstBase, FileOf
<1> QED
  BY <1>6, <1>8

LEMMA ClaimKept ==
  ASSUME Inv, WholeInv, FirstInv, NEW w \in Workers, Claim(w)
  PROVE  WholeInv' /\ FirstInv'
<1>1. TypeOK
  BY DEF Inv
<1>2. PICK b \in Blob : /\ row[b] = "queued"
                        /\ row' = [row EXCEPT ![b] = "claimed"]
                        /\ job' = [job EXCEPT ![w] = [file |-> FileOf(b), blob |-> b,
                                                      meta |-> meta[b]]]
  BY DEF Claim, Claimable
<1>3. UNCHANGED <<side, meta, tree, pending, pend, landing, handle, step, draft, next, cur>>
  BY DEF Claim, memVars, callVars, driveVars
<1>4. /\ \A x \in Blob : row'[x] # "none" => row[x] # "none"
      /\ job'[w].blob = b /\ job'[w].file = FileOf(b) /\ job'[w].meta = meta[b]
      /\ \A v \in Workers \ {w} : job'[v] = job[v]
  BY <1>1, <1>2 DEF TypeOK
<1>5. ASSUME NEW v \in Workers, job'[v].blob # NoBlob
      PROVE  job'[v].meta.complete
  BY <1>2, <1>4, <1>5 DEF WholeInv
<1>6. WholeInv'
  BY <1>3, <1>4, <1>5 DEF WholeInv
<1>7. ASSUME NEW g \in Files, cur[g] = 0, NEW v \in Workers, job'[v].blob # NoBlob,
             job'[v].file = g
      PROVE  job'[v].meta.base = 0
  BY <1>2, <1>4, <1>7 DEF FirstInv, FirstBase
<1>8. FirstInv'
  BY <1>3, <1>4, <1>7 DEF FirstInv, FirstBase, FileOf
<1> QED
  BY <1>6, <1>8

(* What was read back is no first revision, so its file has none now.      *)
LEMMA AdoptKept ==
  ASSUME Inv, WholeInv, FirstInv, RecordInv, NEW w \in Workers, Adopt(w)
  PROVE  WholeInv' /\ FirstInv'
<1>1. TypeOK
  BY DEF Inv
<1>2. /\ UNCHANGED <<side, row, meta, tree, pending, pend, step, draft, next, job, cur>>
      /\ \A g \in Files : g # job[w].file => landing'[g] = landing[g] /\ handle'[g] = handle[g]
      /\ pc[w] = "adopt"
  BY <1>1 DEF Adopt, Goto, TypeOK, driveVars
<1>3. cur[job[w].file] # 0
  BY <1>2 DEF RecordInv, LandedPc
<1>4. WholeInv'
  BY <1>2 DEF WholeInv
<1>5. FirstInv'
  BY <1>2, <1>3 DEF FirstInv, FirstBase, FileOf
<1> QED
  BY <1>4, <1>5

LEMMA PlaceKept ==
  ASSUME Inv, WholeInv, FirstInv, RecordInv, NEW w \in Workers, Place(w)
  PROVE  WholeInv' /\ FirstInv'
<1> DEFINE f == job[w].file
           rebased == [of |-> pend[f].of, file |-> pend[f].file, base |-> seen[w],
                       complete |-> pend[f].complete]
<1>1. TypeOK
  BY DEF Inv
<1>2. /\ UNCHANGED <<side, row, pending, handle, step, draft, next, job, cur>>
      /\ landing' = [landing EXCEPT ![f] = NoRev]
      /\ pc[w] = "place"
      /\ \/ /\ pending[f] # NoBlob
            /\ pend' = [pend EXCEPT ![f] = rebased]
            /\ meta' = [b \in Blob |-> IF b \in RowsOf(f) THEN rebased ELSE meta[b]]
            /\ tree' = tree
         \/ tree' = [tree EXCEPT ![f] = seen[w]] /\ UNCHANGED <<pend, meta>>
  BY DEF Place, Goto, callVars, driveVars
<1>3. rebased.complete = pend[f].complete
  OBVIOUS
<1> HIDE DEF rebased
<1>4. cur[f] # 0 /\ f \in Files
  BY <1>1, <1>2, Shapes DEF RecordInv, LandedPc, TypeOK
<1> HIDE DEF f
<1>5. ASSUME NEW g \in Files, pending[g] # NoBlob
      PROVE  pend'[g].complete
  BY <1>1, <1>2, <1>3, <1>5 DEF TypeOK, WholeInv
<1>6. ASSUME NEW b \in Blob, row[b] # "none"
      PROVE  meta'[b].complete
  <2>1. CASE b \in RowsOf(f) /\ pending[f] # NoBlob
    <3>1. pend[f].complete
      BY <1>4, <2>1 DEF WholeInv
    <3> QED
      BY <1>2, <1>3, <1>6, <2>1, <3>1 DEF WholeInv
  <2>2. CASE ~(b \in RowsOf(f) /\ pending[f] # NoBlob)
    BY <1>2, <1>6, <2>2 DEF WholeInv
  <2> QED
    BY <2>1, <2>2
<1>7. WholeInv'
  BY <1>2, <1>5, <1>6 DEF WholeInv
<1>8. ASSUME NEW g \in Files, cur[g] = 0
      PROVE  FirstBase(g)'
  <2>1. FirstBase(g) /\ g # f
    BY <1>4, <1>8 DEF FirstInv
  <2>2. tree'[g] = tree[g] /\ landing'[g] = landing[g] /\ pend'[g] = pend[g]
    BY <1>1, <1>2, <2>1 DEF TypeOK
  <2>3. \A b \in Blob : FileOf(b) = g => meta'[b] = meta[b]
    BY <1>2, <2>1 DEF RowsOf
  <2> QED
    BY <1>2, <2>1, <2>2, <2>3 DEF FirstBase, FileOf
<1>9. FirstInv'
  BY <1>2, <1>8 DEF FirstInv
<1> QED
  BY <1>7, <1>9

LEMMA EventKept ==
  ASSUME Inv, WholeInv, FirstInv, NEW f \in Files, ApplyEvent(f)
  PROVE  WholeInv' /\ FirstInv'
<1>1. TypeOK
  BY DEF Inv
<1>2. /\ UNCHANGED <<side, row, meta, pending, pend, landing, handle, step, draft, next, job, cur>>
      /\ \A g \in Files : tree'[g] \in {tree[g], cur[g]}
  BY <1>1 DEF ApplyEvent, TypeOK, memVars, callVars, drainVars, driveVars
<1>3. WholeInv'
  BY <1>2 DEF WholeInv
<1>4. FirstInv'
  BY <1>2 DEF FirstInv, FirstBase, FileOf
<1> QED
  BY <1>3, <1>4

(* The other steps of a release or an unlink only let go of things.        *)
LEMMA MountKept ==
  ASSUME Alone, Inv, WholeInv, FirstInv, NEW f \in Files, Mount(f)
  PROVE  WholeInv' /\ FirstInv'
<1>1. TypeOK
  BY DEF Inv
<1> USE DEF diskVars, memVars, drainVars, driveVars
<1>2. ASSUME ReleaseCancel(f) \/ UnlinkCancel(f)
      PROVE  MetaKept /\ CallKept
  BY <1>1, <1>2 DEF MetaKept, CallKept, ReleaseCancel, UnlinkCancel, TypeOK
<1>3. ASSUME ReleaseEnqueueFails(f) \/ ReleaseDiscard(f)
      PROVE  MetaKept /\ CallKept
  <2>1. /\ UNCHANGED <<side, next, pending, pend, row, meta, job, tree, landing, handle, cur>>
        /\ EndCall(f)
    BY <1>3 DEF ReleaseEnqueueFails, ReleaseDiscard
  <2> QED
    BY <1>1, <2>1 DEF MetaKept, CallKept, EndCall, TypeOK
<1>4. ASSUME UnlinkForget(f)
      PROVE  MetaKept /\ CallKept
  <2>1. /\ UNCHANGED <<side, next, pend, row, meta, job, tree, landing, handle, cur>>
        /\ EndCall(f)
        /\ pending' = [pending EXCEPT ![f] = NoBlob]
    BY <1>4 DEF UnlinkForget
  <2> QED
    BY <1>1, <2>1 DEF MetaKept, CallKept, EndCall, TypeOK
<1>5. ASSUME UnlinkReplace(f)
      PROVE  MetaKept /\ CallKept
  BY <1>1, <1>5 DEF MetaKept, CallKept, UnlinkReplace, TypeOK
<1> QED
  BY <1>2, <1>3, <1>4, <1>5, MetaKeptKeeps, OpenKept, BaseKept, StageKept, EnqueueKept,
     PublishKept
  DEF Mount

(* So do the other steps of a drain attempt.                               *)
LEMMA DrainKept ==
  ASSUME Inv, WholeInv, FirstInv, RecordInv, NEW w \in Workers, Drain(w)
  PROVE  WholeInv' /\ FirstInv'
<1>1. TypeOK
  BY DEF Inv
<1> USE DEF diskVars, memVars, callVars, driveVars
<1>2. ASSUME Check(w) \/ Conflict(w) \/ Register(w) \/ Confirm(w) \/ Send(w) \/ Answer(w)
           \/ AttemptFails(w) \/ SendTrash(w) \/ Discard(w)
      PROVE  MetaKept /\ CallKept
  BY <1>2
  DEF MetaKept, CallKept, Check, Conflict, Register, Confirm, Send, Answer, AttemptFails,
      SendTrash, Discard, Goto
<1>3. ~(FillGaps(w) \/ SendCopy(w) \/ Abandon(w))
  BY DEF RecordInv, FillGaps, SendCopy, Abandon
<1>4. ASSUME Commit(w)
      PROVE  MetaKept /\ CallKept
  <2>1. UNCHANGED <<side, next, pending, pend, row, meta, job, tree, landing, handle, step, draft>>
    BY <1>4 DEF Commit, Goto
  <2>2. \A f \in Files : cur'[f] = 0 => cur[f] = 0
    <3>1. CASE gone[job[w].file]
      BY <1>4, <3>1 DEF Commit
    <3>2. CASE ~gone[job[w].file]
      <4>1. nrev \in Rev /\ cur'[job[w].file] = nrev + 1
            /\ \A f \in Files : f # job[w].file => cur'[f] = cur[f]
        BY <1>4, <3>2, CommitShape
      <4>2. nrev + 1 # 0
        BY <4>1 DEF Rev
      <4> QED
        BY <4>1, <4>2
    <3> QED
      BY <3>1, <3>2
  <2> QED
    BY <2>1, <2>2 DEF MetaKept, CallKept
<1>5. ASSUME Retire(w)
      PROVE  MetaKept /\ CallKept
  BY <1>1, <1>5 DEF MetaKept, CallKept, Retire, DeleteOp, Goto, TypeOK
<1>6. ASSUME ReadBack(w)
      PROVE  MetaKept /\ CallKept
  BY <1>6 DEF MetaKept, CallKept, ReadBack, Goto
<1>7. ASSUME LetGo(w)
      PROVE  MetaKept /\ CallKept
  BY <1>1, <1>7 DEF MetaKept, CallKept, LetGo, ReleasePending, Goto, TypeOK
<1>8. ASSUME ReleaseClaim(w)
      PROVE  MetaKept /\ CallKept
  BY <1>1, <1>8 DEF MetaKept, CallKept, ReleaseClaim, Unclaim, NoJob, TypeOK
<1>9. ASSUME ClaimTrash(w)
      PROVE  MetaKept /\ CallKept
  BY <1>1, <1>9 DEF MetaKept, CallKept, ClaimTrash, TypeOK
<1>10. ASSUME RetireTrash(w)
      PROVE  MetaKept /\ CallKept
  BY <1>1, <1>10 DEF MetaKept, CallKept, RetireTrash, Goto, TypeOK
<1> QED
  BY <1>2, <1>3, <1>4, <1>5, <1>6, <1>7, <1>8, <1>9, <1>10, MetaKeptKeeps, ClaimKept, AdoptKept,
     PlaceKept
  DEF Drain

(* No other device writes, and the daemon is not restarted.                *)
LEMMA AloneHere ==
  ASSUME Alone, TypeOK
  PROVE  ~Restart /\ \A f \in Files : ~ForeignWrite(f) /\ ~ForeignTrash(f)
  BY DEF Alone, TypeOK, Restart, ForeignWrite, ForeignTrash

LEMMA KeptNext ==
  ASSUME Alone
  PROVE  Inv /\ WholeInv /\ FirstInv /\ RecordInv /\ [Next]_vars => WholeInv' /\ FirstInv'
<1> SUFFICES ASSUME Inv, WholeInv, FirstInv, RecordInv, [Next]_vars PROVE WholeInv' /\ FirstInv'
  OBVIOUS
<1>1. CASE UNCHANGED vars
  <2>1. MetaKept /\ CallKept
    BY <1>1 DEF vars, diskVars, memVars, callVars, drainVars, driveVars, MetaKept, CallKept
  <2> QED
    BY <2>1, MetaKeptKeeps
<1>2. TypeOK
  BY DEF Inv
<1> QED
  BY <1>1, <1>2, AloneHere, MountKept, DrainKept, EventKept DEF Next, Elsewhere

(***************************************************************************)
(* Nothing is gone that was not deleted here                               *)
(***************************************************************************)
GoneKept ==
  /\ \A f \in Files : /\ gone'[f] = gone[f]
                      /\ f \in withdrawn' <=> f \in withdrawn
                      /\ RowsOf(f)' \subseteq RowsOf(f)
  /\ \A w \in Workers : pc'[w] \in {"trashed", "conflict"} =>
       pc'[w] = pc[w] /\ job'[w].file = job[w].file

LEMMA GoneKeptKeeps ==
  ASSUME TypeOK, GoneInv, GoneKept
  PROVE  GoneInv'
<1>1. ASSUME NEW f \in Files
      PROVE  (gone'[f] => f \in withdrawn') /\ (f \in withdrawn' => RowsOf(f)' = {})
  BY DEF GoneInv, GoneKept
<1>2. ASSUME NEW w \in Workers, pc'[w] \in {"trashed", "conflict"}
      PROVE  gone'[job'[w].file]
  <2>1. gone[job[w].file] /\ job'[w].file = job[w].file
    BY <1>2 DEF GoneInv, GoneKept
  <2>2. job[w].file \in Files
    BY Shapes DEF TypeOK
  <2> QED
    BY <2>1, <2>2 DEF GoneKept
<1> QED
  BY <1>1, <1>2 DEF GoneInv

LEMMA MountGone ==
  ASSUME Inv, GoneInv, NEW f \in Files, Mount(f)
  PROVE  GoneInv'
<1>1. TypeOK
  BY DEF Inv
<1> USE DEF diskVars, memVars, callVars, drainVars, driveVars, histVars
<1>2. CASE ReleaseStage(f) \/ ReleaseRefused(f)
  <2>1. PutInStaging(f) /\ UNCHANGED <<row, pc, job, gone, withdrawn>>
    BY <1>2 DEF ReleaseStage, ReleaseRefused
  <2>2. row[next] = "none" /\ \A b \in Blob : b # next => side'[b] = side[b]
    BY <2>1, StagedFresh DEF Inv, Numbered
  <2>3. \A g \in Files : RowsOf(g)' \subseteq RowsOf(g)
    BY <2>1, <2>2 DEF RowsOf, FileOf
  <2> QED
    BY <1>1, <2>1, <2>3, GoneKeptKeeps DEF GoneKept
<1>3. CASE CallStep(f) \/ ReleasePublish(f) \/ ReleaseDiscard(f) \/ UnlinkForget(f)
  <2>1. UNCHANGED <<row, side, pc, job, gone, withdrawn>>
    BY <1>3 DEF CallStep, OpenWrite, ReleaseBase, ReleaseCancel, ReleaseEnqueueFails,
                UnlinkCancel, ReleasePublish, ReleaseDiscard, UnlinkForget
  <2> QED
    BY <1>1, <2>1, RowsFrame, GoneKeptKeeps DEF GoneKept
<1>4. CASE ReleaseEnqueue(f)
  <2>1. /\ UNCHANGED <<side, pc, job, gone, withdrawn>>
        /\ row' = [x \in Blob |-> IF x = draft[f].blob THEN "queued"
                                  ELSE IF x \in RowsOf(f) THEN "none" ELSE row[x]]
        /\ f \notin withdrawn /\ FileOf(draft[f].blob) = f
    BY <1>4 DEF ReleaseEnqueue, Superseded, Inv, CallerInv, Staging
  <2>2. \A g \in Files : g # f => RowsOf(g)' \subseteq RowsOf(g)
    BY <2>1 DEF RowsOf, FileOf
  <2> QED
    BY <2>1, <2>2 DEF GoneInv
<1>5. CASE UnlinkReplace(f)
  <2>1. /\ UNCHANGED <<side, pc, job, gone>>
        /\ withdrawn' = withdrawn \cup {f}
        /\ row' = [b \in Blob |-> IF b \in RowsOf(f) THEN "none" ELSE row[b]]
    BY <1>5 DEF UnlinkReplace
  <2>2. RowsOf(f)' = {} /\ \A g \in Files : RowsOf(g)' \subseteq RowsOf(g)
    BY <2>1 DEF RowsOf, FileOf
  <2> QED
    BY <2>1, <2>2 DEF GoneInv
<1> QED
  BY <1>2, <1>3, <1>4, <1>5 DEF Mount, CallStep

(* revision_conflict finds a conflict only on a node that is gone: a worker *)
(* alone on its node knows the active revision, or it is the first one.    *)
LEMMA ConflictIsGone ==
  ASSUME Inv, OneWorkerPerNode, AloneInv, NEW w \in Workers, pc[w] = "check",
         ~Applies(job[w].file, job[w].blob, job[w].meta)
  PROVE  gone[job[w].file]
<1>1. job[w].file \in Files /\ job[w].blob # NoBlob
  BY Shapes DEF Inv, TypeOK, WorkerInv, Attempt, RevisionPc, WorkerPc
<1>2. \A v \in Workers : Unrecorded(v) => job[v].file # job[w].file
  BY DEF OneWorkerPerNode, Unrecorded
<1>3. gone[job[w].file] \/ Recorded(job[w].file)
  BY <1>1, <1>2 DEF AloneInv, RecordInv
<1>4. job[w].meta.complete
  BY <1>1 DEF AloneInv, WholeInv
<1>5. cur[job[w].file] = 0 => job[w].meta.base = 0
  BY <1>1 DEF AloneInv, FirstInv, FirstBase
<1> QED
  BY <1>3, <1>4, <1>5 DEF Applies, Recorded

LEMMA DrainGone ==
  ASSUME Inv, OneWorkerPerNode, AloneInv, NEW w \in Workers, Drain(w)
  PROVE  GoneInv'
<1>1. TypeOK /\ GoneInv
  BY DEF Inv, AloneInv
<1> USE DEF diskVars, memVars, callVars, driveVars, histVars
<1>2. CASE Check(w)
  <2>1. /\ UNCHANGED <<row, side, job, gone, withdrawn>>
        /\ \A v \in Workers \ {w} : pc'[v] = pc[v]
        /\ pc[w] = "check"
        /\ (pc'[w] = "conflict" => ~Applies(job[w].file, job[w].blob, job[w].meta))
        /\ pc'[w] # "trashed"
    BY <1>1, <1>2 DEF Check, Goto, TypeOK
  <2>2. pc'[w] = "conflict" => gone[job[w].file]
    <3> SUFFICES ASSUME pc'[w] = "conflict" PROVE gone[job[w].file]
      OBVIOUS
    <3> QED
      BY <2>1, ConflictIsGone
  <2>3. \A f \in Files : RowsOf(f)' = RowsOf(f)
    BY <2>1, RowsFrame
  <2>4. \A v \in Workers : pc'[v] \in {"trashed", "conflict"} => gone[job[v].file]
    BY <1>1, <2>1, <2>2 DEF GoneInv
  <2> QED
    BY <1>1, <2>1, <2>3, <2>4 DEF GoneInv
<1>3. CASE SendTrash(w)
  <2>1. /\ UNCHANGED <<row, side, job, withdrawn>>
        /\ gone' = [gone EXCEPT ![job[w].file] = TRUE]
        /\ pc' = [pc EXCEPT ![w] = "trashed"]
        /\ pc[w] = "trash"
    BY <1>3 DEF SendTrash, Goto
  <2>2. Trashing(w)
    BY <2>1 DEF Trashing, Inv, WorkerInv, Attempt
  <2>3. job[w].file \in withdrawn /\ \A v \in Workers : job[v].file \in Files
    BY <1>1, <2>2, Shapes DEF Inv, TrashHoldInv, TypeOK
  <2>4. /\ \A f \in Files : gone'[f] <=> gone[f] \/ f = job[w].file
        /\ \A v \in Workers \ {w} : pc'[v] = pc[v]
    BY <1>1, <2>1, <2>3 DEF TypeOK
  <2>5. \A f \in Files : RowsOf(f)' = RowsOf(f)
    BY <2>1, RowsFrame
  <2> QED
    BY <1>1, <2>1, <2>3, <2>4, <2>5 DEF GoneInv
<1>4. CASE Conflict(w) \/ Register(w) \/ Confirm(w) \/ Send(w) \/ Answer(w)
  <2>1. /\ UNCHANGED <<row, side, job, gone, withdrawn>>
        /\ \A v \in Workers : pc'[v] \in {"trashed", "conflict"} => pc'[v] = pc[v]
    BY <1>1, <1>4 DEF Conflict, Register, Confirm, Send, Answer, Goto, TypeOK
  <2> QED
    BY <1>1, <2>1, RowsFrame, GoneKeptKeeps DEF GoneKept
<1>5. CASE AttemptFails(w) \/ Discard(w) \/ Commit(w) \/ ReadBack(w) \/ Adopt(w) \/ Place(w)
           \/ RetireTrash(w)
  <2>1. UNCHANGED <<row, side, job, gone, withdrawn>>
    BY <1>5 DEF AttemptFails, Discard, Commit, ReadBack, Adopt, Place, RetireTrash, Goto
  <2>2. \A v \in Workers : pc'[v] \in {"trashed", "conflict"} => pc'[v] = pc[v]
    BY <1>1, <1>5 DEF AttemptFails, Discard, Commit, ReadBack, Adopt, Place, RetireTrash, Goto,
                      TypeOK
  <2> QED
    BY <1>1, <2>1, <2>2, RowsFrame, GoneKeptKeeps DEF GoneKept
<1>6. CASE LetGo(w)
  <2>1. UNCHANGED <<row, side, job, gone, withdrawn>>
    BY <1>6 DEF LetGo, Goto
  <2>2. \A v \in Workers : pc'[v] \in {"trashed", "conflict"} => pc'[v] = pc[v]
    BY <1>1, <1>6 DEF LetGo, AfterLetGo, Goto, TypeOK
  <2> QED
    BY <1>1, <2>1, <2>2, RowsFrame, GoneKeptKeeps DEF GoneKept
<1>7. CASE Claim(w) \/ ReleaseClaim(w) \/ ClaimTrash(w) \/ Retire(w)
  <2>1. /\ UNCHANGED <<side, gone, withdrawn>>
        /\ \A v \in Workers \ {w} : pc'[v] = pc[v] /\ job'[v] = job[v]
        /\ pc'[w] \notin {"trashed", "conflict"}
    BY <1>1, <1>7 DEF Claim, ReleaseClaim, ClaimTrash, Retire, Goto, TypeOK
  <2>2. \A x \in Blob : row'[x] # "none" => row[x] # "none"
    BY <1>1, <1>7 DEF Claim, Claimable, ReleaseClaim, Unclaim, ClaimTrash, Retire, DeleteOp, TypeOK
  <2>3. \A f \in Files : RowsOf(f)' \subseteq RowsOf(f)
    BY <2>1, <2>2 DEF RowsOf, FileOf
  <2> QED
    BY <1>1, <2>1, <2>3, GoneKeptKeeps DEF GoneKept
<1>8. ~(FillGaps(w) \/ SendCopy(w) \/ Abandon(w))
  BY DEF AloneInv, RecordInv, FillGaps, SendCopy, Abandon
<1> QED
  BY <1>2, <1>3, <1>4, <1>5, <1>6, <1>7, <1>8 DEF Drain

LEMMA GoneNext ==
  ASSUME Alone
  PROVE  Inv /\ OneWorkerPerNode /\ AloneInv /\ [Next]_vars => GoneInv'
<1> SUFFICES ASSUME Inv, OneWorkerPerNode, AloneInv, [Next]_vars PROVE GoneInv'
  OBVIOUS
<1>1. TypeOK /\ GoneInv
  BY DEF Inv, AloneInv
<1>2. ASSUME UNCHANGED <<row, side, pc, job, gone, withdrawn>> PROVE GoneInv'
  BY <1>1, <1>2, RowsFrame, GoneKeptKeeps DEF GoneKept
<1>3. CASE UNCHANGED vars
  BY <1>2, <1>3 DEF vars, diskVars, drainVars, driveVars, histVars
<1>4. ASSUME NEW f \in Files, ApplyEvent(f) PROVE GoneInv'
  BY <1>2, <1>4 DEF ApplyEvent, drainVars, driveVars, histVars
<1> QED
  BY <1>1, <1>3, <1>4, AloneHere, MountGone, DrainGone DEF Next, Elsewhere

(***************************************************************************)
(* The active revision is known here, or being read back                   *)
(***************************************************************************)
(* What an attempt establishes about the revision it sealed.               *)
Sealing(w) ==
  /\ pc[w] \in LandedPc => cur[job[w].file] # 0
  /\ pc[w] \in {"answer", "retire", "readback"} => body[cur[job[w].file]] = job[w].blob
  /\ pc[w] = "adopt" => seen[w] = cur[job[w].file]
  /\ pc[w] \notin {"fill", "copy", "copied", "abandon"}

Known(f) == (\A w \in Workers : Unrecorded(w) => job[w].file # f) => gone[f] \/ Recorded(f)

LEMMA RecordParts ==
  RecordInv <=> (\A f \in Files : Known(f)) /\ (\A w \in Workers : Sealing(w))
  BY DEF RecordInv, Sealing, Known

(* What RecordInv says of Drive and of the revisions recorded here stays.  *)
RecordKept ==
  /\ UNCHANGED <<cur, body, ownRev, unread>>
  /\ \A f \in Files : gone[f] => gone'[f]

(* A worker that reads no revision back, before or after the step.         *)
Idler(w) ==
  /\ pc[w] \notin {"answer", "retire", "readback", "adopt"}
  /\ pc'[w] \notin {"answer", "retire", "readback", "adopt", "fill", "copy", "copied", "abandon"}
  /\ pc'[w] \in LandedPc => pc[w] \in LandedPc /\ job'[w].file = job[w].file

Stays(w) == pc'[w] = pc[w] /\ job'[w] = job[w] /\ seen'[w] = seen[w]

LEMMA StaySealing ==
  ASSUME RecordInv, UNCHANGED <<cur, body>>, NEW w \in Workers, Stays(w) \/ Idler(w)
  PROVE  Sealing(w)' /\ (Unrecorded(w)' <=> Unrecorded(w))
         /\ (Unrecorded(w) => job'[w].file = job[w].file)
<1>1. Sealing(w)
  BY RecordParts
<1>2. CASE Stays(w)
  BY <1>1, <1>2 DEF Sealing, Stays, Unrecorded
<1>3. CASE Idler(w)
  BY <1>1, <1>3 DEF Sealing, Idler, Unrecorded, LandedPc
<1> QED
  BY <1>2, <1>3

LEMMA RecordStep ==
  ASSUME RecordInv, RecordKept, \A w \in Workers : Stays(w) \/ Idler(w)
  PROVE  RecordInv'
<1>1. \A w \in Workers : /\ Sealing(w)'
                         /\ Unrecorded(w)' <=> Unrecorded(w)
                         /\ Unrecorded(w) => job'[w].file = job[w].file
  BY StaySealing DEF RecordKept
<1>2. ASSUME NEW f \in Files PROVE Known(f)'
  <2>1. Known(f) /\ (Recorded(f) => Recorded(f)')
    BY RecordParts DEF RecordKept, Recorded
  <2> QED
    BY <1>1, <2>1 DEF Known, RecordKept
<1>3. RecordInv' <=> (\A f \in Files : Known(f)') /\ (\A w \in Workers : Sealing(w)')
  BY DEF RecordInv, Sealing, Known
<1> QED
  BY <1>1, <1>2, <1>3

(* A step that is about one file: the other workers are elsewhere.         *)
LEMMA RecordOf ==
  ASSUME Inv, OneWorkerPerNode, RecordInv, NEW w \in Workers,
         pc[w] # "idle", job' = job, Sealing(w)', Known(job[w].file)',
         \A v \in Workers \ {w} : pc'[v] = pc[v] /\ seen'[v] = seen[v],
         \A f \in Files : f # job[w].file =>
           /\ cur'[f] = cur[f] /\ body'[cur[f]] = body[cur[f]] /\ ownRev'[f] = ownRev[f]
           /\ unread'[f] = unread[f] /\ (gone[f] => gone'[f])
  PROVE  RecordInv'
<1>1. \A v \in Workers : job[v].file \in Files
  BY Shapes DEF Inv, TypeOK
<1>2. ASSUME NEW v \in Workers PROVE Sealing(v)'
  <2>1. CASE v # w /\ pc[v] # "idle"
    <3>1. job[v].file # job[w].file /\ job[v].file \in Files
      BY <1>1, <2>1 DEF OneWorkerPerNode
    <3>2. Sealing(v)
      BY RecordParts
    <3> QED
      BY <2>1, <3>1, <3>2 DEF Sealing
  <2>2. CASE v # w /\ pc[v] = "idle"
    BY <2>2 DEF Sealing, LandedPc
  <2> QED
    BY <2>1, <2>2
<1>3. ASSUME NEW f \in Files PROVE Known(f)'
  <2>1. CASE f # job[w].file
    <3>1. Known(f) /\ (Recorded(f) => Recorded(f)') /\ (gone[f] => gone'[f])
      BY <2>1, RecordParts DEF Recorded
    <3>2. ASSUME \A v \in Workers : Unrecorded(v)' => job'[v].file # f
          PROVE  \A v \in Workers : Unrecorded(v) => job[v].file # f
      BY <2>1, <3>2 DEF Unrecorded
    <3> QED
      BY <3>1, <3>2 DEF Known
  <2> QED
    BY <2>1
<1>4. RecordInv' <=> (\A f \in Files : Known(f)') /\ (\A v \in Workers : Sealing(v)')
  BY DEF RecordInv, Sealing, Known
<1> QED
  BY <1>2, <1>3, <1>4

LEMMA CommitRecord ==
  ASSUME Inv, OneWorkerPerNode, SealedInv, RecordInv, NEW w \in Workers, Commit(w)
  PROVE  RecordInv'
<1>1. TypeOK
  BY DEF Inv
<1>2. CASE gone[job[w].file]
  <2>1. RecordKept /\ UNCHANGED <<job, seen>> /\ pc' = [pc EXCEPT ![w] = "release"]
        /\ pc[w] = "commit"
    BY <1>2 DEF Commit, Goto, RecordKept, diskVars, memVars, driveVars
  <2>2. \A v \in Workers : Stays(v) \/ Idler(v)
    BY <1>1, <2>1 DEF Stays, Idler, LandedPc, TypeOK
  <2> QED
    BY <2>1, <2>2, RecordStep
<1>3. CASE ~gone[job[w].file]
  <2> DEFINE f0 == job[w].file
  <2>1. /\ nrev \in Rev /\ f0 \in Files /\ cur'[f0] = nrev + 1
        /\ \A f \in Files : f # f0 => cur'[f] = cur[f]
        /\ body'[nrev + 1] = job[w].blob
        /\ \A r \in Rev : r # nrev + 1 => body'[r] = body[r]
    BY <1>3, CommitShape
  <2>2. /\ UNCHANGED <<ownRev, unread, gone, job, seen>> /\ pc[w] = "commit"
        /\ pc' = [pc EXCEPT ![w] = "answer"]
    BY <1>3 DEF Commit, Goto, diskVars, memVars
  <2>3. pc'[w] = "answer" /\ \A v \in Workers \ {w} : pc'[v] = pc[v]
    BY <1>1, <2>2 DEF TypeOK
  <2>4. Sealing(w)'
    <3>1. nrev + 1 # 0
      BY <2>1 DEF Rev
    <3> QED
      BY <2>1, <2>2, <2>3, <3>1 DEF Sealing
  <2>5. Known(f0)'
    BY <2>2, <2>3 DEF Known, Unrecorded
  <2>6. \A f \in Files : cur[f] \in Rev /\ cur[f] # nrev + 1
    <3>1. ASSUME NEW f \in Files PROVE cur[f] \in Rev /\ cur[f] <= nrev
      BY <1>1 DEF TypeOK, SealedInv
    <3>2. \A r \in Rev : r <= nrev => r # nrev + 1
      BY <2>1 DEF Rev
    <3> QED
      BY <3>1, <3>2
  <2>7. \A f \in Files : f # f0 => cur'[f] = cur[f] /\ body'[cur[f]] = body[cur[f]]
    BY <2>1, <2>6
  <2> QED
    BY <2>2, <2>3, <2>4, <2>5, <2>7, RecordOf
<1> QED
  BY <1>2, <1>3

LEMMA CheckRecord ==
  ASSUME Inv, OneWorkerPerNode, AloneInv, NEW w \in Workers, Check(w) \/ Conflict(w)
  PROVE  RecordInv'
<1>1. TypeOK /\ RecordInv /\ GoneInv
  BY DEF Inv, AloneInv
<1>2. /\ RecordKept
      /\ UNCHANGED <<job, seen>>
      /\ \A v \in Workers \ {w} : pc'[v] = pc[v]
  BY <1>1 DEF Check, Conflict, Goto, RecordKept, diskVars, memVars, driveVars, TypeOK
<1>3. pc[w] \in RevisionPc /\ job[w].file \in Files
  BY <1>1, Shapes DEF Check, Conflict, RevisionPc, WorkerPc, TypeOK
<1>4. job[w].blob \in Blob /\ job[w].blob # NoBlob /\ FileOf(job[w].blob) = job[w].file
  BY <1>3, Anchored DEF Inv, WorkerInv, Attempt
<1>5. CASE Check(w)
  <2>1. job[w].meta.complete
    BY <1>4 DEF AloneInv, WholeInv
  <2>2. pc[w] = "check" /\ pc'[w] \in {"conflict", "register"}
    BY <1>1, <1>5, <2>1 DEF Check, Goto, TypeOK
  <2> QED
    BY <1>1, <1>2, <2>2, RecordStep DEF Stays, Idler, LandedPc
<1>6. CASE Conflict(w)
  <2>1. pc[w] = "conflict" /\ (row[job[w].blob] = "none" => pc'[w] = "release")
    BY <1>1, <1>6 DEF Conflict, Goto, TypeOK
  <2>2. gone[job[w].file]
    BY <1>1, <2>1 DEF GoneInv
  <2>3. RowsOf(job[w].file) = {}
    BY <1>1, <1>3, <2>2 DEF GoneInv
  <2>4. row[job[w].blob] = "none"
    BY <1>4, <2>3 DEF RowsOf
  <2> QED
    BY <1>1, <1>2, <2>1, <2>4, RecordStep DEF Stays, Idler, LandedPc
<1> QED
  BY <1>5, <1>6

(* The node is read back, or its blob is noted as unread, before the       *)
(* revision it sealed is no one's.                                         *)
LEMMA ReadRecord ==
  ASSUME Inv, OneWorkerPerNode, RecordInv, NEW w \in Workers, ReadBack(w)
  PROVE  RecordInv'
<1> DEFINE f0 == job[w].file
<1>1. TypeOK /\ Sealing(w)
  BY RecordParts DEF Inv
<1>2. /\ UNCHANGED <<cur, body, gone, ownRev, job>>
      /\ pc[w] = "readback"
      /\ \/ /\ unread' = [unread EXCEPT ![f0] = NoBlob]
            /\ pc' = [pc EXCEPT ![w] = IF gone[f0] THEN "letgo" ELSE "adopt"]
            /\ seen' = [seen EXCEPT ![w] = IF gone[f0] THEN NoRev ELSE cur[f0]]
         \/ /\ unread' = [unread EXCEPT ![f0] = job[w].blob]
            /\ pc' = [pc EXCEPT ![w] = "letgo"]
            /\ seen' = seen
  BY DEF ReadBack, Goto, diskVars, driveVars
<1>3. f0 \in Files /\ job[w].blob # NoBlob
  BY <1>1, <1>2, Shapes DEF Inv, WorkerInv, Attempt, RevisionPc, WorkerPc, TypeOK
<1>4. /\ \A v \in Workers \ {w} : pc'[v] = pc[v] /\ seen'[v] = seen[v]
      /\ \A f \in Files : f # f0 => unread'[f] = unread[f]
  BY <1>1, <1>2 DEF TypeOK
<1>5. cur[f0] # 0 /\ body[cur[f0]] = job[w].blob
  BY <1>1, <1>2 DEF Sealing, LandedPc
<1>6. \/ pc'[w] = "letgo" /\ gone[f0]
      \/ pc'[w] = "adopt" /\ seen'[w] = cur[f0]
      \/ pc'[w] = "letgo" /\ unread'[f0] = job[w].blob
  BY <1>1, <1>2, <1>3 DEF TypeOK
<1>7. Sealing(w)'
  BY <1>2, <1>5, <1>6 DEF Sealing
<1>8. Known(f0)'
  <2>1. CASE pc'[w] = "adopt"
    BY <1>2, <2>1 DEF Known, Unrecorded
  <2>2. CASE gone[f0]
    BY <1>2, <2>2 DEF Known
  <2>3. CASE unread'[f0] = job[w].blob
    BY <1>2, <1>3, <1>5, <2>3 DEF Known, Recorded
  <2> QED
    BY <1>6, <2>1, <2>2, <2>3
<1> QED
  BY <1>2, <1>4, <1>7, <1>8, RecordOf

(* own_sealed_rev then names the active revision.                          *)
LEMMA AdoptRecord ==
  ASSUME Inv, OneWorkerPerNode, RecordInv, NEW w \in Workers, Adopt(w)
  PROVE  RecordInv'
<1> DEFINE f0 == job[w].file
<1>1. TypeOK /\ Sealing(w)
  BY RecordParts DEF Inv
<1>2. /\ UNCHANGED <<cur, body, gone, unread, job, seen>>
      /\ pc[w] = "adopt"
      /\ ownRev' = [ownRev EXCEPT ![f0] = seen[w]]
      /\ pc' = [pc EXCEPT ![w] = "letgo"]
  BY DEF Adopt, Goto, driveVars
<1>3. f0 \in Files
  BY <1>1, Shapes DEF TypeOK
<1>4. /\ pc'[w] = "letgo" /\ \A v \in Workers \ {w} : pc'[v] = pc[v]
      /\ ownRev'[f0] = seen[w] /\ \A f \in Files : f # f0 => ownRev'[f] = ownRev[f]
  BY <1>1, <1>2, <1>3 DEF TypeOK
<1>5. cur[f0] # 0 /\ seen[w] = cur[f0]
  BY <1>1, <1>2 DEF Sealing, LandedPc
<1>6. Sealing(w)' /\ Known(f0)'
  BY <1>2, <1>4, <1>5 DEF Sealing, Known, Recorded
<1> QED
  BY <1>2, <1>4, <1>6, RecordOf

(* The record of a trashed file goes with it.                              *)
LEMMA TrashRecord ==
  ASSUME Inv, OneWorkerPerNode, RecordInv, GoneInv, NEW w \in Workers, RetireTrash(w)
  PROVE  RecordInv'
<1> DEFINE f0 == job[w].file
<1>1. TypeOK
  BY DEF Inv
<1>2. /\ UNCHANGED <<cur, body, gone, unread, job, seen>>
      /\ pc[w] = "trashed"
      /\ ownRev' = [ownRev EXCEPT ![f0] = NoRev]
      /\ pc' = [pc EXCEPT ![w] = "release"]
  BY DEF RetireTrash, Goto, driveVars
<1>3. gone[f0]
  BY <1>2 DEF GoneInv
<1>4. /\ pc'[w] = "release" /\ \A v \in Workers \ {w} : pc'[v] = pc[v]
      /\ \A f \in Files : f # f0 => ownRev'[f] = ownRev[f]
  BY <1>1, <1>2 DEF TypeOK
<1>5. Sealing(w)' /\ Known(f0)'
  BY <1>2, <1>3, <1>4 DEF Sealing, Known, LandedPc
<1> QED
  BY <1>2, <1>4, <1>5, RecordOf

(* With no answer lost, the answer and the row's end lead to the read-back. *)
LEMMA AnswerRecord ==
  ASSUME Alone, Inv, OneWorkerPerNode, RecordInv, NEW w \in Workers, Answer(w) \/ Retire(w)
  PROVE  RecordInv'
<1>1. TypeOK /\ Sealing(w)
  BY RecordParts DEF Inv
<1>2. /\ UNCHANGED <<cur, body, gone, unread, ownRev, job, seen>>
      /\ pc[w] \in {"answer", "retire"}
      /\ pc' = [pc EXCEPT ![w] = IF pc[w] = "answer" THEN "retire" ELSE "readback"]
  <2>1. CASE Answer(w)
    BY <2>1 DEF Answer, Goto, Fault, Alone, diskVars, memVars, driveVars
  <2>2. CASE Retire(w)
    BY <1>1, <2>2 DEF Retire, Goto, Sealing, memVars, driveVars
  <2> QED
    BY <2>1, <2>2
<1>3. /\ pc'[w] \in {"retire", "readback"} /\ \A v \in Workers \ {w} : pc'[v] = pc[v]
  BY <1>1, <1>2 DEF TypeOK
<1>4. Sealing(w)' /\ Known(job[w].file)'
  BY <1>1, <1>2, <1>3 DEF Sealing, Known, Unrecorded, LandedPc
<1> QED
  BY <1>2, <1>3, <1>4, RecordOf

LEMMA DrainRecord ==
  ASSUME Alone, Inv, OneWorkerPerNode, SealedInv, AloneInv, NEW w \in Workers, Drain(w)
  PROVE  RecordInv'
<1>1. TypeOK /\ RecordInv /\ GoneInv
  BY DEF Inv, AloneInv
<1> USE DEF diskVars, memVars, callVars, driveVars
<1>2. ASSUME Register(w) \/ Confirm(w) \/ Send(w) \/ AttemptFails(w) \/ Discard(w) \/ Place(w)
             \/ LetGo(w)
      PROVE  RecordKept /\ \A v \in Workers : Stays(v) \/ Idler(v)
  <2>1. RecordKept /\ UNCHANGED <<job, seen>> /\ \A v \in Workers \ {w} : pc'[v] = pc[v]
    BY <1>1, <1>2 DEF Register, Confirm, Send, AttemptFails, Discard, Place, LetGo, Goto,
                      RecordKept, TypeOK
  <2>2. Idler(w)
    <3>1. CASE Register(w) \/ Confirm(w) \/ Send(w)
      BY <1>1, <3>1 DEF Register, Confirm, Send, Goto, Idler, LandedPc, TypeOK
    <3>2. CASE AttemptFails(w) \/ Discard(w) \/ Place(w)
      BY <1>1, <3>2 DEF AttemptFails, Discard, Place, Goto, Idler, LandedPc, TypeOK
    <3>3. CASE LetGo(w)
      <4>1. pc[w] = "letgo" /\ pc'[w] \in {"discard", "place"}
        BY <1>1, <3>3, RecordParts DEF LetGo, AfterLetGo, Goto, Sealing, TypeOK
      <4> QED
        BY <2>1, <4>1 DEF Idler, LandedPc
    <3> QED
      BY <1>2, <3>1, <3>2, <3>3
  <2> QED
    BY <2>1, <2>2 DEF Stays
<1>3. ASSUME Claim(w) \/ ClaimTrash(w) \/ SendTrash(w) \/ ReleaseClaim(w)
      PROVE  RecordKept /\ \A v \in Workers : Stays(v) \/ Idler(v)
  <2>1. RecordKept
    BY <1>1, <1>3 DEF Claim, ClaimTrash, SendTrash, ReleaseClaim, RecordKept, TypeOK
  <2>2. \A v \in Workers \ {w} : Stays(v)
    BY <1>1, <1>3 DEF Claim, ClaimTrash, SendTrash, ReleaseClaim, Goto, Stays, TypeOK
  <2>3. Idler(w)
    BY <1>1, <1>3 DEF Claim, ClaimTrash, SendTrash, ReleaseClaim, Goto, Idler, LandedPc, TypeOK
  <2> QED
    BY <2>1, <2>2, <2>3
<1>4. ~(FillGaps(w) \/ SendCopy(w) \/ Abandon(w))
  BY DEF AloneInv, RecordInv, FillGaps, SendCopy, Abandon
<1>5. CASE Check(w) \/ Conflict(w)
  BY <1>5, CheckRecord
<1>6. CASE Commit(w)
  BY <1>1, <1>6, CommitRecord
<1>7. CASE Answer(w) \/ Retire(w)
  BY <1>1, <1>7, AnswerRecord
<1>8. CASE ReadBack(w) \/ Adopt(w) \/ RetireTrash(w)
  BY <1>1, <1>8, ReadRecord, AdoptRecord, TrashRecord
<1> QED
  BY <1>1, <1>2, <1>3, <1>4, <1>5, <1>6, <1>7, <1>8, RecordStep DEF Drain

LEMMA AloneNext ==
  ASSUME Alone
  PROVE  Inv /\ OneWorkerPerNode /\ SealedInv /\ AloneInv /\ [Next]_vars => AloneInv'
<1> SUFFICES ASSUME Inv, OneWorkerPerNode, SealedInv, AloneInv, [Next]_vars PROVE AloneInv'
  OBVIOUS
<1>1. TypeOK /\ RecordInv /\ WholeInv /\ FirstInv /\ NoSelfFork
  BY DEF Inv, AloneInv
<1>2. WholeInv' /\ FirstInv' /\ GoneInv'
  BY <1>1, KeptNext, GoneNext
<1>3. ASSUME UNCHANGED <<cur, body, ownRev, unread, gone, pc, job, seen>>
      PROVE  RecordInv'
  <2>1. RecordKept /\ \A w \in Workers : Stays(w)
    BY <1>3 DEF RecordKept, Stays
  <2> QED
    BY <1>1, <2>1, RecordStep
<1>4. ASSUME NEW f \in Files, Mount(f)
      PROVE  RecordInv' /\ copies' = copies
  <2>1. UNCHANGED <<cur, body, ownRev, unread, gone, pc, job, seen, copies>>
    BY <1>4 DEF Mount, OpenWrite, ReleaseBase, ReleaseStage, ReleaseRefused, ReleaseCancel,
       ReleaseEnqueue, ReleaseEnqueueFails, ReleasePublish, ReleaseDiscard, UnlinkCancel,
       UnlinkReplace, UnlinkForget, diskVars, memVars, drainVars, driveVars
  <2> QED
    BY <1>3, <2>1
<1>5. ASSUME NEW w \in Workers, Drain(w)
      PROVE  RecordInv' /\ copies' = copies
  <2>1. RecordInv'
    BY <1>5, DrainRecord
  <2>2. ~SendCopy(w)
    BY <1>1 DEF RecordInv, SendCopy
  <2>3. copies' = copies
    BY <1>5, <2>2 DEF Drain, Claim, Check, Conflict, Abandon, FillGaps, Register, Confirm, Send,
       Commit, Answer, Retire, ReadBack, Adopt, LetGo, Place, Discard, ReleaseClaim, ClaimTrash,
       SendTrash, RetireTrash, AttemptFails, driveVars
  <2> QED
    BY <2>1, <2>3
<1>6. ASSUME NEW f \in Files, ApplyEvent(f)
      PROVE  RecordInv' /\ copies' = copies
  BY <1>3, <1>6 DEF ApplyEvent, memVars, drainVars, driveVars
<1>7. CASE UNCHANGED vars
  BY <1>1, <1>2, <1>3, <1>7 DEF vars, diskVars, memVars, drainVars, driveVars, AloneInv, NoSelfFork
<1>8. NoSelfFork' <=> copies' = {}
  BY DEF NoSelfFork
<1>9. copies = {}
  BY <1>1 DEF NoSelfFork
<1> QED
  BY <1>1, <1>2, <1>4, <1>5, <1>6, <1>7, <1>8, <1>9, AloneHere DEF Next, Elsewhere, AloneInv

LEMMA InitAlone ==
  ASSUME Alone
  PROVE  Init => AloneInv
<1> SUFFICES ASSUME Init PROVE AloneInv
  OBVIOUS
<1>1. /\ \A f \in Files : /\ step[f] = "idle" /\ pending[f] = NoBlob /\ tree[f] = 0
                          /\ landing[f] = NoRev /\ cur[f] = 0 /\ gone[f] = FALSE
                          /\ handle[f].base = 0 /\ draft[f].base = 0
      /\ \A b \in Blob : row[b] = "none" /\ ~(b < next)
      /\ \A w \in Workers : pc[w] = "idle" /\ job[w].blob = NoBlob
      /\ withdrawn = {} /\ copies = {}
  BY Ranges DEF Init, NoJob, Closed, NoDraft, Blob
<1>2. WholeInv
  BY <1>1 DEF WholeInv
<1>3. FirstInv
  BY <1>1 DEF FirstInv, FirstBase
<1>4. GoneInv
  BY <1>1 DEF GoneInv, RowsOf
<1>5. RecordInv
  BY <1>1 DEF RecordInv, Recorded, LandedPc
<1> QED
  BY <1>1, <1>2, <1>3, <1>4, <1>5 DEF AloneInv, NoSelfFork

(* revision_conflict, refresh_after_upload, place_landed: with no other    *)
(* device writing, no answer lost and whole writes, the machine never      *)
(* takes its own revision for another's, so no write of it is turned into  *)
(* a conflict copy, as long as a node has one worker at a time.            *)
THEOREM NoForkOfOwn ==
  ASSUME Alone
  PROVE  Spec /\ []OneWorkerPerNode => []NoSelfFork
<1>1. Inv /\ OneWorkerPerNode /\ SealedInv /\ AloneInv /\ [Next]_vars => AloneInv'
  BY AloneNext
<1>2. Spec => []Inv /\ []SealedInv
  BY Invariance, InitSealed, SealedNext, PTL DEF Spec
<1>3. Init => AloneInv
  BY InitAlone
<1>4. AloneInv => NoSelfFork
  BY DEF AloneInv
<1> QED
  BY <1>1, <1>2, <1>3, <1>4, PTL DEF Spec

(* So does a drain of one worker.                                          *)
THEOREM NoForkOfOneWorker ==
  ASSUME Alone, \A v, w \in Workers : v = w
  PROVE  Spec => []NoSelfFork
<1>1. OneWorkerPerNode
  BY AloneOnNode
<1>2. []OneWorkerPerNode
  BY <1>1, PTL
<1> QED
  BY <1>2, NoForkOfOwn, PTL
=============================================================================
