-------------------------- MODULE RevisionQueueInv --------------------------
(***************************************************************************)
(* The inductive invariant of RevisionQueue.  The properties themselves    *)
(* (NothingLost, QueuedBytesStaged, PendingReadable, ReadsOwnWrites,       *)
(* ClaimExclusive) are not inductive: they rest on what each step of a     *)
(* release, an unlink and a drain attempt has already established, which   *)
(* is what the parts below say of every program counter.                   *)
(***************************************************************************)
EXTENDS RevisionQueue

(* Blobs are numbered as they are staged, and only staged ones are taken.  *)
Numbered ==
  /\ \A b \in staged : b < next
  /\ \A b \in accepted : b < next
  /\ \A b \in Blob : row[b] # "none" => b \in accepted /\ b \in staged

(* What a release or an unlink has done so far, by the step it is at.      *)
Staging(f) ==
  step[f] \in {"staged", "cancelled"} =>
    /\ draft[f].blob \in staged \ accepted
    /\ FileOf(draft[f].blob) = f
    /\ f \notin withdrawn
    /\ \A a \in accepted : FileOf(a) = f => a < draft[f].blob

Superseding(f) ==
  step[f] \in {"queued", "published"} =>
    /\ draft[f].blob \in accepted
    /\ FileOf(draft[f].blob) = f
    /\ \A o \in old[f] :
         /\ o \in accepted /\ o < draft[f].blob
         /\ FileOf(o) = f
         /\ row[o] = "none"

Publishing(f) ==
  /\ step[f] = "queued" => row[draft[f].blob] = "queued" /\ RowsOf(f) = {draft[f].blob}
  /\ step[f] = "published" => pending[f] \in {draft[f].blob, NoBlob}

Unlinking(f) ==
  /\ step[f] = "unlinking" => ~handle[f].open
  /\ step[f] = "unlinked" =>
       /\ f \in withdrawn
       /\ RowsOf(f) = {}
       /\ \A o \in old[f] : o \in accepted /\ FileOf(o) = f
  /\ f \in withdrawn => step[f] \in {"idle", "unlinked"} /\ ~handle[f].open

CallerInv == \A f \in Files : Staging(f) /\ Superseding(f) /\ Publishing(f) /\ Unlinking(f)

(* A trash is queued only for a deleted file, whose writes are all gone.   *)
TrashInv == \A f \in Files : trash[f] # "none" => f \in withdrawn /\ RowsOf(f) = {}

(* The pending entry names a staged write of its own file.                 *)
PendingInv ==
  \A f \in Files : pending[f] # NoBlob =>
    /\ pending[f] \in staged \cap accepted
    /\ FileOf(pending[f]) = f

RevisionPc == WorkerPc \ {"idle", "release", "trash", "trashed"}
LandedPc   == {"answer", "retire", "copied", "readback", "adopt", "letgo", "place", "discard"}
RetiredPc  == {"readback", "adopt", "letgo", "place", "discard", "abandon"}

(* What a drain attempt has done so far, by the step it is at.             *)
Attempt(w) ==
  /\ job[w].blob # NoBlob => job[w].blob \in accepted /\ FileOf(job[w].blob) = job[w].file
  /\ pc[w] \in RevisionPc => job[w].blob # NoBlob
  /\ pc[w] \in LandedPc => job[w].blob \in landed
  /\ pc[w] \in RetiredPc => row[job[w].blob] = "none"
  /\ pc[w] \in {"place", "discard"} => pending[job[w].file] # job[w].blob
  /\ pc[w] \in {"trash", "trashed"} => trash[job[w].file] = "claimed" /\ job[w].blob = NoBlob
  /\ pc[w] \in {"adopt", "place"} => seen[w] # NoRev
  /\ pc[w] = "idle" => job[w].blob = NoBlob

WorkerInv == \A w \in Workers : Attempt(w)

(* A worker holds the row of its blob, alone, until it gives it back.      *)
HoldInv ==
  /\ ClaimExclusive
  /\ ClaimHeld
  /\ \A b \in Blob, w \in Workers : row[b] = "queued" => job[w].blob # b

(* So does the worker that claimed a trash row.                            *)
Trashing(w) == pc[w] # "idle" /\ job[w].blob = NoBlob

TrashHoldInv ==
  /\ \A w \in Workers : Trashing(w) => /\ job[w].file \in withdrawn
                                       /\ trash[job[w].file] # "queued"
  /\ \A w1, w2 \in Workers :
       w1 # w2 /\ Trashing(w1) /\ Trashing(w2) => job[w1].file # job[w2].file

(* The inductive invariant of the queue: what a release, an unlink, a      *)
(* trash and a drain attempt have each established at the step they are at *)
(* (enqueue_staged_write, queue_trash, drain_revision, drain_trash).       *)
Inv ==
  /\ TypeOK
  /\ Numbered
  /\ CallerInv
  /\ TrashInv
  /\ PendingInv
  /\ ReadsOwnWrites
  /\ WorkerInv
  /\ HoldInv
  /\ TrashHoldInv
  /\ NothingLost

(***************************************************************************)
(* What Drive holds                                                        *)
(***************************************************************************)
(* The active revision is another device's, or a write of its own file.    *)
SealedInv ==
  /\ landed \subseteq accepted
  /\ \A r \in Rev : r > nrev => body[r] = NoBlob
  /\ \A f \in Files :
       /\ cur[f] <= nrev
       /\ body[cur[f]] # NoBlob => body[cur[f]] \in landed /\ FileOf(body[cur[f]]) = f

(* A queued write is the newest of its file, unless a restart queued it    *)
(* again behind a newer one.                                               *)
RowsNewest ==
  \A x \in Blob \ requeued : row[x] # "none" =>
    \A a \in accepted : FileOf(a) = FileOf(x) => a <= x

(* Nothing older is attempted than what has landed, as long as a node has  *)
(* one worker at a time.                                                   *)
JobsNewest ==
  \A w \in Workers : job[w].blob # NoBlob /\ job[w].blob \notin requeued =>
    \A b \in landed : FileOf(b) = job[w].file => b <= job[w].blob

(***************************************************************************)
(* Baselines: no other device, no lost answer, no restart, whole writes    *)
(***************************************************************************)
Alone ==
  /\ MaxForeign = 0 /\ MaxCrash = 0 /\ "answer" \notin Faults /\ Wholeness \subseteq {TRUE}

(* Every write covers its file.                                            *)
WholeInv ==
  /\ \A f \in Files : /\ step[f] = "based" => draft[f].complete
                      /\ pending[f] # NoBlob => pend[f].complete
  /\ \A b \in Blob : /\ b < next => side[b].complete
                     /\ row[b] # "none" => meta[b].complete
  /\ \A w \in Workers : job[w].blob # NoBlob => job[w].meta.complete

(* A file not written yet is at its first revision everywhere.             *)
FirstBase(f) ==
  /\ tree[f] = 0 /\ landing[f] \in {NoRev, 0} /\ handle[f].base = 0 /\ draft[f].base = 0
  /\ pending[f] # NoBlob => pend[f].base = 0
  /\ \A b \in Blob : FileOf(b) = f => /\ b < next => side[b].base = 0
                                      /\ row[b] # "none" => meta[b].base = 0
  /\ \A w \in Workers : job[w].blob # NoBlob /\ job[w].file = f => job[w].meta.base = 0

FirstInv == \A f \in Files : cur[f] = 0 => FirstBase(f)

(* What is gone was deleted here, with its rows.                           *)
GoneInv ==
  /\ \A f \in Files : /\ gone[f] => f \in withdrawn
                      /\ f \in withdrawn => RowsOf(f) = {}
  /\ \A w \in Workers : pc[w] \in {"trashed", "conflict"} => gone[job[w].file]

(* An attempt that has a revision to read back.                            *)
Unrecorded(w) == pc[w] \in {"answer", "retire", "readback", "adopt"}

(* The active revision is the first one, or known as sealed here.          *)
Recorded(f) ==
  \/ cur[f] = 0
  \/ ownRev[f] = cur[f]
  \/ unread[f] # NoBlob /\ body[cur[f]] = unread[f]

RecordInv ==
  /\ \A f \in Files : (\A w \in Workers : Unrecorded(w) => job[w].file # f) => gone[f] \/ Recorded(f)
  /\ \A w \in Workers :
       /\ pc[w] \in LandedPc => cur[job[w].file] # 0
       /\ pc[w] \in {"answer", "retire", "readback"} => body[cur[job[w].file]] = job[w].blob
       /\ pc[w] = "adopt" => seen[w] = cur[job[w].file]
       /\ pc[w] \notin {"fill", "copy", "copied", "abandon"}

AloneInv == WholeInv /\ FirstInv /\ GoneInv /\ RecordInv /\ NoSelfFork
=============================================================================
