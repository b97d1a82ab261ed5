--------------------------- MODULE RevisionQueue ---------------------------
(***************************************************************************)
(* Write-back of file content: the release of a write handle, the          *)
(* "revision" rows of pending_op, and the drain workers that send them     *)
(* (lib.rs, drain.rs, filesystem.rs, db/ops.rs), for files Drive already   *)
(* knows.  Another device may write or trash the same files, answers may   *)
(* be lost, and the daemon may crash between any two steps.                *)
(*                                                                         *)
(* Blobs are numbered in the order their writes were closed, revisions in  *)
(* the order Drive sealed them.  Contents are abstracted to the blob they  *)
(* came from, so equal digests are equal blob numbers.                     *)
(***************************************************************************)
EXTENDS Integers, FiniteSets

CONSTANTS
  Files,          \* files Drive knows when the run starts
  Workers,        \* the drain threads (DRAIN_WORKERS)
  MaxBlob,        \* bound: writes closed
  MaxRev,         \* bound: revisions sealed after the initial one
  MaxForeign,     \* bound: changes made by another device
  MaxCrash,       \* bound: restarts of the daemon
  MaxFault,       \* bound: failures
  Faults,         \* which calls may fail: names of the actions' fault points
  Wholeness       \* whether a handle's writes cover the file: a set of BOOLEAN

ASSUME BoundAssumption ==
  /\ MaxBlob \in Nat /\ MaxRev \in Nat /\ MaxForeign \in Nat
  /\ MaxCrash \in Nat /\ MaxFault \in Nat

ASSUME FilesAssumption == Files # {}

ASSUME WholenessAssumption == Wholeness \subseteq BOOLEAN

NoBlob == 0
NoRev  == -1
Blob   == 1 .. MaxBlob
Rev    == 0 .. MaxRev
NoWorker == "no worker"

ASSUME WorkerAssumption == NoWorker \notin Workers

VARIABLES
  \* on disk: staging/, its sidecars, pending_op, own_sealed_rev, nodes
  staged,     \* blobs in staging/
  side,       \* each blob's sidecar as it was staged
  row,        \* the revision row holding each blob: none, queued or claimed
  meta,       \* meta_json of that row
  trash,      \* the trash row of each file
  ownRev,     \* own_sealed_rev: the revision recorded as sealed here
  tree,       \* the revision the tree has for each file
  \* in memory: Core::pending, sealed_unread, landed, upload_cancel
  pending,    \* the blob reads of each file come from
  pend,       \* its sidecar
  unread,     \* the blob of an upload that was not read back
  landing,    \* the node read back while the tree does not have it yet
  handle,     \* the write handle open on each file
  step,       \* where a release or unlink under way on each file is
  draft,      \* the write that release is queueing
  old,        \* the blobs whose rows it replaced
  pc,         \* where each drain worker is
  job,        \* the op it claimed
  seen,       \* the revision it read back
  registry,   \* the worker whose cancel flag is registered for each file
  cancelled,  \* that flag
  \* Drive
  cur,        \* the active revision of each file
  body,       \* the blob each revision holds, NoBlob for another device's
  gone,       \* trashed or deleted on Drive
  nrev,       \* revisions sealed so far
  \* history, and what is left of the bounds
  next, accepted, landed, copies, withdrawn,
  requeued,   \* superseded writes that a restart queued again
  foreigns, crashes, faults

diskVars   == <<staged, side, row, meta, trash, ownRev, tree>>
memVars    == <<pending, pend, unread, landing>>
callVars   == <<handle, step, draft, old, next>>
drainVars  == <<pc, job, seen, registry, cancelled>>
driveVars  == <<cur, body, gone, nrev, landed, copies>>
histVars   == <<accepted, withdrawn, requeued>>
budgetVars == <<foreigns, crashes, faults>>
vars == <<diskVars, memVars, callVars, drainVars, driveVars, histVars, budgetVars>>

(***************************************************************************)
(* Shapes                                                                  *)
(***************************************************************************)
(* StagedWrite: the write it describes, the revision it was made against   *)
(* (based_on) and whether its authored ranges cover the file (complete).   *)
Meta == [of : 0 .. MaxBlob, file : Files, base : Rev, complete : BOOLEAN]

RowState == {"none", "queued", "claimed"}

Handle == [open : BOOLEAN, base : Rev, whole : BOOLEAN]
Closed == [open |-> FALSE, base |-> 0, whole |-> FALSE]

CallerStep == {"idle", "based", "staged", "cancelled", "queued", "published",
               "unlinking", "unlinked"}
Draft == [blob : 0 .. MaxBlob, base : Rev, complete : BOOLEAN]
NoDraft == [blob |-> NoBlob, base |-> 0, complete |-> FALSE]

WorkerPc == {"idle", "check", "conflict", "copy", "copied", "fill", "register",
             "confirm", "send", "commit", "answer", "retire", "readback", "adopt",
             "letgo", "place", "discard", "abandon", "release", "trash", "trashed"}
Job == [file : Files, blob : 0 .. MaxBlob, meta : Meta]

FileOf(b) == side[b].file
RowsOf(f) == {b \in Blob : row[b] # "none" /\ FileOf(b) = f}

TypeOK ==
  /\ staged \subseteq Blob
  /\ side \in [Blob -> Meta]
  /\ row \in [Blob -> RowState]
  /\ meta \in [Blob -> Meta]
  /\ trash \in [Files -> RowState]
  /\ ownRev \in [Files -> Rev \cup {NoRev}]
  /\ tree \in [Files -> Rev]
  /\ pending \in [Files -> 0 .. MaxBlob]
  /\ pend \in [Files -> Meta]
  /\ unread \in [Files -> 0 .. MaxBlob]
  /\ landing \in [Files -> Rev \cup {NoRev}]
  /\ handle \in [Files -> Handle]
  /\ step \in [Files -> CallerStep]
  /\ draft \in [Files -> Draft]
  /\ old \in [Files -> SUBSET Blob]
  /\ pc \in [Workers -> WorkerPc]
  /\ job \in [Workers -> Job]
  /\ seen \in [Workers -> Rev \cup {NoRev}]
  /\ registry \in [Files -> Workers \cup {NoWorker}]
  /\ cancelled \in [Workers -> BOOLEAN]
  /\ cur \in [Files -> Rev]
  /\ body \in [Rev -> 0 .. MaxBlob]
  /\ gone \in [Files -> BOOLEAN]
  /\ nrev \in Rev
  /\ next \in 1 .. MaxBlob + 1
  /\ accepted \subseteq Blob
  /\ landed \subseteq Blob
  /\ copies \subseteq Blob
  /\ withdrawn \subseteq Files
  /\ requeued \subseteq Blob
  /\ foreigns \in 0 .. MaxForeign
  /\ crashes \in 0 .. MaxCrash
  /\ faults \in 0 .. MaxFault

Blank == [of |-> NoBlob, file |-> CHOOSE f \in Files : TRUE, base |-> 0,
          complete |-> FALSE]
NoJob == [file |-> Blank.file, blob |-> NoBlob, meta |-> Blank]

Init ==
  /\ staged = {}
  /\ side = [b \in Blob |-> Blank]
  /\ row = [b \in Blob |-> "none"]
  /\ meta = [b \in Blob |-> Blank]
  /\ trash = [f \in Files |-> "none"]
  /\ ownRev = [f \in Files |-> NoRev]
  /\ tree = [f \in Files |-> 0]
  /\ pending = [f \in Files |-> NoBlob]
  /\ pend = [f \in Files |-> Blank]
  /\ unread = [f \in Files |-> NoBlob]
  /\ landing = [f \in Files |-> NoRev]
  /\ handle = [f \in Files |-> Closed]
  /\ step = [f \in Files |-> "idle"]
  /\ draft = [f \in Files |-> NoDraft]
  /\ old = [f \in Files |-> {}]
  /\ pc = [w \in Workers |-> "idle"]
  /\ job = [w \in Workers |-> NoJob]
  /\ seen = [w \in Workers |-> NoRev]
  /\ registry = [f \in Files |-> NoWorker]
  /\ cancelled = [w \in Workers |-> FALSE]
  /\ cur = [f \in Files |-> 0]
  /\ body = [r \in Rev |-> NoBlob]
  /\ gone = [f \in Files |-> FALSE]
  /\ nrev = 0
  /\ next = 1
  /\ accepted = {} /\ landed = {} /\ copies = {} /\ withdrawn = {} /\ requeued = {}
  /\ foreigns = 0 /\ crashes = 0 /\ faults = 0

(* A call of this kind fails, if such failures are left.                   *)
Fault(kind) ==
  /\ kind \in Faults
  /\ faults < MaxFault
  /\ faults' = faults + 1
  /\ UNCHANGED <<foreigns, crashes>>

(***************************************************************************)
(* The mount: opening a file for writing, and the release that queues what *)
(* was written                                                             *)
(***************************************************************************)
(* serve_open: the queued blob is the base if there is one, and is copied  *)
(* whole; otherwise the node being landed, or the tree's.                  *)
OpenWrite(f) ==
  /\ ~handle[f].open
  /\ f \notin withdrawn
  /\ step[f] = "idle"
  /\ handle' = [handle EXCEPT ![f] =
       [open  |-> TRUE,
        base  |-> IF pending[f] = NoBlob /\ landing[f] # NoRev
                    THEN landing[f] ELSE tree[f],
        whole |-> pending[f] # NoBlob]]
  /\ UNCHANGED <<diskVars, memVars, step, draft, old, next, drainVars, driveVars, histVars,
                 budgetVars>>

(* queue_revision up to remote_baseline: a write over a queued one         *)
(* inherits its baseline, any other takes the handle's.                    *)
ReleaseBase(f) ==
  /\ handle[f].open
  /\ step[f] = "idle"
  /\ next <= MaxBlob
  /\ step' = [step EXCEPT ![f] = "based"]
  /\ \E c \in IF handle[f].whole THEN {TRUE} ELSE Wholeness :
       draft' = [draft EXCEPT ![f] =
         [blob     |-> NoBlob,
          base     |-> IF pending[f] # NoBlob THEN pend[f].base ELSE handle[f].base,
          complete |-> c]]
  /\ handle' = [handle EXCEPT ![f] = Closed]
  /\ UNCHANGED <<diskVars, memVars, old, next, drainVars, driveVars, histVars, budgetVars>>

(* The sidecar of a write about to be staged.  A partial write is folded   *)
(* over the queued one (merge_over_pending) and takes its baseline; the    *)
(* result covers the file at most if the queued one did.                   *)
Folded(f, m) ==
  IF ~m.complete /\ pending[f] # NoBlob
    THEN {[of |-> m.of, file |-> m.file, base |-> pend[f].base, complete |-> c]
            : c \in {FALSE, pend[f].complete}}
    ELSE {m}

NewMeta(f) == [of |-> next, file |-> f, base |-> draft[f].base,
               complete |-> draft[f].complete]

(* stage_write publishes the scratch file and its sidecar in staging/.     *)
PutInStaging(f) ==
  /\ step[f] = "based"
  /\ next <= MaxBlob
  /\ \E m \in Folded(f, NewMeta(f)) : side' = [side EXCEPT ![next] = m]
  /\ staged' = staged \cup {next}
  /\ next' = next + 1

ReleaseStage(f) ==
  /\ PutInStaging(f)
  /\ step' = [step EXCEPT ![f] = "staged"]
  /\ draft' = [draft EXCEPT ![f] =
       [blob |-> next, base |-> draft[f].base, complete |-> draft[f].complete]]
  /\ UNCHANGED <<row, meta, trash, ownRev, tree, memVars, handle, old, drainVars,
                 driveVars, histVars, budgetVars>>

EndCall(f) ==
  /\ step' = [step EXCEPT ![f] = "idle"]
  /\ draft' = [draft EXCEPT ![f] = NoDraft]
  /\ old' = [old EXCEPT ![f] = {}]

(* The write cannot be queued (access changed, or folding failed): its     *)
(* bytes are kept in staging without a row (stage_orphaned_write).         *)
ReleaseRefused(f) ==
  /\ PutInStaging(f)
  /\ Fault("refuse")
  /\ EndCall(f)
  /\ UNCHANGED <<row, meta, trash, ownRev, tree, memVars, handle, drainVars,
                 driveVars, histVars>>

(* cancel_upload: raise the flag registered for f, if there is one.        *)
CancelUpload(f) ==
  cancelled' = IF registry[f] = NoWorker THEN cancelled
                                         ELSE [cancelled EXCEPT ![registry[f]] = TRUE]

ReleaseCancel(f) ==
  /\ step[f] = "staged"
  /\ CancelUpload(f)
  /\ step' = [step EXCEPT ![f] = "cancelled"]
  /\ UNCHANGED <<diskVars, memVars, handle, draft, old, next, pc, job, seen, registry,
                 driveVars, histVars, budgetVars>>

(* Mutant: an older revision row is not superseded.                        *)
NoneSuperseded(f) == {}

(* op_supersedes, drop_doomed_ops: the rows a new revision of f replaces,  *)
(* claimed or not.                                                         *)
Superseded(f) == RowsOf(f)

(* enqueue_op: in one transaction, the node's older revision row goes and  *)
(* the new one is inserted.                                                *)
ReleaseEnqueue(f) ==
  /\ step[f] = "cancelled"
  /\ LET b == draft[f].blob IN
       /\ row' = [x \in Blob |-> IF x = b THEN "queued"
                                 ELSE IF x \in Superseded(f) THEN "none" ELSE row[x]]
       /\ meta' = [meta EXCEPT ![b] = side[b]]
       /\ accepted' = accepted \cup {b}
  /\ step' = [step EXCEPT ![f] = "queued"]
  /\ old' = [old EXCEPT ![f] = Superseded(f)]
  /\ UNCHANGED <<staged, side, trash, ownRev, tree, memVars, handle, draft, next, drainVars,
                 driveVars, withdrawn, requeued, budgetVars>>

(* The transaction fails: the caller gets EIO, the bytes stay in staging.  *)
ReleaseEnqueueFails(f) ==
  /\ step[f] = "cancelled"
  /\ Fault("enqueue")
  /\ EndCall(f)
  /\ UNCHANGED <<diskVars, memVars, handle, next, drainVars, driveVars, histVars>>

(* Core::pending is pointed at the new blob only after the transaction.    *)
ReleasePublish(f) ==
  /\ step[f] = "queued"
  /\ pending' = [pending EXCEPT ![f] = draft[f].blob]
  /\ pend' = [pend EXCEPT ![f] = side[draft[f].blob]]
  /\ step' = [step EXCEPT ![f] = "published"]
  /\ UNCHANGED <<diskVars, unread, landing, handle, draft, old, next, drainVars, driveVars,
                 histVars, budgetVars>>

(* discard_staged of the blob the row replaced.                            *)
ReleaseDiscard(f) ==
  /\ step[f] = "published"
  /\ staged' = staged \ old[f]
  /\ EndCall(f)
  /\ UNCHANGED <<side, row, meta, trash, ownRev, tree, memVars, handle, next,
                 drainVars, driveVars, histVars, budgetVars>>

(***************************************************************************)
(* The mount: deleting a file (queue_trash), with no handle open on it     *)
(***************************************************************************)
UnlinkCancel(f) ==
  /\ ~handle[f].open
  /\ step[f] = "idle"
  /\ f \notin withdrawn
  /\ CancelUpload(f)
  /\ step' = [step EXCEPT ![f] = "unlinking"]
  /\ UNCHANGED <<diskVars, memVars, handle, draft, old, next, pc, job, seen, registry,
                 driveVars, histVars, budgetVars>>

(* replace_ops_with_trash                                                  *)
UnlinkReplace(f) ==
  /\ step[f] = "unlinking"
  /\ row' = [b \in Blob |-> IF b \in RowsOf(f) THEN "none" ELSE row[b]]
  /\ trash' = [trash EXCEPT ![f] = "queued"]
  /\ withdrawn' = withdrawn \cup {f}
  /\ step' = [step EXCEPT ![f] = "unlinked"]
  /\ old' = [old EXCEPT ![f] = RowsOf(f)]
  /\ UNCHANGED <<staged, side, meta, ownRev, tree, memVars, handle, draft, next, drainVars,
                 driveVars, accepted, requeued, budgetVars>>

(* release_dropped_ops: the pending entry goes, then the bytes.            *)
UnlinkForget(f) ==
  /\ step[f] = "unlinked"
  /\ pending' = [pending EXCEPT ![f] = NoBlob]
  /\ staged' = staged \ old[f]
  /\ EndCall(f)
  /\ UNCHANGED <<side, row, meta, trash, ownRev, tree, pend, unread, landing, handle,
                 next, drainVars, driveVars, histVars, budgetVars>>

(***************************************************************************)
(* The drain: one op, from claim to release                                *)
(***************************************************************************)
Goto(w, to) == pc' = [pc EXCEPT ![w] = to] /\ UNCHANGED <<job, seen>>

(* delete_op of the row holding b.                                         *)
KeepOp(b)   == row' = row   \* mutant: the row outlives its op
DeleteOp(b) == row' = [row EXCEPT ![b] = "none"]

(* Dropping UploadCancel: deregistered by identity, not by key.            *)
Deregister(w) ==
  registry' = [f \in Files |-> IF registry[f] = w THEN NoWorker ELSE registry[f]]

(* claimable: no other op on the same node is claimed.                     *)
Unclaimed(f) ==
  /\ trash[f] # "claimed"
  /\ \A b \in RowsOf(f) : row[b] # "claimed"

(* The debounce of a row outlasts the caller's step from inserting it to   *)
(* pointing Core::pending at its blob (2 s against two statements).        *)
Undebounced(b) == TRUE   \* mutant: the row is due at once
Debounced(b) == \A f \in Files : ~(step[f] = "queued" /\ draft[f].blob = b)

Claimable(b) == row[b] = "queued" /\ Unclaimed(FileOf(b)) /\ Debounced(b)

(* claim_next_due_op: which of the claimable rows is due is a matter of    *)
(* time, so any of them may be the first that is.                          *)
Claim(w) ==
  /\ pc[w] = "idle"
  /\ \E b \in Blob :
       /\ Claimable(b)
       /\ row' = [row EXCEPT ![b] = "claimed"]
       /\ job' = [job EXCEPT ![w] = [file |-> FileOf(b), blob |-> b, meta |-> meta[b]]]
  /\ pc' = [pc EXCEPT ![w] = "check"]
  /\ seen' = [seen EXCEPT ![w] = NoRev]
  /\ UNCHANGED <<staged, side, meta, trash, ownRev, tree, memVars, callVars, registry,
                 cancelled, driveVars, histVars, budgetVars>>

(* revision_conflict: the write still applies if Drive is at its baseline, *)
(* or if it is whole and Drive is at a revision recorded as sealed here,   *)
(* already holds its bytes, or holds an upload of ours never read back.    *)
ForgetsUnread(f, b, m) ==   \* mutant: without sealed_unread
  /\ ~gone[f]
  /\ \/ cur[f] = m.base
     \/ m.complete /\ (ownRev[f] = cur[f] \/ body[cur[f]] = b)

Applies(f, b, m) ==
  /\ ~gone[f]
  /\ \/ cur[f] = m.base
     \/ /\ m.complete
        /\ \/ ownRev[f] = cur[f]
           \/ body[cur[f]] = b
           \/ unread[f] # NoBlob /\ body[cur[f]] = unread[f]

Check(w) ==
  /\ pc[w] = "check"
  /\ Goto(w, IF ~Applies(job[w].file, job[w].blob, job[w].meta) THEN "conflict"
             ELSE IF job[w].meta.complete THEN "register" ELSE "fill")
  /\ UNCHANGED <<diskVars, memVars, callVars, registry, cancelled, driveVars, histVars,
                 budgetVars>>

(* A network call of the attempt fails: the row stays, to be retried.      *)
AttemptFails(w) ==
  /\ \/ pc[w] = "check" /\ Fault("check")
     \/ pc[w] = "fill" /\ Fault("fill")
     \/ pc[w] = "copy" /\ Fault("copy")
     \/ pc[w] \in {"send", "commit"} /\ Fault("send")
     \/ pc[w] = "trash" /\ Fault("trash")
  /\ Goto(w, "release")
  /\ Deregister(w)
  /\ UNCHANGED <<diskVars, memVars, callVars, cancelled, driveVars, histVars>>

(* A conflicting write whose row is gone was withdrawn, not in conflict.   *)
Conflict(w) ==
  /\ pc[w] = "conflict"
  /\ Goto(w, IF row[job[w].blob] = "none" THEN "release" ELSE "copy")
  /\ UNCHANGED <<diskVars, memVars, callVars, registry, cancelled, driveVars, histVars,
                 budgetVars>>

(* keep_as_conflict_copy: Drive gets the bytes as a new file.  The answer  *)
(* may be lost, which leaves the row for another attempt.                  *)
SendCopy(w) ==
  /\ pc[w] = "copy"
  /\ copies' = copies \cup {job[w].blob}
  /\ landed' = landed \cup {job[w].blob}
  /\ \/ Goto(w, "copied") /\ UNCHANGED budgetVars
     \/ Goto(w, "release") /\ Fault("answer")
  /\ UNCHANGED <<diskVars, memVars, callVars, registry, cancelled, cur, body, gone, nrev,
                 histVars>>

(* abandon_to_staging: a partial write whose gaps cannot be filled from    *)
(* the node it lost is given up, its bytes left in staging.                *)
Abandon(w) ==
  /\ pc[w] = "copy"
  /\ ~job[w].meta.complete
  /\ Fault("fill")
  /\ DeleteOp(job[w].blob)
  /\ Goto(w, "abandon")
  /\ UNCHANGED <<staged, side, meta, trash, ownRev, tree, memVars, callVars, registry,
                 cancelled, driveVars, histVars>>

(* fill_gaps, and update_op_meta_for_blob recording the blob as whole.     *)
FillGaps(w) ==
  /\ pc[w] = "fill"
  /\ LET j == job[w]
         whole == [of |-> j.meta.of, file |-> j.meta.file, base |-> j.meta.base,
                   complete |-> TRUE]
     IN /\ job' = [job EXCEPT ![w] = [file |-> j.file, blob |-> j.blob, meta |-> whole]]
        /\ meta' = IF row[j.blob] = "none" THEN meta ELSE [meta EXCEPT ![j.blob] = whole]
  /\ pc' = [pc EXCEPT ![w] = "register"]
  /\ UNCHANGED <<staged, side, row, trash, ownRev, tree, memVars, callVars, seen, registry,
                 cancelled, driveVars, histVars, budgetVars>>

(* begin_cancellable_upload                                                *)
Register(w) ==
  /\ pc[w] = "register"
  /\ registry' = [registry EXCEPT ![job[w].file] = w]
  /\ cancelled' = [cancelled EXCEPT ![w] = FALSE]
  /\ Goto(w, "confirm")
  /\ UNCHANGED <<diskVars, memVars, callVars, driveVars, histVars, budgetVars>>

(* A withdrawal before the flag existed is seen in the table.              *)
Confirm(w) ==
  /\ pc[w] = "confirm"
  /\ IF row[job[w].blob] = "none"
       THEN Goto(w, "release") /\ Deregister(w)
       ELSE Goto(w, "send") /\ UNCHANGED registry
  /\ UNCHANGED <<diskVars, memVars, callVars, cancelled, driveVars, histVars, budgetVars>>

(* The reader hands over the blob unless its flag is raised first.         *)
Send(w) ==
  /\ pc[w] = "send"
  /\ IF cancelled[w]
       THEN Goto(w, "release") /\ Deregister(w)
       ELSE Goto(w, "commit") /\ UNCHANGED registry
  /\ UNCHANGED <<diskVars, memVars, callVars, cancelled, driveVars, histVars, budgetVars>>

(* Drive seals the revision, whatever the active one is by now, or refuses *)
(* a node it no longer has.                                                *)
Commit(w) ==
  LET f == job[w].file
      b == job[w].blob
  IN
  /\ pc[w] = "commit"
  /\ IF gone[f]
       THEN /\ Goto(w, "release")
            /\ Deregister(w)
            /\ UNCHANGED driveVars
       ELSE /\ nrev < MaxRev
            /\ nrev' = nrev + 1
            /\ cur' = [cur EXCEPT ![f] = nrev + 1]
            /\ body' = [body EXCEPT ![nrev + 1] = b]
            /\ landed' = landed \cup {b}
            /\ Goto(w, "answer")
            /\ UNCHANGED <<gone, copies, registry>>
  /\ UNCHANGED <<diskVars, memVars, callVars, cancelled, histVars, budgetVars>>

(* The answer arrives, or is lost: then the row stays for another attempt, *)
(* unless the write that cancelled this upload has taken it.               *)
Answer(w) ==
  /\ pc[w] = "answer"
  /\ \/ Goto(w, "retire") /\ UNCHANGED budgetVars
     \/ Goto(w, "release") /\ Fault("answer")
  /\ Deregister(w)
  /\ UNCHANGED <<diskVars, memVars, callVars, cancelled, driveVars, histVars>>

(* The row goes before anything else forgets the blob.                     *)
Retire(w) ==
  /\ pc[w] \in {"retire", "copied"}
  /\ DeleteOp(job[w].blob)
  /\ Goto(w, IF pc[w] = "retire" THEN "readback" ELSE "letgo")
  /\ UNCHANGED <<staged, side, meta, trash, ownRev, tree, memVars, callVars, registry,
                 cancelled, driveVars, histVars, budgetVars>>

(* refresh_after_upload: the node is read back.  What it shows is whatever *)
(* is active by then.  A read-back that fails leaves the blob's digest in  *)
(* sealed_unread.                                                          *)
ReadBack(w) ==
  LET f == job[w].file IN
  /\ pc[w] = "readback"
  /\ \/ /\ UNCHANGED budgetVars
        /\ unread' = [unread EXCEPT ![f] = NoBlob]
        /\ pc' = [pc EXCEPT ![w] = IF gone[f] THEN "letgo" ELSE "adopt"]
        /\ seen' = [seen EXCEPT ![w] = IF gone[f] THEN NoRev ELSE cur[f]]
        /\ UNCHANGED job
     \/ /\ Fault("readback")
        /\ unread' = [unread EXCEPT ![f] = job[w].blob]
        /\ Goto(w, "letgo")
  /\ UNCHANGED <<diskVars, pending, pend, landing, callVars, registry, cancelled,
                 driveVars, histVars>>

(* set_own_sealed_rev, Core::landed, rebase_open_writes.                   *)
Adopt(w) ==
  LET f == job[w].file IN
  /\ pc[w] = "adopt"
  /\ ownRev' = [ownRev EXCEPT ![f] = seen[w]]
  /\ landing' = [landing EXCEPT ![f] = seen[w]]
  /\ handle' = IF handle[f].open
       THEN [handle EXCEPT ![f] = [open |-> TRUE, base |-> seen[w],
                                   whole |-> handle[f].whole]]
       ELSE handle
  /\ Goto(w, "letgo")
  /\ UNCHANGED <<staged, side, row, meta, trash, tree, pending, pend, unread, step, draft, old, next,
                 registry, cancelled, driveVars, histVars, budgetVars>>

(* release_pending: only while the entry still names this blob.            *)
KeepPending(f, b)     == pending' = pending                              \* mutant
ForcePendingOut(f, b) == pending' = [pending EXCEPT ![f] = NoBlob]       \* mutant
ReleasePending(f, b) ==
  pending' = IF pending[f] = b THEN [pending EXCEPT ![f] = NoBlob] ELSE pending

(* An abandoned write keeps its bytes; one that landed is placed if it was *)
(* read back, and its bytes go.                                            *)
AfterLetGo(w) ==
  IF pc[w] = "abandon" THEN "release" ELSE IF seen[w] = NoRev THEN "discard" ELSE "place"

LetGo(w) ==
  /\ pc[w] \in {"letgo", "abandon"}
  /\ ReleasePending(job[w].file, job[w].blob)
  /\ Goto(w, AfterLetGo(w))
  /\ UNCHANGED <<diskVars, pend, unread, landing, callVars, registry, cancelled, driveVars,
                 histVars, budgetVars>>

(* place_landed: a write queued meanwhile is rebaselined, in memory and in *)
(* whichever row the node has (rebaseline_pending, update_op_meta); with   *)
(* none queued the tree takes the node.                                    *)
Place(w) ==
  LET f == job[w].file
      rebased == [of |-> pend[f].of, file |-> pend[f].file, base |-> seen[w],
                  complete |-> pend[f].complete]
  IN
  /\ pc[w] = "place"
  /\ IF pending[f] # NoBlob
       THEN /\ pend' = [pend EXCEPT ![f] = rebased]
            /\ meta' = [b \in Blob |-> IF b \in RowsOf(f) THEN rebased ELSE meta[b]]
            /\ UNCHANGED tree
       ELSE /\ tree' = [tree EXCEPT ![f] = seen[w]]
            /\ UNCHANGED <<pend, meta>>
  /\ landing' = [landing EXCEPT ![f] = NoRev]
  /\ Goto(w, "discard")
  /\ UNCHANGED <<staged, side, row, trash, ownRev, pending, unread, callVars, registry,
                 cancelled, driveVars, histVars, budgetVars>>

(* discard_staged, the last step of a write that landed.                   *)
Discard(w) ==
  /\ pc[w] = "discard"
  /\ staged' = staged \ {job[w].blob}
  /\ Goto(w, "release")
  /\ UNCHANGED <<side, row, meta, trash, ownRev, tree, memVars, callVars, registry,
                 cancelled, driveVars, histVars, budgetVars>>

(* release_op_claim: a row that is still there is anyone's again.          *)
KeepClaim(s) == s   \* mutant: the claim is never given back
Unclaim(s) == IF s = "claimed" THEN "queued" ELSE s

ReleaseClaim(w) ==
  LET f == job[w].file
      b == job[w].blob
  IN
  /\ pc[w] = "release"
  /\ row' = IF b = NoBlob THEN row ELSE [row EXCEPT ![b] = Unclaim(@)]
  /\ trash' = IF b = NoBlob THEN [trash EXCEPT ![f] = Unclaim(@)] ELSE trash
  /\ pc' = [pc EXCEPT ![w] = "idle"]
  /\ job' = [job EXCEPT ![w] = NoJob]
  /\ seen' = [seen EXCEPT ![w] = NoRev]
  /\ UNCHANGED <<staged, side, meta, ownRev, tree, memVars, callVars, registry, cancelled,
                 driveVars, histVars, budgetVars>>

(* drain_trash: the trash call, and then the row and what was kept for it. *)
ClaimTrash(w) ==
  /\ pc[w] = "idle"
  /\ \E f \in Files :
       /\ trash[f] = "queued"
       /\ Unclaimed(f)
       /\ trash' = [trash EXCEPT ![f] = "claimed"]
       /\ job' = [job EXCEPT ![w] = [file |-> f, blob |-> NoBlob, meta |-> Blank]]
  /\ pc' = [pc EXCEPT ![w] = "trash"]
  /\ UNCHANGED seen
  /\ UNCHANGED <<staged, side, row, meta, ownRev, tree, memVars, callVars, registry,
                 cancelled, driveVars, histVars, budgetVars>>

SendTrash(w) ==
  /\ pc[w] = "trash"
  /\ gone' = [gone EXCEPT ![job[w].file] = TRUE]
  /\ Goto(w, "trashed")
  /\ UNCHANGED <<diskVars, memVars, callVars, registry, cancelled, cur, body, nrev, landed,
                 copies, histVars, budgetVars>>

RetireTrash(w) ==
  LET f == job[w].file IN
  /\ pc[w] = "trashed"
  /\ trash' = [trash EXCEPT ![f] = "none"]
  /\ pending' = [pending EXCEPT ![f] = NoBlob]
  /\ staged' = staged \ {pending[f]}
  /\ ownRev' = [ownRev EXCEPT ![f] = NoRev]
  /\ Goto(w, "release")
  /\ UNCHANGED <<side, row, meta, tree, pend, unread, landing, callVars, registry,
                 cancelled, driveVars, histVars, budgetVars>>

(***************************************************************************)
(* Another device, the event feed, and a restart                           *)
(***************************************************************************)
ForeignWrite(f) ==
  /\ foreigns < MaxForeign /\ nrev < MaxRev /\ ~gone[f]
  /\ foreigns' = foreigns + 1
  /\ nrev' = nrev + 1
  /\ cur' = [cur EXCEPT ![f] = nrev + 1]
  /\ UNCHANGED <<diskVars, memVars, callVars, drainVars, body, gone, landed, copies,
                 histVars, crashes, faults>>

ForeignTrash(f) ==
  /\ foreigns < MaxForeign /\ ~gone[f]
  /\ foreigns' = foreigns + 1
  /\ gone' = [gone EXCEPT ![f] = TRUE]
  /\ UNCHANGED <<diskVars, memVars, callVars, drainVars, cur, body, nrev, landed, copies,
                 histVars, crashes, faults>>

(* apply_event: a node with a queued write is ahead of Drive and is left.  *)
ApplyEvent(f) ==
  /\ pending[f] = NoBlob
  /\ tree[f] # cur[f]
  /\ tree' = [tree EXCEPT ![f] = cur[f]]
  /\ UNCHANGED <<staged, side, row, meta, trash, ownRev, memVars, callVars, drainVars,
                 driveVars, histVars, budgetVars>>

(* The staged blobs of f that no row owns.                                 *)
Orphans(f) == {b \in staged : row[b] = "none" /\ FileOf(b) = f}

(* reconcile_staging, for one file: with a write queued its orphans are    *)
(* kept, with a trash queued they are deleted, and otherwise the first one *)
(* that the directory lists is queued again.                               *)
Requeues(f) ==
  IF RowsOf(f) = {} /\ trash[f] = "none" /\ Orphans(f) # {} THEN Orphans(f) ELSE {NoBlob}

(* Mutant: every blob without a row is swept.                              *)
SweptAll == {b \in staged : row[b] = "none"}

Swept == {b \in staged : /\ b \in Orphans(FileOf(b))
                         /\ RowsOf(FileOf(b)) = {}
                         /\ trash[FileOf(b)] # "none"}

(* A write of this file that is newer than b was accepted before.          *)
Outdated(b) == \E a \in accepted : a > b /\ FileOf(a) = FileOf(b)

(* A crash loses what is in memory, scratch files included, and the next   *)
(* mount runs clear_op_claims, hydrate_pending and reconcile_staging       *)
(* before a worker starts.                                                 *)
Restart ==
  /\ crashes < MaxCrash
  /\ crashes' = crashes + 1
  /\ \E pick \in [Files -> 0 .. MaxBlob] :
       /\ \A f \in Files : pick[f] \in Requeues(f)
       /\ LET taken == {pick[f] : f \in Files} \ {NoBlob}
              serving(f) == IF RowsOf(f) # {} THEN CHOOSE b \in RowsOf(f) : TRUE ELSE pick[f]
          IN
          /\ row' = [b \in Blob |-> IF b \in taken THEN "queued" ELSE Unclaim(row[b])]
          /\ meta' = [b \in Blob |-> IF b \in taken THEN side[b] ELSE meta[b]]
          /\ accepted' = accepted \cup taken
          /\ requeued' = requeued \cup {b \in taken : Outdated(b)}
          /\ pending' = [f \in Files |-> serving(f)]
          /\ pend' = [f \in Files |-> IF serving(f) = NoBlob THEN Blank ELSE meta'[serving(f)]]
  /\ trash' = [f \in Files |-> Unclaim(trash[f])]
  /\ staged' = staged \ Swept
  /\ unread' = [f \in Files |-> NoBlob]
  /\ landing' = [f \in Files |-> NoRev]
  /\ handle' = [f \in Files |-> Closed]
  /\ step' = [f \in Files |-> "idle"]
  /\ draft' = [f \in Files |-> NoDraft]
  /\ old' = [f \in Files |-> {}]
  /\ pc' = [w \in Workers |-> "idle"]
  /\ job' = [w \in Workers |-> NoJob]
  /\ seen' = [w \in Workers |-> NoRev]
  /\ registry' = [f \in Files |-> NoWorker]
  /\ cancelled' = [w \in Workers |-> FALSE]
  /\ UNCHANGED <<side, ownRev, tree, next, driveVars, withdrawn, foreigns, faults>>

(***************************************************************************)
(* The specification                                                       *)
(***************************************************************************)
Mount(f) ==
  \/ OpenWrite(f) \/ ReleaseBase(f) \/ ReleaseStage(f) \/ ReleaseRefused(f)
  \/ ReleaseCancel(f) \/ ReleaseEnqueue(f) \/ ReleaseEnqueueFails(f)
  \/ ReleasePublish(f) \/ ReleaseDiscard(f)
  \/ UnlinkCancel(f) \/ UnlinkReplace(f) \/ UnlinkForget(f)

Drain(w) ==
  \/ Claim(w) \/ Check(w) \/ Conflict(w) \/ SendCopy(w) \/ Abandon(w) \/ FillGaps(w)
  \/ Register(w) \/ Confirm(w) \/ Send(w) \/ Commit(w) \/ Answer(w) \/ Retire(w)
  \/ ReadBack(w) \/ Adopt(w) \/ LetGo(w) \/ Place(w) \/ Discard(w) \/ ReleaseClaim(w)
  \/ ClaimTrash(w) \/ SendTrash(w) \/ RetireTrash(w) \/ AttemptFails(w)

Elsewhere(f) == ForeignWrite(f) \/ ForeignTrash(f) \/ ApplyEvent(f)

Next ==
  \/ \E f \in Files : Mount(f) \/ Elsewhere(f)
  \/ \E w \in Workers : Drain(w)
  \/ Restart

Spec == Init /\ [][Next]_vars

(* The drain threads and the callers run; a claimable row comes due.  What *)
(* users, other devices and failures do is not forced.                     *)
DrainProgress(w) == Drain(w)
CallerProgress(f) ==
  \/ ReleaseStage(f) \/ ReleaseCancel(f) \/ ReleaseEnqueue(f) \/ ReleasePublish(f)
  \/ ReleaseDiscard(f) \/ UnlinkReplace(f) \/ UnlinkForget(f)

Fairness ==
  /\ \A w \in Workers : WF_vars(DrainProgress(w))
  /\ \A f \in Files : WF_vars(CallerProgress(f))

FairSpec == Spec /\ Fairness

(***************************************************************************)
(* Properties                                                              *)
(***************************************************************************)
(* drain.rs:10-18 and ARCHITECTURE.md section 5: a staged blob is the only *)
(* copy of what the user wrote, so an accepted write is in staging until   *)
(* Drive has it, unless a newer write of the file was accepted or the user *)
(* deleted the file.                                                       *)
NothingLost ==
  \A b \in accepted :
    \/ b \in staged
    \/ b \in landed
    \/ FileOf(b) \in withdrawn
    \/ \E newer \in accepted : newer > b /\ FileOf(newer) = FileOf(b)

(* A row is deleted before its blob (drain_revision, enqueue_staged_write, *)
(* queue_trash), so no queued op ever points at nothing, crashes included. *)
QueuedBytesStaged == \A b \in Blob : row[b] # "none" => b \in staged

(* The pending entry is let go of before its blob is discarded, so a read  *)
(* or a write open that finds an entry finds the bytes (serve_open).       *)
PendingReadable == \A f \in Files : pending[f] # NoBlob => pending[f] \in staged

(* While a write is queued, reads of the file come from its blob: no       *)
(* upload that ends meanwhile takes the entry with it (release_pending).   *)
ReadsOwnWrites ==
  \A f \in Files : \A b \in RowsOf(f) :
    step[f] # "queued" => pending[f] = b

(* No staged write is sent by two workers at once: claiming is one         *)
(* transaction and a row goes back only from the worker that claimed it.   *)
ClaimExclusive ==
  \A w1, w2 \in Workers :
    w1 # w2 /\ job[w1].blob # NoBlob => job[w1].blob # job[w2].blob

(* A worker that is done with a row it did not retire gives it back, so no *)
(* row stays claimed by nobody (run_pending_drain's release_claim).        *)
ClaimHeld ==
  \A b \in Blob : row[b] = "claimed" => \E w \in Workers : job[w].blob = b

(* lib.rs:1966: older bytes are never uploaded over newer ones.  Between   *)
(* two revisions this machine sealed the active one only moves forward,    *)
(* through crashes, lost answers and whatever else fails, but for the two  *)
(* ways the code leaves open: a superseded orphan that a restart queued    *)
(* again (lib.rs:1964), and an upload on the wire when a newer write took  *)
(* its row, which the newer one may overtake (drain.rs:296).               *)
OlderNeverOverNewer ==
  [][\A f \in Files :
       LET was == body[cur[f]]
           is  == body'[cur'[f]]
       IN was # NoBlob /\ is # NoBlob =>
            is >= was \/ is \in requeued \/ row[is] = "none"]_vars

(* While the claims keep a node to one worker, only the orphan is left.    *)
OnlyOrphansGoBack ==
  [][\A f \in Files :
       LET was == body[cur[f]]
           is  == body'[cur'[f]]
       IN was # NoBlob /\ is # NoBlob => is >= was \/ is \in requeued]_vars

(* What lib.rs:1966 says, without an exception.                            *)
NeverStepsBack ==
  [][\A f \in Files :
       LET was == body[cur[f]]
           is  == body'[cur'[f]]
       IN was # NoBlob /\ is # NoBlob => is >= was]_vars

(* ARCHITECTURE.md:240: a worker skips an op while another worker holds an *)
(* op for the same node.                                                   *)
OneWorkerPerNode ==
  \A w1, w2 \in Workers :
    w1 # w2 /\ pc[w1] # "idle" /\ pc[w2] # "idle" => job[w1].file # job[w2].file

(* ARCHITECTURE.md section 5, db/ops.rs own_sealed_rev: the table names    *)
(* revisions this daemon sealed itself.                                    *)
OwnSealedIsOurs ==
  \A f \in Files : ownRev[f] # NoRev => body[ownRev[f]] # NoBlob

(* db/ops.rs update_op_meta_for_blob: a row that was pointed at a newer    *)
(* blob has its own sidecar, which must not be overwritten by an older     *)
(* write's.                                                                *)
SidecarDescribesBlob == \A b \in Blob : row[b] # "none" => meta[b].of = b

(* refresh_after_upload and rebaseline_pending: with no other device       *)
(* writing, a file never conflicts with itself.                            *)
NoSelfFork == copies = {}

(* drain.rs:16-18: a failure never pauses the queue, so every queued write *)
(* is retired in the end.                                                  *)
EveryWriteSettles == \A b \in Blob : row[b] # "none" ~> row[b] = "none"

(* The queue keeps WriteBack's promise about the bytes it was given.       *)
Promise == INSTANCE WriteBack
             WITH kept <- staged, fileOf <- [b \in Blob |-> FileOf(b)]
KeepsPromise == Promise!WBSpec
=============================================================================
