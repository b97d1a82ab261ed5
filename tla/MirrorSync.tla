----------------------------- MODULE MirrorSync -----------------------------
(***************************************************************************)
(* A synced folder in mirror mode: the reconcile pass of sync.rs over the  *)
(* files of one folder.  A pass scans the local tree, walks the remote     *)
(* one, plans each path against its baseline row (sync_entry), and applies *)
(* the plans concurrently.  Meanwhile the user edits and deletes local     *)
(* files, another device writes and trashes remote ones, listings come     *)
(* back wrong, calls fail and the daemon may crash.                        *)
(*                                                                         *)
(* A version is one content, with the modification time and size it was    *)
(* written with: what LocalSig, and without a revision id RemoteSeen,      *)
(* compare.  A revision is one upload; nodes are numbered by their first.  *)
(***************************************************************************)
EXTENDS Integers, FiniteSets

CONSTANTS
  Paths,        \* files of the folder that change
  Others,       \* how many synced files never change
  Windows,      \* between which two system calls of a pass a local write may fall
  MaxVersion,   \* bound: versions written by the user and the other device
  MaxRev,       \* bound: revisions sealed
  MaxForeign,   \* bound: changes made by the other device
  MaxFault,     \* bound: failures, a crash among them
  Faults        \* which may happen

None == 0
Version == 1 .. MaxVersion
Rev == 1 .. MaxRev
Torn(r) == 0 - r    \* what revision r holds if the file was written under its upload
Content == Version \cup {None} \cup {Torn(r) : r \in Rev}

ASSUME MirrorAssumption ==
  /\ IsFiniteSet(Paths)
  /\ Others \in Nat
  /\ MaxVersion \in Nat \ {0} /\ MaxRev \in Nat \ {0}
  /\ Cardinality(Paths) <= MaxVersion /\ Cardinality(Paths) <= MaxRev
  /\ MaxForeign \in Nat /\ MaxFault \in Nat

VARIABLES
  \* the local folder
  file,       \* the content at each path
  busy,       \* that file is held open for writing by some process
  copies,     \* contents kept as conflict copies
  base,       \* the baseline row of each path
  \* Drive
  drive,      \* the node at each path
  tip,        \* the active revision of each node
  seal,       \* what each revision holds: its content, and the version it is stamped as
  nrev,
  \* the pass
  phase,      \* idle, scanned or applying
  scan,       \* what the local scan saw of each path
  walk,       \* what the remote walk saw of it
  step,       \* where the work on it is
  got,        \* the content fetched for it, or the version being sent
  sent,       \* the revision its upload made
  \* history, and what is used of the bounds
  owed,       \* versions the user wrote and did not replace or delete himself
  removed,    \* paths the user deleted since a scan last saw them
  trashed,    \* paths the other device trashed since a walk last saw them
  nver, foreigns, faults

localVars  == <<file, busy, copies>>
driveVars  == <<drive, tip, seal, nrev>>
passVars   == <<phase, scan, walk, step, got, sent>>
histVars   == <<owed, removed, trashed, nver>>
budgetVars == <<foreigns, faults>>
vars == <<localVars, base, driveVars, passVars, histVars, budgetVars>>

(* StoredSyncEntry: the local version and the remote revision it was       *)
(* synced as.  rev is None in a row recorded without a revision id.        *)
Row == [local : Content \ {None}, stamp : Content \ {None}, rev : Rev \cup {None}]
NoRow == [local |-> None, stamp |-> None, rev |-> None]

Revision == [body : Content \ {None}, stamp : Content \ {None}]

(* RemoteItem, with its uid; hidden says that its absence proves nothing.  *)
Seen == [node : Rev \cup {None}, rev : Rev \cup {None}, hidden : BOOLEAN]
Unseen == [node |-> None, rev |-> None, hidden |-> FALSE]

Scanned == [content : Content, busy : BOOLEAN, hidden : BOOLEAN]
Unscanned == [content |-> None, busy |-> FALSE, hidden |-> FALSE]

Step == {"done", "note", "forget", "hash", "copy", "drop", "fetch", "guard", "aside",
         "place", "placed", "condemn", "remove", "trash", "open", "stat", "send", "readback"}

TypeOK ==
  /\ file \in [Paths -> Content]
  /\ busy \in [Paths -> BOOLEAN]
  /\ copies \subseteq Content
  /\ base \in [Paths -> Row \cup {NoRow}]
  /\ drive \in [Paths -> Rev \cup {None}]
  /\ tip \in [Rev -> Rev]
  /\ seal \in [Rev -> Revision]
  /\ nrev \in 0 .. MaxRev
  /\ phase \in {"idle", "scanned", "applying"}
  /\ scan \in [Paths -> Scanned]
  /\ walk \in [Paths -> Seen]
  /\ step \in [Paths -> Step]
  /\ got \in [Paths -> Content]
  /\ sent \in [Paths -> Rev \cup {None}]
  /\ owed \subseteq Version
  /\ removed \subseteq Paths /\ trashed \subseteq Paths
  /\ nver \in 0 .. MaxVersion
  /\ foreigns \in 0 .. MaxForeign /\ faults \in 0 .. MaxFault

(* Each path has a node of its own, of one revision, numbered as the path. *)
(* Either every path is in sync at it, or the folder is synced for the     *)
(* first time with files on both sides, the same or not.                   *)
Init ==
  /\ \E number \in [Paths -> 1 .. Cardinality(Paths)], first \in BOOLEAN, differ \in BOOLEAN :
       /\ \A p, q \in Paths : number[p] = number[q] => p = q
       /\ differ => first
       /\ nver = Cardinality(Paths) + (IF differ THEN Cardinality(Paths) ELSE 0)
       /\ nver <= MaxVersion
       /\ file = [p \in Paths |-> number[p] + (IF differ THEN Cardinality(Paths) ELSE 0)]
       /\ owed = IF differ THEN {file[p] : p \in Paths} ELSE {}
       /\ base = [p \in Paths |-> IF first THEN NoRow
                     ELSE [local |-> number[p], stamp |-> number[p], rev |-> number[p]]]
       /\ drive = number
  /\ nrev = Cardinality(Paths)
  /\ tip = [r \in Rev |-> r]
  /\ seal = [r \in Rev |-> IF r <= nrev THEN [body |-> r, stamp |-> r] ELSE [body |-> 1, stamp |-> 1]]
  /\ busy = [p \in Paths |-> FALSE]
  /\ copies = {}
  /\ phase = "idle"
  /\ scan = [p \in Paths |-> Unscanned]
  /\ walk = [p \in Paths |-> Unseen]
  /\ step = [p \in Paths |-> "done"]
  /\ got = [p \in Paths |-> None]
  /\ sent = [p \in Paths |-> None]
  /\ removed = {} /\ trashed = {}
  /\ foreigns = 0 /\ faults = 0

Fault(kind) ==
  /\ kind \in Faults
  /\ faults < MaxFault
  /\ faults' = faults + 1
  /\ UNCHANGED foreigns

(***************************************************************************)
(* Planning                                                                *)
(***************************************************************************)
LocalChanged(row, v) == row = NoRow \/ row.local # v

(* Another revision id is a change even at the same time and size; a row   *)
(* without one leaves it to those (revision_moved, remote_sig).            *)
RemoteChanged(row, r) ==
  \/ row = NoRow
  \/ row.stamp # seal[r].stamp
  \/ row.rev # None /\ row.rev # r

(* plan_file.  On a first sync a file of the same size with a digest on    *)
(* Drive is hashed before it is adopted; sizes and digests are left open.  *)
PlanFile(l, r, row) ==
  LET here  == l.content # None
      there == r.rev # None
      lc == LocalChanged(row, l.content)
      rc == RemoteChanged(row, r.rev)
  IN
  CASE here /\ l.busy -> {"deferred"}
    [] here /\ ~l.busy /\ there /\ ~lc /\ ~rc -> {"unchanged"}
    [] here /\ ~l.busy /\ there /\ lc /\ ~rc -> {"upload"}
    [] here /\ ~l.busy /\ there /\ ~lc /\ rc -> {"download"}
    [] here /\ ~l.busy /\ there /\ lc /\ rc ->
         IF row = NoRow THEN {"adopt", "conflict"} ELSE {"conflict"}
    [] here /\ ~l.busy /\ ~there -> IF lc THEN {"upload"} ELSE {"delete local"}
    [] ~here /\ there -> IF row = NoRow \/ rc THEN {"download"} ELSE {"delete remote"}
    [] ~here /\ ~there -> {"forget"}

(* The first step of a plan; a path the pass may not judge has none.       *)
FirstStep(plan) ==
  CASE plan = "deferred"      -> "done"
    [] plan = "unchanged"     -> "note"
    [] plan = "adopt"         -> "hash"
    [] plan = "conflict"      -> "copy"
    [] plan = "download"      -> "fetch"
    [] plan = "upload"        -> "open"
    [] plan = "delete local"  -> "condemn"
    [] plan = "delete remote" -> "trash"
    [] plan = "forget"        -> "forget"

(* looks_like_a_wipe: all of the tracked paths, or nine tenths of many.    *)
NeverAWipe(missing, total) == FALSE      \* mutant: no guard
AnyLoss(missing, total) == missing > 0   \* mutant: one path is enough
LooksLikeAWipe(missing, total) ==
  /\ total > 0
  /\ missing = total \/ (total >= 20 /\ missing * 10 >= total * 9)

(* guard_local_wipe, guard_remote_wipe over the rows of the paths in       *)
(* tracked, of which those in gone are missing, and lost of the others.    *)
Guarded(tracked, gone, lost) ==
  LET rows == {p \in tracked : base[p] # NoRow}
  IN LooksLikeAWipe(Cardinality(rows \cap gone) + lost, Cardinality(rows) + Others)

(***************************************************************************)
(* The pass                                                                *)
(***************************************************************************)
(* walk_local and guard_local_wipe.  A path that cannot be read is left    *)
(* out of the pass; an unmounted disk shows an empty folder.               *)
ScanLocal ==
  /\ phase = "idle"
  /\ \E hidden \in SUBSET Paths, unmounted \in BOOLEAN :
       /\ CASE unmounted /\ hidden = {} -> Fault("unmounted")
            [] ~unmounted /\ hidden # {} -> Fault("unreadable")
            [] ~unmounted /\ hidden = {} -> UNCHANGED budgetVars
            [] OTHER -> FALSE
       /\ scan' = [p \in Paths |->
            IF p \in hidden THEN [content |-> None, busy |-> FALSE, hidden |-> TRUE]
            ELSE IF unmounted THEN Unscanned
            ELSE [content |-> file[p], busy |-> busy[p], hidden |-> FALSE]]
       /\ phase' = IF Guarded(Paths \ hidden, {p \in Paths : scan'[p].content = None},
                              IF unmounted THEN Others ELSE 0)
                     THEN "idle" ELSE "scanned"
  /\ removed' = {p \in removed : scan'[p].content = None}
  /\ UNCHANGED <<localVars, base, driveVars, walk, step, got, sent, owed, trashed, nver>>

(* walk_remote, guard_remote_wipe and the classification of every path.    *)
(* Nodes that cannot be read leave a gap in their folder's listing, which  *)
(* hides what the walk did not return; a listing may also be empty and     *)
(* not say so.                                                             *)
Hides(seen) == seen.rev = None /\ seen.hidden

WalkRemote ==
  /\ phase = "scanned"
  /\ \E gaps \in SUBSET Paths, empty \in BOOLEAN :
       /\ CASE empty /\ gaps = {} -> Fault("empty")
            [] ~empty /\ gaps # {} -> Fault("short")
            [] ~empty /\ gaps = {} -> UNCHANGED budgetVars
            [] OTHER -> FALSE
       /\ walk' = [p \in Paths |->
            IF empty \/ p \in gaps \/ drive[p] = None
              THEN [node |-> None, rev |-> None, hidden |-> gaps # {}]
              ELSE [node |-> drive[p], rev |-> tip[drive[p]], hidden |-> FALSE]]
       /\ IF Guarded({p \in Paths : ~scan[p].hidden}, {p \in Paths : walk'[p].rev = None},
                     IF empty THEN Others ELSE 0)
            THEN phase' = "idle" /\ UNCHANGED step
            ELSE /\ phase' = "applying"
                 /\ \E plan \in [Paths -> {"deferred", "unchanged", "adopt", "conflict", "download",
                                           "upload", "delete local", "delete remote", "forget"}] :
                      /\ \A p \in Paths : plan[p] \in PlanFile(scan[p], walk'[p], base[p])
                      /\ step' = [p \in Paths |-> IF scan[p].hidden \/ Hides(walk'[p]) THEN "done"
                                                  ELSE FirstStep(plan[p])]
  /\ trashed' = {p \in trashed : walk'[p].rev = None}
  /\ UNCHANGED <<localVars, base, driveVars, scan, got, sent, owed, removed, nver>>

(* The walk of the root fails, or the baseline cannot be loaded.           *)
PassFails ==
  /\ phase = "scanned"
  /\ Fault("list")
  /\ phase' = "idle"
  /\ UNCHANGED <<localVars, base, driveVars, scan, walk, step, got, sent, histVars>>

EndPass ==
  /\ phase = "applying"
  /\ \A p \in Paths : step[p] = "done"
  /\ phase' = "idle"
  /\ scan' = [p \in Paths |-> Unscanned]
  /\ walk' = [p \in Paths |-> Unseen]
  /\ got' = [p \in Paths |-> None]
  /\ sent' = [p \in Paths |-> None]
  /\ UNCHANGED <<localVars, base, driveVars, step, histVars, budgetVars>>

Goto(p, to) == step' = [step EXCEPT ![p] = to]

(* sync_entry_upsert.                                                      *)
Record(p, row) == base' = [base EXCEPT ![p] = row]

(* A row without a revision id is given it once it is known to match.      *)
Note(p) ==
  /\ step[p] = "note"
  /\ base' = IF base[p].rev = None THEN [base EXCEPT ![p].rev = walk[p].rev] ELSE base
  /\ Goto(p, "done")
  /\ UNCHANGED <<localVars, driveVars, phase, scan, walk, got, sent, histVars, budgetVars>>

Forget(p) ==
  /\ step[p] = "forget"
  /\ base' = [base EXCEPT ![p] = NoRow]
  /\ Goto(p, "done")
  /\ UNCHANGED <<localVars, driveVars, phase, scan, walk, got, sent, histVars, budgetVars>>

(* Pending::Adopt: the file is hashed; gone or edited since the scan it is *)
(* left for the next pass.                                                 *)
Adopt(p) ==
  /\ step[p] = "hash"
  /\ IF file[p] = None \/ file[p] # scan[p].content
       THEN Goto(p, "done") /\ UNCHANGED base
       ELSE IF file[p] = seal[walk[p].rev].body
         THEN /\ Record(p, [local |-> file[p], stamp |-> seal[walk[p].rev].stamp,
                            rev |-> walk[p].rev])
              /\ Goto(p, "done")
         ELSE Goto(p, "copy") /\ UNCHANGED base
  /\ UNCHANGED <<localVars, driveVars, phase, scan, walk, got, sent, histVars, budgetVars>>

(***************************************************************************)
(* Conflict copies and downloads                                           *)
(***************************************************************************)
(* take_remote_keeping_local and preserve_conflict_copy: the copy is made  *)
(* durable and then the original is removed.  What is fetched afterwards   *)
(* expects nothing at the path.                                            *)
CopyAside(p) ==
  /\ step[p] \in {"copy", "aside"}
  /\ IF file[p] # None
       THEN copies' = copies \cup {file[p]} /\ Goto(p, "drop")
       ELSE Goto(p, IF step[p] = "copy" THEN "fetch" ELSE "done") /\ UNCHANGED copies
  /\ scan' = [scan EXCEPT ![p].content = None]
  /\ UNCHANGED <<file, busy, base, driveVars, phase, walk, got, sent, histVars, budgetVars>>

(* The engine puts v at the path, or nothing: another file than the one    *)
(* that was there, and that nobody holds open.                             *)
Put(p, v) ==
  /\ file' = [file EXCEPT ![p] = v]
  /\ busy' = [busy EXCEPT ![p] = FALSE]

DropOriginal(p) ==
  /\ step[p] = "drop"
  /\ Put(p, None)
  /\ Goto(p, IF got[p] = None THEN "fetch" ELSE "place")
  /\ UNCHANGED <<copies, base, driveVars, phase, scan, walk, got, sent, histVars, budgetVars>>

(* download_file, up to the temporary file: the content of the revision    *)
(* seen, or of the one that is active by now.                              *)
Fetch(p) ==
  /\ step[p] = "fetch"
  /\ \/ /\ \E r \in {walk[p].rev, tip[walk[p].node]} : got' = [got EXCEPT ![p] = seal[r].body]
        /\ Goto(p, "guard")
        /\ UNCHANGED budgetVars
     \/ drive[p] # walk[p].node /\ Goto(p, "done") /\ UNCHANGED <<got, budgetVars>>
     \/ Fault("fetch") /\ Goto(p, "done") /\ UNCHANGED got
  /\ UNCHANGED <<localVars, base, driveVars, phase, scan, walk, sent, histVars>>

(* keep_racing_local_edit: anything but what the plan expects at the       *)
(* destination is set aside first.                                         *)
Trusting(p) == TRUE   \* mutant: the destination is not looked at again
AsExpected(p) == file[p] \in {None, scan[p].content}

Guard(p) ==
  /\ step[p] = "guard"
  /\ Goto(p, IF AsExpected(p) THEN "place" ELSE "aside")
  /\ UNCHANGED <<localVars, base, driveVars, phase, scan, walk, got, sent, histVars, budgetVars>>

(* The temporary file is renamed over the path, and stamped.               *)
Place(p) ==
  /\ step[p] = "place"
  /\ Put(p, got[p])
  /\ Goto(p, "placed")
  /\ UNCHANGED <<copies, base, driveVars, phase, scan, walk, got, sent, histVars, budgetVars>>

(* record_file_baseline: what is at the path, as the revision that was     *)
(* planned, which a newer one on Drive then differs from.                  *)
RevisionNow(p) == tip[walk[p].node]   \* mutant: the node is read back
RevisionFetched(p) == walk[p].rev

RecordPlaced(p) ==
  /\ step[p] = "placed"
  /\ IF file[p] = None
       THEN UNCHANGED base
       ELSE Record(p, [local |-> file[p], stamp |-> seal[RevisionFetched(p)].stamp,
                       rev |-> RevisionFetched(p)])
  /\ Goto(p, "done")
  /\ UNCHANGED <<localVars, driveVars, phase, scan, walk, got, sent, histVars, budgetVars>>

(***************************************************************************)
(* Deletions                                                               *)
(***************************************************************************)
(* changed_since_scan: an edit saved since is not what Drive deleted.      *)
Condemn(p) ==
  /\ step[p] = "condemn"
  /\ Goto(p, IF file[p] \in {None, scan[p].content} THEN "remove" ELSE "done")
  /\ UNCHANGED <<localVars, base, driveVars, phase, scan, walk, got, sent, histVars, budgetVars>>

RemoveLocal(p) ==
  /\ step[p] = "remove"
  /\ \/ Put(p, None) /\ Goto(p, "forget") /\ UNCHANGED budgetVars
     \/ Fault("remove") /\ Goto(p, "done") /\ UNCHANGED <<file, busy>>
  /\ UNCHANGED <<copies, base, driveVars, phase, scan, walk, got, sent, histVars>>

(* The node that was walked is trashed, at whatever revision it is.        *)
TrashRemote(p) ==
  /\ step[p] = "trash"
  /\ \/ /\ drive' = IF drive[p] = walk[p].node THEN [drive EXCEPT ![p] = None] ELSE drive
        /\ Goto(p, "forget")
        /\ UNCHANGED budgetVars
     \/ Fault("trash") /\ Goto(p, "done") /\ UNCHANGED drive
  /\ UNCHANGED <<localVars, base, tip, seal, nrev, phase, scan, walk, got, sent, histVars>>

(***************************************************************************)
(* Uploads                                                                 *)
(***************************************************************************)
(* open_to_upload; for a revision, Drive is asked whether the node is      *)
(* still as it was walked.                                                 *)
OpenUpload(p) ==
  /\ step[p] = "open"
  /\ \/ /\ UNCHANGED budgetVars
        /\ got' = [got EXCEPT ![p] = file[p]]
        /\ Goto(p, IF \/ file[p] = None
                      \/ /\ walk[p].rev # None
                         /\ ~(drive[p] = walk[p].node /\ tip[walk[p].node] = walk[p].rev)
                     THEN "done" ELSE "stat")
     \/ Fault("check") /\ Goto(p, "done") /\ UNCHANGED got
  /\ UNCHANGED <<localVars, base, driveVars, phase, scan, walk, sent, histVars>>

(* The descriptor's own stat: the file opened, or what was written to it   *)
(* in place since.                                                         *)
StatUpload(p) ==
  /\ step[p] = "stat"
  /\ \E v \in {got[p], file[p]} \ {None} : got' = [got EXCEPT ![p] = v]
  /\ Goto(p, "send")
  /\ UNCHANGED <<localVars, base, driveVars, phase, scan, walk, sent, histVars, budgetVars>>

(* Drive seals what was read through the descriptor, which a write in      *)
(* place may have replaced or torn, stamped with the stat.  It refuses a second node   *)
(* of the name, and a revision of a node that is gone.                     *)
SendUpload(p) ==
  LET r == nrev + 1
      refused == IF walk[p].rev = None THEN drive[p] # None ELSE drive[p] # walk[p].node
  IN
  /\ step[p] = "send"
  /\ \/ refused /\ Goto(p, "done") /\ UNCHANGED <<driveVars, sent, budgetVars>>
     \/ Fault("send") /\ Goto(p, "done") /\ UNCHANGED <<driveVars, sent>>
     \/ /\ ~refused
        /\ r <= MaxRev
        /\ nrev' = r
        /\ \E b \in IF file[p] = got[p] THEN {got[p]} ELSE {got[p], file[p], Torn(r)} \ {None} :
             seal' = [seal EXCEPT ![r] = [body |-> b, stamp |-> got[p]]]
        /\ IF walk[p].rev = None
             THEN drive' = [drive EXCEPT ![p] = r] /\ tip' = [tip EXCEPT ![r] = r]
             ELSE tip' = [tip EXCEPT ![walk[p].node] = r] /\ UNCHANGED drive
        /\ sent' = [sent EXCEPT ![p] = r]
        /\ \/ Goto(p, "readback") /\ UNCHANGED budgetVars
           \/ Fault("answer") /\ Goto(p, "done")
  /\ UNCHANGED <<localVars, base, phase, scan, walk, got, histVars>>

(* What the upload is recorded as: the version it read, not the file now.  *)
Streamed(p) == got[p]

(* landed_as_sent and record_file_baseline: the node is read back, and its *)
(* content must be what was sent; a node that is not listed yet is         *)
(* recorded by its stamp, with no revision id.                             *)
ReadBack(p) ==
  LET node == IF walk[p].rev = None THEN sent[p] ELSE walk[p].node
      now == tip[node]
  IN
  /\ step[p] = "readback"
  /\ \/ /\ seal[now].body = seal[sent[p]].body
        /\ Record(p, [local |-> Streamed(p), stamp |-> seal[now].stamp, rev |-> now])
        /\ UNCHANGED budgetVars
     \/ /\ seal[now].body # seal[sent[p]].body
        /\ UNCHANGED <<base, budgetVars>>
     \/ /\ Fault("readback")
        /\ Record(p, [local |-> Streamed(p), stamp |-> Streamed(p), rev |-> None])
  /\ Goto(p, "done")
  /\ UNCHANGED <<localVars, driveVars, phase, scan, walk, got, sent, histVars>>

(***************************************************************************)
(* The user, the other device, and a crash                                 *)
(***************************************************************************)
(* Between a check and the call that acts on it there is no room for a     *)
(* local write, unless Windows opens the gap.                              *)
Room(p) == step[p] \in {"drop", "place", "placed", "remove"} => step[p] \in Windows

Write(p) ==
  /\ nver < MaxVersion
  /\ Room(p)
  /\ nver' = nver + 1
  /\ file' = [file EXCEPT ![p] = nver + 1]
  /\ owed' = (owed \ {file[p]}) \cup {nver + 1}

(* A save by rename, or a file held open and written by the time it is     *)
(* closed.  What is written through a descriptor after the file left its   *)
(* path never gets a version.                                              *)
Save(p) ==
  /\ ~busy[p]
  /\ Write(p)
  /\ UNCHANGED <<busy, copies, base, driveVars, passVars, removed, trashed, budgetVars>>

OpenForWrite(p) ==
  /\ ~busy[p] /\ file[p] # None
  /\ nver < MaxVersion
  /\ busy' = [busy EXCEPT ![p] = TRUE]
  /\ UNCHANGED <<file, copies, base, driveVars, passVars, histVars, budgetVars>>

CloseWritten(p) ==
  /\ busy[p]
  /\ busy' = [busy EXCEPT ![p] = FALSE]
  /\ Write(p)
  /\ UNCHANGED <<copies, base, driveVars, passVars, removed, trashed, budgetVars>>

Delete(p) ==
  /\ file[p] # None
  /\ Room(p)
  /\ Put(p, None)
  /\ owed' = owed \ {file[p]}
  /\ removed' = removed \cup {p}
  /\ UNCHANGED <<copies, base, driveVars, passVars, trashed, nver, budgetVars>>

ForeignWrite(p) ==
  /\ foreigns < MaxForeign /\ nver < MaxVersion /\ nrev < MaxRev
  /\ foreigns' = foreigns + 1
  /\ nver' = nver + 1
  /\ nrev' = nrev + 1
  /\ seal' = [seal EXCEPT ![nrev + 1] = [body |-> nver + 1, stamp |-> nver + 1]]
  /\ IF drive[p] = None
       THEN drive' = [drive EXCEPT ![p] = nrev + 1] /\ tip' = [tip EXCEPT ![nrev + 1] = nrev + 1]
       ELSE tip' = [tip EXCEPT ![drive[p]] = nrev + 1] /\ UNCHANGED drive
  /\ UNCHANGED <<localVars, base, passVars, owed, removed, trashed, faults>>

ForeignTrash(p) ==
  /\ foreigns < MaxForeign /\ drive[p] # None
  /\ foreigns' = foreigns + 1
  /\ drive' = [drive EXCEPT ![p] = None]
  /\ trashed' = trashed \cup {p}
  /\ UNCHANGED <<localVars, base, tip, seal, nrev, passVars, owed, removed, nver, faults>>

(* The pass is lost where it is; the next one starts from the rows.        *)
Crash ==
  /\ phase # "idle"
  /\ Fault("crash")
  /\ phase' = "idle"
  /\ scan' = [p \in Paths |-> Unscanned]
  /\ walk' = [p \in Paths |-> Unseen]
  /\ step' = [p \in Paths |-> "done"]
  /\ got' = [p \in Paths |-> None]
  /\ sent' = [p \in Paths |-> None]
  /\ UNCHANGED <<localVars, base, driveVars, histVars>>

(***************************************************************************)
(* The specification                                                       *)
(***************************************************************************)
Apply(p) ==
  \/ Note(p) \/ Forget(p) \/ Adopt(p) \/ CopyAside(p) \/ DropOriginal(p) \/ Fetch(p)
  \/ Guard(p) \/ Place(p) \/ RecordPlaced(p) \/ Condemn(p) \/ RemoveLocal(p) \/ TrashRemote(p)
  \/ OpenUpload(p) \/ StatUpload(p) \/ SendUpload(p) \/ ReadBack(p)

Pass == ScanLocal \/ WalkRemote \/ PassFails \/ EndPass \/ \E p \in Paths : Apply(p)

User(p) == Save(p) \/ OpenForWrite(p) \/ CloseWritten(p) \/ Delete(p)

Next ==
  \/ Pass
  \/ \E p \in Paths : User(p) \/ ForeignWrite(p) \/ ForeignTrash(p)
  \/ Crash

Spec == Init /\ [][Next]_vars

(* Passes go on: the watcher and the 120 s poll start them, and every call *)
(* ends.  Nothing is asked of the user or the other device.                *)
FairSpec == Spec /\ WF_vars(Pass)

(***************************************************************************)
(* Properties                                                              *)
(***************************************************************************)
Kept(v) ==
  \/ \E p \in Paths : file[p] = v
  \/ v \in copies
  \/ \E r \in 1 .. nrev : seal[r].body = v

(* A version the user saved and did not himself replace or delete is never *)
(* destroyed by a pass: it is at its path, in a conflict copy, or whole in *)
(* a revision on Drive, whenever the save fell during a download (B39), a  *)
(* deletion (B213), a conflict or an upload.                               *)
NoEditLost == \A v \in owed : Kept(v)

(* A path the next pass would call unchanged holds what Drive holds: no    *)
(* torn upload (B40) and no revision committed while another was fetched   *)
(* or sent (B250) is ever recorded as synced.                              *)
InStep(p) ==
  /\ file[p] # None /\ drive[p] # None
  /\ ~LocalChanged(base[p], file[p])
  /\ ~RemoteChanged(base[p], tip[drive[p]])
SyncedMeansSame == \A p \in Paths : InStep(p) => file[p] = seal[tip[drive[p]]].body

(* A pass trashes a node only for a file the user deleted, and deletes a   *)
(* file only for a node the other device trashed: never because a disk was *)
(* not mounted, a path unreadable, or a listing short or empty (B55, B212).*)
OnlyRealDeletes ==
  [][\A p \in Paths :
       /\ TrashRemote(p) /\ drive'[p] # drive[p] => p \in removed
       /\ RemoveLocal(p) /\ file'[p] # file[p] => p \in trashed]_vars

(* Once user and other device are quiet, the passes bring the two sides    *)
(* together and leave them so, whatever was lost on the way.               *)
InSync(p) == file[p] = IF drive[p] = None THEN None ELSE seal[tip[drive[p]]].body
Converges == <>[](\A p \in Paths : busy[p] \/ InSync(p))
=============================================================================
