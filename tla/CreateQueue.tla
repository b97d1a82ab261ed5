---------------------------- MODULE CreateQueue ----------------------------
(***************************************************************************)
(* Files made on this machine before Drive knows them: the queued create,  *)
(* what the user does to the file while it waits or is on the wire (write, *)
(* rename, delete: lib.rs, filesystem.rs, db/ops.rs), and the drain that   *)
(* makes the node, finds the node of an attempt whose answer was lost,     *)
(* retires the row and gives the tree the real uid (drain.rs).  Parked     *)
(* creates of transient names and the sweep of them are here too.          *)
(*                                                                         *)
(* One folder, which exists: places are names.  A conflict name is taken   *)
(* to be free on Drive.  A call of Drive has its effect, if it has one,    *)
(* before its caller gives up.  Uploads of revisions are one step here;    *)
(* RevisionQueue has them in full.  Backoff is left out: a failed op may   *)
(* be tried again at any time.                                             *)
(***************************************************************************)
EXTENDS Integers, FiniteSets, Sequences

CONSTANTS
  Files,         \* files made here, each by its local id
  Workers,       \* drain threads
  Names,         \* names in the folder
  Transient,     \* those is_transient_name accepts
  HoldAttempts,  \* NAME_HOLD_ATTEMPTS
  MintRaces,     \* whether a create may be sent before its caller has the file in the tree
  QuickRestart,  \* whether a restart is shorter than ADOPT_WINDOW_MS
  WalkFirst,     \* whether the folder is walked before the drain goes on after a restart
  MaxBlob,       \* bound: writes
  MaxNode,       \* bound: nodes on Drive
  MaxCall,       \* bound: calls by the user
  MaxForeign,    \* bound: files made by another device
  MaxFault,      \* bound: failures
  Faults,        \* kinds of failure
  MaxCrash       \* bound: crashes

ASSUME CreateAssumption ==
  /\ IsFiniteSet(Files) /\ IsFiniteSet(Names) /\ Transient \subseteq Names
  /\ HoldAttempts \in Nat
  /\ MintRaces \in BOOLEAN /\ QuickRestart \in BOOLEAN /\ WalkFirst \in BOOLEAN
  /\ MaxBlob \in Nat /\ MaxNode \in Nat /\ MaxCall \in Nat
  /\ MaxForeign \in Nat /\ MaxFault \in Nat /\ MaxCrash \in Nat

NoOne  == "no one"       \* no worker has claimed the row
Other  == "another"      \* the device that is not this one
NoName == <<>>
Local  == 0              \* the uid of a node Drive has not made
Empty  == 0              \* no blob; the content of a file without one
Theirs == MaxBlob + 1    \* content another device wrote

ASSUME CreateNames ==
  /\ NoOne \notin Workers \cup Files /\ Other \notin Files /\ NoName \notin Names

(* conflict_name: a name nobody else has.                                  *)
ConflictName(f) == <<"conflict", f>>

ASSUME ConflictNames == \A f \in Files : ConflictName(f) \notin Names

VARIABLES
  \* the database
  row,        \* each file's create, and the revision or trash it turns into
  ren,        \* its queued renames, oldest first
  uid,        \* the uid in its node row
  listed,     \* whether the node row has been written in full
  staged,     \* blobs in staging
  \* the tree and what else is kept in memory
  place,      \* the name the tree has for the file, if it has it
  treeUid,    \* and the uid (by_uid)
  open,       \* files with a handle open
  hidden,     \* nodes trashed here
  unadopted,  \* landed creates that were not read back
  \* the user
  call,       \* where the user's call on each file is
  target,     \* the name a rename in progress gives it
  \* the drain
  pc, job,
  verdict,    \* of the park sweep
  age,        \* of a parked create: within the grace, past it, past the expiry
  \* Drive
  node, nnode,
  \* what the user was told, for the properties
  want, content, deleted, torn,
  named,      \* files that have had a name of their own
  \* what is used of the bounds, and what crossed a landing
  nblob, ncall, nforeign, nfault, ncrash,
  crossed     \* the ways another op came between a landed node and the tree

dbVars     == <<row, ren, uid, listed, staged>>
treeVars   == <<place, treeUid, open, hidden, unadopted>>
callVars   == <<call, target>>
drainVars  == <<pc, job>>
sweepVars  == <<verdict, age>>
driveVars  == <<node, nnode>>
toldVars   == <<want, content, deleted, torn, named>>
boundVars  == <<nblob, ncall, nforeign, nfault, ncrash, crossed>>
vars == <<dbVars, treeVars, callVars, drainVars, sweepVars, driveVars, toldVars, boundVars>>

(***************************************************************************)
(* Shapes                                                                  *)
(***************************************************************************)
Uid  == 0 .. MaxNode
Name == Names \cup {ConflictName(f) : f \in Files}
Blob == 1 .. MaxBlob

(* pending_op: sent_to (to), sent_sha1 (sha), claimed_at (owner), uid (at) *)
(* and when it was first sent, counted in restarts (first).                *)
Row == [kind : {"none", "create", "revision", "trash"}, owner : Workers \cup {NoOne},
        parked : BOOLEAN, tries : 0 .. HoldAttempts, name : Name \cup {NoName},
        blob : {Empty} \cup Blob, to : SUBSET Name, sha : SUBSET Blob, at : Uid,
        first : 0 .. MaxCrash]
NoRow == [kind |-> "none", owner |-> NoOne, parked |-> FALSE, tries |-> 0,
          name |-> NoName, blob |-> Empty, to |-> {}, sha |-> {}, at |-> Local, first |-> 0]

Ren == [name : Name, orig : Name, owner : Workers \cup {NoOne}, tries : 0 .. HoldAttempts]

Job == [file : Files \cup {NoOne}, kind : {"create", "revision", "trash", "rename"},
        name : Name \cup {NoName}, blob : {Empty} \cup Blob, tries : 0 .. HoldAttempts,
        stage : {"first", "again", "alt"}, node : Uid, sent : Name \cup {NoName},
        landed : {Empty} \cup Blob, renaming : BOOLEAN, seen : Name \cup {NoName}]
NoJob == [file |-> NoOne, kind |-> "create", name |-> NoName,
          blob |-> Empty, tries |-> 0, stage |-> "first", node |-> Local,
          sent |-> NoName, landed |-> Empty, renaming |-> FALSE, seen |-> NoName]

WorkerPc == {"idle", "twin", "note", "send", "clash", "held", "retire", "repoint", "ask",
             "read", "place", "discard", "revise", "find", "trash", "trashed", "fail"}

Node == [name : Name, body : 0 .. MaxBlob + 1, by : Files \cup {Other},
         trashed : BOOLEAN, epoch : 0 .. MaxCrash, inline : BOOLEAN]

TypeOK ==
  /\ row \in [Files -> Row]
  /\ ren \in [Files -> Seq(Ren)]
  /\ \A f \in Files : /\ Len(ren[f]) <= 2
                      /\ Len(ren[f]) = 2 => ren[f][2].owner = NoOne
  /\ uid \in [Files -> Uid] /\ treeUid \in [Files -> Uid]
  /\ listed \subseteq Files /\ open \subseteq Files /\ unadopted \subseteq Files
  /\ staged \subseteq Blob
  /\ place \in [Files -> Name \cup {NoName}]
  /\ hidden \subseteq Uid
  /\ call \in [Files -> {"none", "minting", "idle", "renaming", "dropping", "gone"}]
  /\ target \in [Files -> Name \cup {NoName}]
  /\ pc \in [Workers -> WorkerPc]
  /\ job \in [Workers -> Job]
  /\ verdict \in [Files -> {"none", "drop", "release"}]
  /\ age \in [Files -> {"new", "settled", "expired"}]
  /\ nnode \in Uid
  /\ node \in [1 .. nnode -> Node]
  /\ want \in [Files -> Name \cup {NoName}]
  /\ content \in [Files -> {Empty} \cup Blob]
  /\ deleted \subseteq Files /\ torn \subseteq Files /\ named \subseteq Files
  /\ nblob \in 0 .. MaxBlob /\ ncall \in 0 .. MaxCall /\ nforeign \in 0 .. MaxForeign
  /\ nfault \in 0 .. MaxFault /\ ncrash \in 0 .. MaxCrash
  /\ crossed \subseteq {"rename", "trash"}

Init ==
  /\ row = [f \in Files |-> NoRow]
  /\ ren = [f \in Files |-> <<>>]
  /\ uid = [f \in Files |-> Local] /\ treeUid = [f \in Files |-> Local]
  /\ listed = {} /\ open = {} /\ unadopted = {} /\ staged = {} /\ hidden = {}
  /\ place = [f \in Files |-> NoName]
  /\ call = [f \in Files |-> "none"] /\ target = [f \in Files |-> NoName]
  /\ pc = [w \in Workers |-> "idle"] /\ job = [w \in Workers |-> NoJob]
  /\ verdict = [f \in Files |-> "none"] /\ age = [f \in Files |-> "new"]
  /\ node = <<>> /\ nnode = 0
  /\ want = [f \in Files |-> NoName] /\ content = [f \in Files |-> Empty]
  /\ deleted = {} /\ torn = {} /\ named = {}
  /\ nblob = 0 /\ ncall = 0 /\ nforeign = 0 /\ nfault = 0 /\ ncrash = 0
  /\ crossed = {}

Fault(kind) ==
  /\ kind \in Faults
  /\ nfault < MaxFault
  /\ nfault' = nfault + 1
  /\ UNCHANGED <<nblob, ncall, nforeign, ncrash, crossed>>

Call ==
  /\ ncall < MaxCall
  /\ ncall' = ncall + 1
  /\ UNCHANGED <<nblob, nforeign, nfault, ncrash, crossed>>

(***************************************************************************)
(* Drive                                                                   *)
(***************************************************************************)
Live == {r \in 1 .. nnode : ~node[r].trashed}

Taken(n, r) == \E x \in Live : x # r /\ node[x].name = n

Made(n, b, who) == Append(node, [name |-> n, body |-> b, by |-> who, trashed |-> FALSE,
                                 epoch |-> ncrash, inline |-> FALSE])

(* Another device makes a file in the folder.                              *)
ForeignCreate(n) ==
  /\ nforeign < MaxForeign
  /\ nnode < MaxNode
  /\ ~Taken(n, Local)
  /\ node' = Made(n, Theirs, Other)
  /\ nnode' = nnode + 1
  /\ nforeign' = nforeign + 1
  /\ UNCHANGED <<dbVars, treeVars, callVars, drainVars, sweepVars, toldVars, nblob, ncall,
                 nfault, ncrash, crossed>>

(***************************************************************************)
(* The user                                                                *)
(***************************************************************************)
FreeInTree(n) == \A f \in Files : place[f] # n /\ target[f] # n /\ (call[f] = "minting" => want[f] # n)

(* queue_local_node: the node row and the create, parked for a transient   *)
(* name.                                                                   *)
QueueLocalNode(f, n) ==
  /\ call[f] = "none"
  /\ FreeInTree(n)
  /\ row' = [row EXCEPT ![f] = [NoRow EXCEPT !.kind = "create", !.name = n,
                                             !.parked = n \in Transient]]
  /\ call' = [call EXCEPT ![f] = "minting"]
  /\ want' = [want EXCEPT ![f] = n]
  /\ named' = IF n \in Transient THEN named ELSE named \cup {f}
  /\ UNCHANGED <<ren, uid, listed, staged, treeVars, target, drainVars, sweepVars,
                 content, deleted, torn>>

Mint(f, n) ==
  /\ QueueLocalNode(f, n)
  /\ Call
  /\ UNCHANGED driveVars

(* The create set out online and lost the link on the way: it is queued    *)
(* although Drive has made the node.                                       *)
MintUnanswered(f, n) ==
  /\ n \notin Transient
  /\ ~Taken(n, Local)
  /\ nnode < MaxNode
  /\ QueueLocalNode(f, n)
  /\ Fault("inline")
  /\ node' = [Made(n, Empty, f) EXCEPT ![nnode + 1].inline = TRUE]
  /\ nnode' = nnode + 1

(* serve_create goes on: the node is written in full and the file is open. *)
Intern(f) ==
  /\ call[f] = "minting"
  /\ call' = [call EXCEPT ![f] = "idle"]
  /\ listed' = listed \cup {f}
  /\ place' = [place EXCEPT ![f] = want[f]]
  /\ open' = open \cup {f}
  /\ UNCHANGED <<row, ren, uid, staged, treeUid, hidden, unadopted, target, drainVars,
                 sweepVars, driveVars, toldVars, boundVars>>

Open(f) ==
  /\ call[f] = "idle" /\ f \notin open
  /\ Call
  /\ open' = open \cup {f}
  /\ UNCHANGED <<dbVars, place, treeUid, hidden, unadopted, callVars, drainVars, sweepVars,
                 driveVars, toldVars>>

(* The last handle is closed with nothing written.                         *)
Close(f) ==
  /\ call[f] = "idle" /\ f \in open
  /\ open' = open \ {f}
  /\ UNCHANGED <<dbVars, place, treeUid, hidden, unadopted, callVars, drainVars, sweepVars,
                 driveVars, toldVars, boundVars>>

(* Mutant: a write wakes a parked create.                                  *)
AttachAndWake(f, b) ==
  [row[f] EXCEPT !.blob = b, !.tries = 0, !.parked = FALSE]

(* attach_blob_to_create: the bytes ride on the create, a park is kept.    *)
Attached(f, b) == [row[f] EXCEPT !.blob = b, !.tries = 0]

(* enqueue_staged_write: attached to the create while there is one,        *)
(* whether or not it is on the wire; a revision of the landed node         *)
(* otherwise.                                                              *)
Written(f, b) ==
  IF row[f].kind = "create" THEN Attached(f, b)
  ELSE [NoRow EXCEPT !.kind = "revision", !.blob = b, !.at = uid[f]]

(* A handle that was written to is closed.  The blob replaced is discarded.*)
Release(f) ==
  /\ call[f] = "idle" /\ f \in open
  /\ nblob < MaxBlob
  /\ LET b == nblob + 1 IN
       /\ row' = [row EXCEPT ![f] = Written(f, b)]
       /\ staged' = (staged \cup {b}) \ {row[f].blob}
       /\ content' = [content EXCEPT ![f] = b]
       /\ nblob' = b
  /\ open' = open \ {f}
  /\ UNCHANGED <<ren, uid, listed, place, treeUid, hidden, unadopted, callVars, drainVars,
                 sweepVars, driveVars, want, deleted, torn, named, ncall, nforeign, nfault, ncrash,
                 crossed>>

(* enqueue_op of a rename: an unclaimed one is replaced and leaves its     *)
(* origin, a claimed one, which is the oldest, stays ahead.                *)
Renamed(f, n) ==
  LET orig == IF ren[f] = <<>> THEN place[f] ELSE ren[f][1].orig
      new  == [name |-> n, orig |-> orig, owner |-> NoOne, tries |-> 0]
  IN  IF ren[f] = <<>> \/ ren[f][1].owner = NoOne THEN <<new>> ELSE <<ren[f][1], new>>

(* Mutant: only a create that is not on the wire is retargeted.            *)
RetargetIdle(f, n) ==
  IF row[f].kind = "create"
    THEN row' = [row EXCEPT ![f].name = IF row[f].owner = NoOne THEN n ELSE @]
           /\ UNCHANGED ren
    ELSE ren' = [ren EXCEPT ![f] = Renamed(f, n)] /\ UNCHANGED row

(* serve_rename: a create still queued is given the new name               *)
(* (rewrite_op_target); a landed node gets a rename.                       *)
Retarget(f, n) ==
  IF row[f].kind = "create"
    THEN row' = [row EXCEPT ![f].name = n] /\ UNCHANGED ren
    ELSE ren' = [ren EXCEPT ![f] = Renamed(f, n)] /\ UNCHANGED row

RenameStart(f, n) ==
  /\ call[f] = "idle" /\ place[f] # NoName
  /\ FreeInTree(n)
  /\ Call
  /\ Retarget(f, n)
  /\ call' = [call EXCEPT ![f] = "renaming"]
  /\ target' = [target EXCEPT ![f] = n]
  /\ want' = [want EXCEPT ![f] = n]
  /\ named' = IF n \in Transient THEN named ELSE named \cup {f}
  /\ UNCHANGED <<uid, listed, staged, treeVars, drainVars, sweepVars, driveVars, content,
                 deleted, torn>>

(* The tree follows (rename_in_place), and a transient file that got its   *)
(* name is un-parked (set_create_hold).                                    *)
RenameEnd(f) ==
  /\ call[f] = "renaming"
  /\ place' = [place EXCEPT ![f] = target[f]]
  /\ row' = [row EXCEPT ![f].parked = @ /\ ~(place[f] \in Transient /\ target[f] \notin Transient)]
  /\ call' = [call EXCEPT ![f] = "idle"]
  /\ target' = [target EXCEPT ![f] = NoName]
  /\ UNCHANGED <<ren, uid, listed, staged, treeUid, open, hidden, unadopted, drainVars,
                 sweepVars, driveVars, toldVars, boundVars>>

(* Mutant: a create is known to have been sent by its attempts alone.      *)
OnlyTried(f) == row[f].owner # NoOne \/ row[f].tries > 0

(* drop_doomed_ops: a create that is on the wire, or was sent, may have    *)
(* made its node.                                                          *)
Sent(f) == row[f].owner # NoOne \/ row[f].tries > 0 \/ row[f].to # {}

(* drop_doomed_ops: the ops of f go, but a create that was sent becomes a  *)
(* trash of the node it may have made, claimed as it was.                  *)
Doomed(f) == IF row[f].kind = "create" /\ Sent(f)
               THEN [row[f] EXCEPT !.kind = "trash", !.tries = 0, !.parked = FALSE]
               ELSE NoRow

DropOps(f) ==
  /\ row' = [row EXCEPT ![f] = Doomed(f)]
  /\ ren' = [ren EXCEPT ![f] = <<>>]
  /\ staged' = IF Doomed(f) = NoRow THEN staged \ {row[f].blob} ELSE staged

(* queue_trash of a landed node: replace_ops_with_trash.                   *)
QueueTrash(f) ==
  /\ row' = [row EXCEPT ![f] = [NoRow EXCEPT !.kind = "trash", !.name = place[f],
                                             !.at = uid[f]]]
  /\ ren' = [ren EXCEPT ![f] = <<>>]
  /\ staged' = staged \ {row[f].blob}
  /\ hidden' = hidden \cup {uid[f]}

MayDelete(f) == call[f] = "idle" /\ place[f] # NoName /\ f \notin open

(* trash_child of a file the tree has under its placeholder: its ops go... *)
DeleteLocal(f) ==
  /\ MayDelete(f) /\ treeUid[f] = Local
  /\ Call
  /\ DropOps(f)
  /\ call' = [call EXCEPT ![f] = "dropping"]
  /\ deleted' = deleted \cup {f}
  /\ UNCHANGED <<uid, listed, treeVars, target, drainVars, sweepVars, driveVars, want,
                 content, torn, named>>

Forgotten(f) ==
  /\ place' = [place EXCEPT ![f] = NoName]
  /\ treeUid' = [treeUid EXCEPT ![f] = Local]
  /\ unadopted' = unadopted
  /\ call' = [call EXCEPT ![f] = "gone"]
  /\ UNCHANGED <<open, target>>

(* Mutant: the create that landed before its ops were dropped is missed.   *)
NeverLanded(f) == FALSE

(* landed_row_uid                                                          *)
LandedUnder(f) == uid[f] # Local

(* ...and a node its create had landed as is trashed like any other.       *)
DeleteLanded(f) ==
  /\ call[f] = "dropping"
  /\ IF LandedUnder(f) THEN QueueTrash(f) ELSE UNCHANGED <<row, ren, staged, hidden>>
  /\ Forgotten(f)
  /\ listed' = IF LandedUnder(f) THEN listed ELSE listed \ {f}
  /\ UNCHANGED <<uid, drainVars, sweepVars, driveVars, toldVars, boundVars>>

(* trash_child of a file the tree has under its real uid.                  *)
DeleteReal(f) ==
  /\ MayDelete(f) /\ treeUid[f] # Local
  /\ Call
  /\ QueueTrash(f)
  /\ Forgotten(f)
  /\ deleted' = deleted \cup {f}
  /\ UNCHANGED <<uid, listed, drainVars, sweepVars, driveVars, want, content, torn, named>>

(***************************************************************************)
(* Parked creates                                                          *)
(***************************************************************************)
(* Time passes.  A call that makes a file is shorter than the grace.       *)
Grow(f) ==
  /\ row[f].parked
  /\ \/ age[f] = "new" /\ call[f] # "minting" /\ age' = [age EXCEPT ![f] = "settled"]
     \/ age[f] = "settled" /\ age' = [age EXCEPT ![f] = "expired"]
  /\ UNCHANGED <<dbVars, treeVars, callVars, drainVars, verdict, driveVars, toldVars, boundVars>>

(* Mutant: a file that keeps its transient name is never given up for one. *)
NeverReleased(f) ==
  IF f \notin open /\ f \notin listed /\ age[f] # "new" THEN "drop" ELSE "none"

(* park_verdict                                                            *)
ParkVerdict(f) ==
  IF f \in open THEN "none"
  ELSE IF f \notin listed THEN IF age[f] = "new" THEN "none" ELSE "drop"
  ELSE IF age[f] = "expired" THEN "release" ELSE "none"

(* sweep_parked_creates judges a parked create...                          *)
SweepJudge(f) ==
  /\ row[f].kind = "create" /\ row[f].parked
  /\ verdict[f] = "none"
  /\ ParkVerdict(f) # "none"
  /\ verdict' = [verdict EXCEPT ![f] = ParkVerdict(f)]
  /\ UNCHANGED <<dbVars, treeVars, callVars, drainVars, age, driveVars, toldVars, boundVars>>

(* ...and un-parks it or drops it (discard_queued_ops).                    *)
SweepAct(f) ==
  /\ verdict[f] # "none"
  /\ \/ /\ verdict[f] = "release"
        /\ row' = [row EXCEPT ![f].parked = FALSE]
        /\ UNCHANGED <<ren, staged>>
     \/ verdict[f] = "drop" /\ DropOps(f)
  /\ verdict' = [verdict EXCEPT ![f] = "none"]
  /\ UNCHANGED <<uid, listed, treeVars, callVars, drainVars, age, driveVars, toldVars,
                 boundVars>>

(***************************************************************************)
(* The drain                                                               *)
(***************************************************************************)
Goto(w, step) == pc' = [pc EXCEPT ![w] = step]
F(w) == job[w].file

(* claimable: no op of the node is claimed.                                *)
Free(f) == row[f].owner = NoOne /\ \A i \in 1 .. Len(ren[f]) : ren[f][i].owner = NoOne

(* claim_next_due_op, and where the attempt starts.  An op of a landed     *)
(* node that was not read back adopts it first (finish_adoption).          *)
ClaimRow(w, f) ==
  /\ pc[w] = "idle"
  /\ row[f].kind # "none" /\ ~row[f].parked /\ Free(f)
  /\ MintRaces \/ call[f] # "minting"
  /\ row' = [row EXCEPT ![f].owner = w]
  /\ job' = [job EXCEPT ![w] = [NoJob EXCEPT !.file = f, !.kind = row[f].kind,
               !.name = row[f].name, !.blob = row[f].blob, !.tries = row[f].tries,
               !.node = row[f].at, !.sent = row[f].name]]
  /\ Goto(w, IF row[f].kind = "create" THEN "twin"
             ELSE IF f \in unadopted THEN "ask"
             ELSE IF row[f].kind = "revision" THEN "revise"
             ELSE IF row[f].at = Local THEN "find" ELSE "trash")
  /\ UNCHANGED <<ren, uid, listed, staged, treeVars, callVars, sweepVars, driveVars,
                 toldVars, boundVars>>

(* Between finish_create and the tree's new uid nothing keeps another      *)
(* worker from a rename finish_create queued.  Such a claim is noted.      *)
ClaimRename(w, f) ==
  /\ pc[w] = "idle"
  /\ ren[f] # <<>> /\ Free(f)
  /\ crossed' = IF \E v \in Workers : pc[v] = "repoint" /\ F(v) = f
                  THEN crossed \cup {"rename"} ELSE crossed
  /\ ren' = [ren EXCEPT ![f][1].owner = w]
  /\ job' = [job EXCEPT ![w] = [NoJob EXCEPT !.file = f, !.kind = "rename",
               !.name = ren[f][1].name, !.tries = ren[f][1].tries, !.node = uid[f]]]
  /\ Goto(w, IF f \in unadopted THEN "ask" ELSE "send")
  /\ UNCHANGED <<row, uid, listed, staged, treeVars, callVars, sweepVars, driveVars,
                 toldVars, nblob, ncall, nforeign, nfault, ncrash>>

(* Mutant: the folder is not asked whether another create is on the wire.  *)
NoneCreating(w, n) == FALSE

(* Core::creating: another create was sent under this name.                *)
Creating(w, n) == \E v \in Workers \ {w} :
  pc[v] # "idle" /\ job[v].kind = "create" /\ job[v].name = n

(* Core::state().by_uid                                                    *)
InTree(r) == \E f \in Files : place[f] # NoName /\ treeUid[f] = r

Grown(n) == IF n < HoldAttempts THEN n + 1 ELSE n

(* Mutant: only the bytes the row holds now are recognised.                *)
HoldsCurrent(w, r) == node[r].body \in {Empty} \cup ({job[w].blob} \cap staged)

(* Mutant: whatever has the name is taken for the node of the create.      *)
HoldsAnything(w, r) == TRUE

(* adoptable: empty, or bytes the create sent.                             *)
HoldsOurs(w, r) == node[r].body \in {Empty} \cup ({job[w].blob} \cap staged) \cup row[F(w)].sha

(* adoptable: made no earlier than around when the op was first sent.      *)
Fresh(w, r) ==
  LET sent == IF row[F(w)].to = {} THEN ncrash ELSE row[F(w)].first
  IN  node[r].epoch >= sent - (IF QuickRestart THEN 1 ELSE 0)

(* adoptable_twin, withdrawn_twin_in: the node under n an unanswered       *)
(* attempt made: not trashed here, not in the tree.                        *)
Unclaimed(n) == {r \in Live : node[r].name = n /\ r \notin hidden /\ ~InTree(r)}
Twin(w, n) == {r \in Unclaimed(n) : HoldsOurs(w, r) /\ Fresh(w, r)}

AdoptableTwin(w, n) == IF Creating(w, n) THEN {} ELSE Twin(w, n)

(* adoptable_twin fails when a write has discarded the blob it is to       *)
(* compare a file with.                                                    *)
CannotCompare(w, n) ==
  /\ job[w].blob \notin staged \cup {Empty} /\ ~Creating(w, n)
  /\ \E r \in Unclaimed(n) : node[r].body # Empty

(* has_withdrawn_create                                                    *)
WithdrawnNamed(n) ==
  \E f \in Files : row[f].kind = "trash" /\ row[f].at = Local /\ row[f].name = n

(* Mutant: only the name the create has now is looked under.               *)
NoEarlierTwin(w) == {}

(* earlier_twin: found where the create was sent before a rename.          *)
EarlierTwin(w) == UNION {AdoptableTwin(w, n) : n \in row[F(w)].to \ {job[w].name}}

(* The node found is the create's.  Its bytes are the create's blob, or    *)
(* the blob is still owed.                                                 *)
AdoptTwin(w, r) ==
  job' = [job EXCEPT ![w].node = r, ![w].seen = node[r].name,
            ![w].landed = IF node[r].body = job[w].blob THEN job[w].blob ELSE Empty,
            ![w].sent = node[r].name]

CreateLook(w) ==
  /\ pc[w] = "twin"
  /\ IF \/ WithdrawnNamed(job[w].name)
        \/ \E n \in row[F(w)].to \ {job[w].name} : CannotCompare(w, n)
       THEN Goto(w, "fail") /\ UNCHANGED job
       ELSE IF EarlierTwin(w) # {}
              THEN \E r \in EarlierTwin(w) : AdoptTwin(w, r) /\ Goto(w, "retire")
              ELSE Goto(w, "note") /\ UNCHANGED job
  /\ UNCHANGED <<dbVars, treeVars, callVars, sweepVars, driveVars, toldVars, boundVars>>

SendName(w) == IF job[w].stage = "alt" THEN ConflictName(F(w)) ELSE job[w].name

(* note_create_target, note_create_sent: where and what is about to be     *)
(* sent.  A blob a newer write has discarded fails the attempt.            *)
CreateNote(w) ==
  /\ pc[w] = "note"
  /\ LET f == F(w) IN
     /\ row' = [row EXCEPT ![f].to = @ \cup {SendName(w)},
                  ![f].first = IF row[f].to = {} THEN ncrash ELSE @,
                  ![f].sha = IF job[w].blob \in staged THEN @ \cup {job[w].blob} ELSE @]
     /\ Goto(w, IF job[w].blob \in staged \cup {Empty} THEN "send" ELSE "fail")
  /\ UNCHANGED <<ren, uid, listed, staged, treeVars, callVars, job, sweepVars, driveVars,
                 toldVars, boundVars>>

(* What follows an answer that the name is taken: a create looks whether   *)
(* the holder is its own, then whether a queued change is to free it,      *)
(* sends again, and then sends under a conflict name.                      *)
AfterTaken(w) ==
  /\ Goto(w, CASE job[w].stage = "again" -> IF job[w].kind = "create" THEN "note" ELSE "send"
               [] OTHER -> IF job[w].kind = "create" THEN "clash" ELSE "held")
  /\ job' = [job EXCEPT ![w].stage = IF @ = "again" THEN "alt" ELSE @]

(* The call itself: create_drained_node, or rename_remote of the landed    *)
(* node.  A lost answer fails the attempt after Drive did it.              *)
Applied(w) ==
  IF job[w].kind = "create"
    THEN /\ nnode < MaxNode
         /\ node' = Made(SendName(w), job[w].blob, F(w))
         /\ nnode' = nnode + 1
    ELSE /\ node' = [node EXCEPT ![job[w].node].name = SendName(w)]
         /\ UNCHANGED nnode

(* drain_rename reads the node first: one that is trashed has nothing to   *)
(* rename, and the op is done with.                                        *)
Renameless(w) == job[w].kind = "rename" /\ job[w].stage = "first" /\ node[job[w].node].trashed

RenameGone(w) ==
  /\ pc[w] = "send" /\ Renameless(w)
  /\ Goto(w, "retire")
  /\ UNCHANGED <<dbVars, treeVars, callVars, job, sweepVars, driveVars, toldVars, boundVars>>

Send(w) ==
  /\ pc[w] = "send" /\ ~Renameless(w)
  /\ \/ /\ Taken(SendName(w), job[w].node)
        /\ AfterTaken(w)
        /\ UNCHANGED <<driveVars, boundVars>>
     \/ /\ ~Taken(SendName(w), job[w].node)
        /\ Applied(w)
        /\ \/ /\ job' = [job EXCEPT ![w].seen = SendName(w), ![w].landed = job[w].blob,
                           ![w].node = IF job[w].kind = "create" THEN nnode + 1 ELSE @]
              /\ Goto(w, "retire")
              /\ UNCHANGED boundVars
           \/ Fault("answer") /\ Goto(w, "fail") /\ UNCHANGED job
     \/ /\ Fault("send")
        /\ Goto(w, "fail")
        /\ UNCHANGED <<job, driveVars>>
  /\ UNCHANGED <<dbVars, treeVars, callVars, sweepVars, toldVars>>

(* The name is taken: by the node an unanswered attempt made?              *)
CreateClash(w) ==
  /\ pc[w] = "clash"
  /\ IF CannotCompare(w, job[w].name)
       THEN Goto(w, "fail") /\ UNCHANGED job
       ELSE IF AdoptableTwin(w, job[w].name) # {}
              THEN \E r \in AdoptableTwin(w, job[w].name) : AdoptTwin(w, r) /\ Goto(w, "retire")
              ELSE Goto(w, "held") /\ UNCHANGED job
  /\ UNCHANGED <<dbVars, treeVars, callVars, sweepVars, driveVars, toldVars, boundVars>>

(* name_is_held: a queued trash frees the name, or, for as many attempts   *)
(* as are allowed, a rename away from it or another create sent under it.  *)
NameIsHeld(w) ==
  \/ \E f \in Files : row[f].kind = "trash" /\ row[f].name = job[w].name
  \/ /\ job[w].tries < HoldAttempts
     /\ \/ Creating(w, job[w].name)
        \/ \E f \in Files : \E i \in 1 .. Len(ren[f]) :
             ren[f][i].orig = job[w].name /\ ren[f][i].name # job[w].name

CheckHeld(w) ==
  /\ pc[w] = "held"
  /\ IF NameIsHeld(w)
       THEN Goto(w, "fail") /\ UNCHANGED job
       ELSE /\ job' = [job EXCEPT ![w].stage = "again"]
            /\ Goto(w, IF job[w].kind = "create" THEN "note" ELSE "send")
  /\ UNCHANGED <<dbVars, treeVars, callVars, sweepVars, driveVars, toldVars, boundVars>>

(* record_attempt_failure and release_claim: the attempt is counted if the *)
(* op is still what was attempted; a rename with a newer one behind goes.  *)
Fail(w) ==
  /\ pc[w] = "fail"
  /\ LET f == F(w) IN
     \/ /\ job[w].kind # "rename"
        /\ row' = IF row[f].owner # w THEN row
                  ELSE [row EXCEPT ![f].owner = NoOne,
                          ![f].tries = IF row[f].kind = job[w].kind THEN Grown(@) ELSE @]
        /\ UNCHANGED ren
     \/ /\ job[w].kind = "rename"
        /\ ren' = IF ren[f] = <<>> \/ ren[f][1].owner # w THEN ren
                  ELSE IF Len(ren[f]) > 1 THEN [ren EXCEPT ![f] = Tail(@)]
                  ELSE [ren EXCEPT ![f][1].owner = NoOne, ![f][1].tries = Grown(@)]
        /\ UNCHANGED row
  /\ Goto(w, "idle")
  /\ job' = [job EXCEPT ![w] = NoJob]
  /\ UNCHANGED <<uid, listed, staged, treeVars, callVars, sweepVars, driveVars, toldVars,
                 boundVars>>

(* Mutant: the row goes whatever a write attached to it meanwhile.         *)
RetiredWhole(w) == NoRow

(* finish_create: a blob attached since the upload was read goes on as a   *)
(* revision of the real node.                                              *)
Retired(w) ==
  LET f == F(w) IN
  IF row[f].blob # Empty /\ row[f].blob # job[w].landed
    THEN [NoRow EXCEPT !.kind = "revision", !.owner = w, !.blob = row[f].blob,
                       !.at = job[w].node]
    ELSE NoRow

(* finish_create: a rename made on the wire is queued for the real node.   *)
RenameOwed(w) ==
  LET f == F(w) IN
  IF row[f].name # job[w].sent
    THEN <<[name |-> row[f].name, orig |-> job[w].seen, owner |-> NoOne, tries |-> 0]>>
    ELSE <<>>

(* retire_create, under the pending lock: a create deleted meanwhile is    *)
(* withdrawn and its trash, still claimed, goes out now.                   *)
CreateRetire(w) ==
  /\ pc[w] = "retire" /\ job[w].kind = "create"
  /\ LET f == F(w)  r == job[w].node IN
     IF row[f].kind = "create"
       THEN /\ row' = [row EXCEPT ![f] = Retired(w)]
            /\ ren' = [ren EXCEPT ![f] = RenameOwed(w)]
            /\ uid' = [uid EXCEPT ![f] = r]
            /\ Goto(w, "repoint")
            /\ UNCHANGED hidden
       ELSE /\ row' = [row EXCEPT ![f] = IF row[f].kind = "trash"
                         THEN [row[f] EXCEPT !.at = r, !.name = job[w].seen]
                         ELSE [NoRow EXCEPT !.kind = "trash", !.owner = w, !.at = r,
                                            !.name = job[w].seen]]
            /\ hidden' = hidden \cup {r}
            /\ Goto(w, "trash")
            /\ UNCHANGED <<ren, uid>>
  /\ UNCHANGED <<listed, staged, place, treeUid, open, unadopted, callVars, job, sweepVars,
                 driveVars, toldVars, boundVars>>

(* The tree's entry is repointed at the real uid.                          *)
Repoint(w) ==
  /\ pc[w] = "repoint"
  /\ treeUid' = IF place[F(w)] = NoName THEN treeUid
                ELSE [treeUid EXCEPT ![F(w)] = job[w].node]
  /\ Goto(w, "ask")
  /\ UNCHANGED <<dbVars, place, open, hidden, unadopted, callVars, job, sweepVars, driveVars,
                 toldVars, boundVars>>

(* adopt_real_uid: is a rename queued?                                     *)
AdoptAsk(w) ==
  /\ pc[w] = "ask"
  /\ job' = [job EXCEPT ![w].renaming = ren[F(w)] # <<>>]
  /\ Goto(w, "read")
  /\ UNCHANGED <<dbVars, treeVars, callVars, sweepVars, driveVars, toldVars, boundVars>>

(* What the attempt goes on with once the node is adopted.                 *)
Onward(w) == CASE job[w].kind = "create" -> "discard"
               [] job[w].kind = "revision" -> "revise"
               [] job[w].kind = "rename" -> "send"
               [] job[w].kind = "trash" -> "trash"

(* adopt_real_uid reads the node back; a create that cannot is adopted     *)
(* later, any other op fails.                                              *)
AdoptRead(w) ==
  /\ pc[w] = "read"
  /\ \/ /\ job' = [job EXCEPT ![w].seen = node[job[w].node].name]
        /\ Goto(w, "place")
        /\ UNCHANGED <<unadopted, boundVars>>
     \/ /\ Fault("readback")
        /\ unadopted' = IF job[w].kind = "create" THEN unadopted \cup {F(w)} ELSE unadopted
        /\ Goto(w, IF job[w].kind = "create" THEN "discard" ELSE "fail")
        /\ UNCHANGED job
  /\ UNCHANGED <<dbVars, place, treeUid, open, hidden, callVars, sweepVars, driveVars,
                 toldVars>>

(* Mutant: whether a rename is queued is asked before the read-back only.  *)
AskedBefore(w) == job[w].renaming

(* adopt_real_uid asks again under the tree's lock.                        *)
StillRenaming(w) == job[w].renaming \/ ren[F(w)] # <<>>

(* adopt_real_uid: the tree takes the uid, and Drive's name unless a       *)
(* rename is queued.                                                       *)
AdoptPlace(w) ==
  /\ pc[w] = "place"
  /\ LET f == F(w) IN
     IF place[f] = NoName
       THEN UNCHANGED <<place, treeUid>>
       ELSE /\ treeUid' = [treeUid EXCEPT ![f] = job[w].node]
            /\ place' = IF StillRenaming(w) THEN place ELSE [place EXCEPT ![f] = job[w].seen]
  /\ unadopted' = unadopted \ {F(w)}
  /\ Goto(w, Onward(w))
  /\ UNCHANGED <<dbVars, open, hidden, callVars, job, sweepVars, driveVars, toldVars,
                 boundVars>>

Idle(w) == Goto(w, "idle") /\ job' = [job EXCEPT ![w] = NoJob]

Unowned(f, w) == IF row[f].owner = w THEN [row EXCEPT ![f].owner = NoOne] ELSE row

(* The uploaded blob is done with and the claim is given back.             *)
CreateEnd(w) ==
  /\ pc[w] = "discard"
  /\ staged' = staged \ {job[w].landed}
  /\ row' = Unowned(F(w), w)
  /\ Idle(w)
  /\ UNCHANGED <<ren, uid, listed, treeVars, callVars, sweepVars, driveVars, toldVars,
                 boundVars>>

(* drain_revision, in one step: the node gets the bytes, unless a delete   *)
(* or a newer write has taken the row.                                     *)
Revise(w) ==
  /\ pc[w] = "revise"
  /\ LET f == F(w) IN
     IF row[f].owner = w
       THEN /\ node' = [node EXCEPT ![job[w].node].body = job[w].blob]
            /\ row' = [row EXCEPT ![f] = NoRow]
            /\ staged' = staged \ {job[w].blob}
       ELSE UNCHANGED <<node, row, staged>>
  /\ Idle(w)
  /\ UNCHANGED <<ren, uid, listed, treeVars, callVars, sweepVars, nnode, toldVars, boundVars>>

(* drain_rename retires its row.                                           *)
RenameRetire(w) ==
  /\ pc[w] = "retire" /\ job[w].kind = "rename"
  /\ LET f == F(w) IN
     /\ ren' = IF ren[f] # <<>> /\ ren[f][1].owner = w THEN [ren EXCEPT ![f] = Tail(@)] ELSE ren
     /\ place' = IF job[w].stage = "alt" /\ place[f] # NoName /\ treeUid[f] = job[w].node
                   THEN [place EXCEPT ![f] = ConflictName(f)] ELSE place
  /\ Idle(w)
  /\ UNCHANGED <<row, uid, listed, staged, treeUid, open, hidden, unadopted, callVars,
                 sweepVars, driveVars, toldVars, boundVars>>

(* Mutant: the trash of a withdrawn create looks under its last name only. *)
LastNameOnly(w) == Twin(w, row[F(w)].name)

(* withdrawn_twin: under the create's name, or one it was sent with.  A    *)
(* node with a change of ours queued is not it.                            *)
WithdrawnTwin(w) ==
  {r \in UNION {Twin(w, n) : n \in row[F(w)].to \cup {row[F(w)].name}} :
     \A f \in Files : uid[f] = r => ren[f] = <<>> /\ row[f].kind = "none"}

(* Drive has made the node for a create that has not put it into the tree. *)
Landing(r) ==
  \E v \in Workers :
    pc[v] \in {"retire", "repoint"} /\ job[v].kind = "create" /\ job[v].node = r

(* drain_trash of a withdrawn create.  Nothing keeps it from a node that   *)
(* is landing.  One it takes is noted.                                     *)
TrashFind(w) ==
  /\ pc[w] = "find"
  /\ IF WithdrawnTwin(w) = {}
       THEN Goto(w, "trashed") /\ UNCHANGED <<job, hidden, crossed>>
       ELSE \E r \in WithdrawnTwin(w) :
              /\ job' = [job EXCEPT ![w].node = r]
              /\ hidden' = hidden \cup {r}
              /\ crossed' = IF Landing(r) THEN crossed \cup {"trash"} ELSE crossed
              /\ Goto(w, "trash")
  /\ UNCHANGED <<dbVars, place, treeUid, open, unadopted, callVars, sweepVars, driveVars,
                 toldVars, nblob, ncall, nforeign, nfault, ncrash>>

TrashSend(w) ==
  /\ pc[w] = "trash"
  /\ \/ /\ node' = [node EXCEPT ![job[w].node].trashed = TRUE]
        /\ Goto(w, "trashed") /\ UNCHANGED boundVars
     \/ /\ Fault(IF row[F(w)].at = Local THEN "trash twin" ELSE "trash")
        /\ Goto(w, "fail")
        /\ UNCHANGED node
  /\ UNCHANGED <<dbVars, treeVars, callVars, job, sweepVars, nnode, toldVars>>

(* retire_trash_op: the row goes, with the blob of the create it withdrew. *)
TrashRetire(w) ==
  /\ pc[w] = "trashed"
  /\ LET f == F(w) IN
     /\ row' = [row EXCEPT ![f] = NoRow]
     /\ staged' = staged \ {row[f].blob}
     /\ listed' = listed \ {f}
  /\ Idle(w)
  /\ UNCHANGED <<ren, uid, treeVars, callVars, sweepVars, driveVars, toldVars, boundVars>>

(***************************************************************************)
(* A crash and the next start: claims are cleared, calls and attempts are  *)
(* gone, the tree is what is walked to again.                              *)
(***************************************************************************)
Crash ==
  /\ ncrash < MaxCrash
  /\ ncrash' = ncrash + 1
  /\ row' = [f \in Files |-> [row[f] EXCEPT !.owner = NoOne]]
  /\ ren' = [f \in Files |-> [i \in 1 .. Len(ren[f]) |-> [ren[f][i] EXCEPT !.owner = NoOne]]]
  /\ pc' = [w \in Workers |-> "idle"] /\ job' = [w \in Workers |-> NoJob]
  /\ treeUid' = [f \in Files |-> IF WalkFirst THEN uid[f] ELSE Local]
  /\ open' = {} /\ unadopted' = {}
  /\ hidden' = {row[f].at : f \in {g \in Files : row[g].kind = "trash"}} \ {Local}
  /\ verdict' = [f \in Files |-> "none"]
  /\ call' = [f \in Files |-> CASE call[f] \in {"minting", "dropping"} -> "gone"
                                [] call[f] = "renaming" -> "idle" [] OTHER -> call[f]]
  /\ place' = [f \in Files |-> IF call[f] = "dropping" THEN NoName ELSE place[f]]
  /\ target' = [f \in Files |-> NoName]
  /\ torn' = torn \cup {f \in Files : call[f] \in {"minting", "renaming", "dropping"}}
  /\ UNCHANGED <<uid, listed, staged, age, driveVars, want, content, deleted, named, nblob, ncall,
                 nforeign, nfault, crossed>>

(* The file is walked to: the tree has the uid of its row.                 *)
Walk(f) ==
  /\ place[f] # NoName /\ treeUid[f] # uid[f]
  /\ ncrash > 0 /\ f \notin open
  /\ treeUid' = [treeUid EXCEPT ![f] = uid[f]]
  /\ UNCHANGED <<dbVars, place, open, hidden, unadopted, callVars, drainVars, sweepVars,
                 driveVars, toldVars, boundVars>>

(***************************************************************************)
(* Specification                                                           *)
(***************************************************************************)
UserNext == \E f \in Files :
  \/ \E n \in Names : Mint(f, n) \/ MintUnanswered(f, n) \/ RenameStart(f, n)
  \/ Intern(f) \/ Open(f) \/ Close(f) \/ Release(f) \/ RenameEnd(f)
  \/ DeleteLocal(f) \/ DeleteLanded(f) \/ DeleteReal(f) \/ Walk(f)

SweepNext == \E f \in Files : Grow(f) \/ SweepJudge(f) \/ SweepAct(f)

Step(w) == \/ CreateLook(w) \/ CreateNote(w) \/ RenameGone(w) \/ Send(w) \/ CreateClash(w) \/ CheckHeld(w)
           \/ Fail(w) \/ CreateRetire(w) \/ Repoint(w) \/ AdoptAsk(w) \/ AdoptRead(w)
           \/ AdoptPlace(w) \/ CreateEnd(w) \/ Revise(w) \/ RenameRetire(w)
           \/ TrashFind(w) \/ TrashSend(w) \/ TrashRetire(w)

Next ==
  \/ UserNext
  \/ SweepNext
  \/ \E w \in Workers : Step(w)
  \/ \E w \in Workers, f \in Files : ClaimRow(w, f) \/ ClaimRename(w, f)
  \/ \E n \in Names : ForeignCreate(n)
  \/ Crash

Spec == Init /\ [][Next]_vars

(* The queue keeps trying: a worker that has an op goes on with it, and an *)
(* op that waits is claimed in the end whatever else is queued (its turn   *)
(* comes when the others back off).  Calls and the sweep go on too.        *)
Fairness ==
  /\ \A w \in Workers : WF_vars(Step(w))
  /\ \A f \in Files :
       /\ SF_vars(\E w \in Workers : ClaimRow(w, f))
       /\ SF_vars(\E w \in Workers : ClaimRename(w, f))
       /\ WF_vars(Intern(f) \/ RenameEnd(f) \/ DeleteLanded(f))
       /\ WF_vars(Grow(f)) /\ WF_vars(SweepJudge(f)) /\ WF_vars(SweepAct(f))

FairSpec == Spec /\ Fairness

(***************************************************************************)
(* Properties                                                              *)
(***************************************************************************)
(* The worker that is at the ops of f.                                     *)
At(f) == {w \in Workers : pc[w] # "idle" /\ job[w].file = f}

MadeFor(f) == {r \in Live : node[r].by = f}

SentInline == {node[r].by : r \in {x \in 1 .. nnode : node[x].inline}}

Settled(f) == row[f].kind = "none" /\ ren[f] = <<>> /\ At(f) = {}

(* No op of another worker came between the landing of a create and the    *)
(* tree: nobody sent the rename finish_create had queued, and no trash     *)
(* took the new node.  The code has no guard against either                *)
(* (drain.rs:1632, 1056), and what then follows is what the four           *)
(* properties below except.                                                *)
Uncrossed == crossed = {}

(* drain.rs:1466: two files never end up on one node, whose bytes and name *)
(* would be those of one of them only (adoptable_twin, Core::creating).    *)
NodesShared == \E f, g \in {h \in Files : call[h] = "idle" /\ uid[h] # Local} : f # g /\ uid[f] = uid[g]

OneFilePerNode == Uncrossed => ~NodesShared

(* The same without the exception.                                         *)
NeverShared == ~NodesShared

(* Once every op is done, Drive has no node made here but those of the     *)
(* files the user has: none of a deleted file, and no second one of a file *)
(* whose create was sent again after its answer was lost, under whatever   *)
(* names and across restarts, unless one cut a call short (drop_doomed_ops,*)
(* finish_create, earlier_twin, withdrawn_twin).  Not so for a file whose  *)
(* first create went inline and lost its answer: the queue does not know   *)
(* that it was sent.                                                       *)
NothingLeftBehind ==
  torn = {} /\ (\A f \in Files : Settled(f) /\ call[f] \in {"none", "idle", "gone"}) =>
    \A r \in Live : node[r].by \in Files \ SentInline => \E f \in Files \ deleted : uid[f] = r

(* Another device's file is neither deleted nor taken for ours             *)
(* (adoptable, withdrawn_twin_in).                                         *)
TheirsAlone ==
  /\ \A r \in 1 .. nnode : node[r].trashed => node[r].by # Other
  /\ \A f \in Files : uid[f] # Local => node[uid[f]].by # Other

(* Nothing that is not to be deleted is: no node another device made, and  *)
(* none of a file the user has (drain.rs:1056).                            *)
NoneTaken == \A f \in Files : uid[f] # Local /\ call[f] = "idle" => ~node[uid[f]].trashed

OnlyOurs == TheirsAlone /\ (Uncrossed => NoneTaken)

(* The same without the exception.                                         *)
OnlyOursEver == TheirsAlone /\ NoneTaken

(* What a file holds when its handle is closed reaches Drive or is still   *)
(* queued with its blob, whenever the write came: before the create, while *)
(* it was on the wire, or after (attach_blob_to_create, finish_create).    *)
WritesHeld ==
  \A f \in Files : content[f] # Empty /\ call[f] = "idle" =>
    \/ row[f].kind \in {"create", "revision"} /\ row[f].blob = content[f] /\ content[f] \in staged
    \/ uid[f] # Local /\ node[uid[f]].body = content[f]

WritesKept == Uncrossed => WritesHeld

(* A rename is never lost either: the create still has it, or a rename is  *)
(* queued, or Drive has it (rewrite_op_target, finish_create).             *)
NamesHeld ==
  \A f \in Files : call[f] = "idle" /\ f \notin torn =>
    IF row[f].kind = "create" THEN row[f].name = want[f]
    ELSE IF ren[f] # <<>> THEN ren[f][Len(ren[f])].name = want[f]
    ELSE uid[f] # Local /\ node[uid[f]].name \in {want[f], ConflictName(f)}

NamesKept == Uncrossed => NamesHeld

(* Once its ops are done the tree shows the file under the name it has on  *)
(* Drive (adopt_real_uid).  Only about a conflict name may the tree be     *)
(* wrong, until the event feed tells: a rename in progress hides it, or it *)
(* hides a newer rename (adopt_drained_name).                              *)
TreeFollows ==
  \A f \in Files :
    call[f] = "idle" /\ Settled(f) /\ f \notin unadopted \cup torn =>
      node[uid[f]].name = place[f] \/ ConflictName(f) \in {node[uid[f]].name, place[f]}

(* A file that never had a name of its own but only a transient one is not *)
(* on Drive before the sweep gives it up for one that keeps it             *)
(* (attach_blob_to_create keeps the park, park_verdict).                   *)
NoScratchUploaded == \A f \in Files \ named : MadeFor(f) # {} => age[f] = "expired"

(* Every create is settled in the end, except one held back while its file *)
(* is open.                                                                *)
EveryCreateSettles ==
  \A f \in Files : row[f].kind = "create" ~> row[f].kind # "create" \/ f \in open
====
