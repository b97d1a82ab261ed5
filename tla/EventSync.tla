----------------------------- MODULE EventSync -----------------------------
(***************************************************************************)
(* The remote event feed of the daemon and the folder listings it keeps    *)
(* true: run_event_sync and apply_event of background.rs, the listing of   *)
(* a folder by list_children, the echo bookkeeping of self_changes, and    *)
(* the restart that takes listings back from the database.                 *)
(*                                                                         *)
(* One folder of the user's own volume is modelled, with the files that    *)
(* may be in it; other devices may move them to other folders and back.  A *)
(* file has a revision number that stands for everything an event may be   *)
(* about: content, name, times, folder.  Files are changed by other        *)
(* devices and by the drain of this daemon, whose steps are reduced to     *)
(* queueing, sealing, reading back and placing a revision.                 *)
(***************************************************************************)
EXTENDS Integers, Sequences, FiniteSets

CONSTANTS
    Files,      \* the files that may be in the folder
    Present,    \* the ones that are when the daemon starts
    MaxEvents,  \* bound: changes made on Drive
    MaxOwn,     \* bound: revisions this daemon queues
    Faults,     \* what may go wrong, see Fault
    MaxFault    \* bound: how often

FaultKinds == {"sdk", "ack", "duplicate", "swap", "expire", "crash"}

ASSUME EventSyncAssumption ==
    /\ MaxEvents \in Nat /\ MaxOwn \in Nat /\ MaxFault \in Nat
    /\ Faults \subseteq FaultKinds /\ Present \subseteq Files

VARIABLES
    drive,    \* what Drive has: is the file in the folder, at which revision
    log,      \* every change of the volume, in order; an event's id is its place
    cursor,   \* run_event_sync's cursor
    saved,    \* the cursor in the database
    batch,    \* ids of the polled events still to be applied
    phase,    \* what the event task does
    recent,   \* RecentEvents: ids of node updates met in this run
    dirty,    \* DirtyParents of the batch: changed by others, files of our changes
    listing,  \* the resident listing of the folder, if any
    tree,     \* the revision the resident entry of a file has, 0 for no entry
    rows,     \* the revision its row has, 0 for no row in this folder
    listed,   \* the folder's `listed` flag in the database
    cache,    \* the revision whose bytes the content cache has, 0 for none
    echoes,   \* self_changes: echoes the feed still owes
    own,      \* the drain of a revision of the file
    lister,   \* a list_children under way
    used,     \* own writes and faults so far
    gaps,     \* how the listing may have missed a change, since it was last read
    foreign   \* files whose echoes were forgotten or others changed

driveVars == <<drive, log>>
feedVars  == <<cursor, saved, batch, phase, recent, dirty>>
treeVars  == <<listing, tree, rows, listed, lister>>
ownVars   == <<cache, echoes, own>>
ghosts    == <<used, gaps, foreign>>
vars      == <<driveVars, feedVars, treeVars, ownVars, ghosts>>

(***************************************************************************)
(* Drive and its event log (external)                                      *)
(***************************************************************************)

Revs == 0 .. MaxEvents + 1

\* The revision a change made now gets; the first event's is 2.
NextRev == Len(log) + 2

\* An event of the feed: NodeUpdated that names this folder, NodeUpdated that
\* names another or none (of a file that was in this one), NodeUpdated with
\* is_trashed, NodeDeleted, or ContinuityLost.  An event names the folder the
\* file has then, not the one it had.  Who made the change is not in the feed;
\* mine is there for the properties only.
Event ==
    [kind : {"updated", "moved", "trashed", "deleted"}, file : Files, mine : BOOLEAN]
        \cup [kind : {"lost"}]

NodeUpdates == {"updated", "moved", "trashed"}

\* What a listing asked of Drive now would show.
Shown == [f \in Files |-> IF drive[f].in THEN drive[f].rev ELSE 0]

Deleted(f) == \E i \in 1 .. Len(log) : log[i].kind = "deleted" /\ log[i].file = f

\* The id of the last change of a file, 0 for none: revisions are numbered by
\* the log.
Last(f) == drive[f].rev - 1

\* The file is in another folder.
Elsewhere(f) == Last(f) # 0 /\ log[Last(f)].kind = "moved"

Exists(f) == drive[f].in \/ Elsewhere(f)

\* A deleted file does not come back.
Change(f, in, kind, mine) ==
    /\ Len(log) < MaxEvents /\ ~Deleted(f)
    /\ drive' = [drive EXCEPT ![f] = [in |-> in, rev |-> NextRev]]
    /\ log' = Append(log, [kind |-> kind, file |-> f, mine |-> mine])

\* Another device makes, restores, writes, renames, moves, trashes or deletes a
\* file.
OtherDevice ==
    /\ \E f \in Files :
          /\ \/ Change(f, TRUE, "updated", FALSE)
             \/ Exists(f) /\ Change(f, FALSE, "moved", FALSE)
             \/ Exists(f) /\ Change(f, FALSE, "trashed", FALSE)
             \/ Exists(f) /\ Change(f, FALSE, "deleted", FALSE)
          /\ foreign' = foreign \cup {f}
    /\ UNCHANGED <<feedVars, treeVars, ownVars, used, gaps>>

\* Drive cannot say what changed since the cursor.
ContinuityLost ==
    /\ Len(log) < MaxEvents
    /\ log' = Append(log, [kind |-> "lost"])
    /\ UNCHANGED <<drive, feedVars, treeVars, ownVars, ghosts>>

(***************************************************************************)
(* Initial state: a mount that listed the folder and has its cursor        *)
(***************************************************************************)

NoDirty  == [foreign |-> FALSE, ours |-> {}]
NotListed == [resident |-> FALSE, files |-> {}]
Idle     == [at |-> "idle"]

Init ==
    /\ drive = [f \in Files |-> [in |-> f \in Present, rev |-> 1]]
    /\ log = <<>> /\ cursor = 0 /\ saved = 0 /\ batch = <<>> /\ phase = "idle"
    /\ recent = {} /\ dirty = NoDirty
    /\ listing = [resident |-> TRUE, files |-> Present] /\ listed = TRUE
    /\ tree = [f \in Files |-> IF f \in Present THEN 1 ELSE 0] /\ rows = tree
    /\ cache = [f \in Files |-> 0] /\ echoes = cache
    /\ own = [f \in Files |-> Idle]
    /\ lister = Idle
    /\ used = [own |-> 0, fault |-> 0]
    /\ gaps = {} /\ foreign = {}

Fault(kind) ==
    /\ kind \in Faults /\ used.fault < MaxFault
    /\ used' = [used EXCEPT !.fault = @ + 1]

(***************************************************************************)
(* Listing the folder: list_children                                       *)
(***************************************************************************)

Pending(f) == own[f] # Idle

\* The listing is not resident, nor has the database a complete one (both go
\* together, see Drop): Drive is asked, without the lock.
ListAsk ==
    /\ ~listing.resident /\ lister = Idle
    /\ lister' = [at |-> "asked", seen |-> Shown, overtaken |-> FALSE]
    /\ UNCHANGED <<driveVars, feedVars, listing, tree, rows, listed, ownVars, ghosts>>

\* What Drive shows is written over what was known.  A row of a file it does
\* not show any more stays, and with it a gap: the next mount lists it.
Interned(seen, had) == [f \in Files |-> IF seen[f] # 0 THEN seen[f] ELSE had[f]]

ListPublish ==
    LET seen == lister.seen
    IN  /\ lister # Idle
        /\ ~listing.resident
        /\ listing' = [resident |-> TRUE, files |-> {f \in Files : seen[f] # 0}]
        /\ tree' = Interned(seen, tree) /\ rows' = Interned(seen, rows)
        /\ listed' = TRUE
        /\ lister' = Idle
        /\ gaps' = IF lister.overtaken THEN gaps \cup {"overtaken"}
                   ELSE IF \E f \in Files : Pending(f) \/ (rows[f] # 0 /\ seen[f] = 0) THEN gaps
                   ELSE {}
        /\ UNCHANGED <<driveVars, feedVars, ownVars, used, foreign>>

(***************************************************************************)
(* The event task                                                          *)
(***************************************************************************)

\* The feed answers with a stretch of the log after the cursor, with an event
\* twice or two neighbours swapped if it is untidy.
InOrder(k) == [i \in 1 .. k - cursor |-> cursor + i]
Twice(k, i) == [j \in 1 .. k - cursor + 1 |-> IF j <= i THEN cursor + j ELSE cursor + j - 1]
Swapped(k, i) == [j \in 1 .. k - cursor |->
                     cursor + (CASE j = i -> i + 1 [] j = i + 1 -> i [] OTHER -> j)]

Poll ==
    /\ phase = "idle" /\ cursor < Len(log)
    /\ \E k \in cursor + 1 .. Len(log) :
          \/ batch' = InOrder(k) /\ UNCHANGED used
          \/ /\ Fault("duplicate")
             /\ \E i \in 1 .. k - cursor : batch' = Twice(k, i)
          \/ /\ Fault("swap")
             /\ \E i \in 1 .. k - cursor - 1 : batch' = Swapped(k, i)
    /\ phase' = "applying"
    /\ dirty' = NoDirty
    /\ UNCHANGED <<driveVars, cursor, saved, recent, treeVars, ownVars, gaps, foreign>>

\* RecentEvents::repeat records the id of a node update when it is met.
NeverRepeat(id) == FALSE
Repeat(id) == log[id].kind \in NodeUpdates /\ id \in recent
Recorded(id) == IF log[id].kind \in NodeUpdates THEN recent \cup {id} ELSE recent

SkipInPlace ==
    /\ phase = "applying" /\ batch # <<>> /\ Repeat(Head(batch))
    /\ batch' = Tail(batch)
    /\ UNCHANGED <<driveVars, cursor, saved, phase, recent, dirty, treeVars, ownVars, ghosts>>
SkipRepeat ==
    /\ phase = "applying" /\ batch # <<>> /\ Repeat(Head(batch))
    /\ cursor' = Head(batch)
    /\ batch' = Tail(batch)
    /\ UNCHANGED <<driveVars, saved, phase, recent, dirty, treeVars, ownVars, ghosts>>

\* The listing goes and the folder is marked as not listed, by invalidate_listing.
DropResident == listing' = NotListed /\ UNCHANGED listed
Drop == listing' = NotListed /\ listed' = FALSE
KeepListing == UNCHANGED <<listing, listed>>

Overtaken == IF lister = Idle THEN Idle ELSE [lister EXCEPT !.overtaken = TRUE]

\* State::forget: the entry, its place in the listing and its row.
Forget(f) ==
    /\ listing' = [listing EXCEPT !.files = @ \ {f}]
    /\ tree' = [tree EXCEPT ![f] = 0] /\ rows' = [rows EXCEPT ![f] = 0]
    /\ UNCHANGED listed

\* take_self_change: one echo is claimed, also for a trash.
Claimed(f) == [echoes EXCEPT ![f] = IF @ > 0 THEN @ - 1 ELSE 0]

\* A change this daemon owes an upload for, or whose echo it expected, is its own.
Ours(e) == e.kind \in {"updated", "moved"} /\ (echoes[e.file] > 0 \/ Pending(e.file))

\* The claim by itself: the feed does not say whose change an event is.
TakenForOurs(e) == Ours(e) /\ ~e.mine

\* The bytes of a file the tree has go.
Evicted(f) == IF tree[f] # 0 THEN [cache EXCEPT ![f] = 0] ELSE cache

\* apply_event: of an update, the folder the event names is noted.
ApplyUpdate(e) ==
    /\ e.kind \in {"updated", "moved"}
    /\ echoes' = Claimed(e.file)
    /\ cache' = IF Ours(e) THEN cache ELSE Evicted(e.file)
    /\ dirty' = CASE e.kind = "moved" -> dirty
                  [] e.kind = "updated" /\ Ours(e) -> [dirty EXCEPT !.ours = @ \cup {e.file}]
                  [] OTHER -> [dirty EXCEPT !.foreign = TRUE]
    /\ KeepListing /\ UNCHANGED <<tree, rows>>

ApplyTrash(e) ==
    /\ e.kind = "trashed"
    /\ echoes' = Claimed(e.file)
    /\ Forget(e.file)
    /\ cache' = Evicted(e.file)
    /\ dirty' = [dirty EXCEPT !.foreign = TRUE]

ApplyDelete(e) ==
    /\ e.kind = "deleted"
    /\ Forget(e.file)
    /\ cache' = [cache EXCEPT ![e.file] = 0]
    /\ UNCHANGED <<echoes, dirty>>

ApplyLost(e) ==
    /\ e.kind = "lost"
    /\ IF listing.resident THEN Drop ELSE KeepListing
    /\ UNCHANGED <<tree, rows, cache, echoes, dirty>>

ApplyEvent(e) ==
    /\ ApplyUpdate(e) \/ ApplyTrash(e) \/ ApplyDelete(e) \/ ApplyLost(e)
    /\ lister' = Overtaken
    /\ UNCHANGED own

\* What is left of an untidy batch when it is given up, behind the cursor.
LeftBehind(ids, at) == \E i \in 1 .. Len(ids) : ids[i] < at /\ ids[i] \notin recent

Gap(name, cond) == IF cond THEN {name} ELSE {}

\* What applying an event leaves undone: another's change is taken for ours, or
\* the folder a file has left is not noted.
LeftUndone(e) ==
    Gap("claimed", e.kind = "updated" /\ TakenForOurs(e))
        \cup Gap("moved", e.kind = "moved" /\ tree[e.file] # 0)

\* One event is applied and acknowledged: the cursor follows in the database
\* and in memory.
Acknowledge(id) == saved' = id /\ cursor' = id

Apply ==
    LET id == Head(batch)
    IN  /\ phase = "applying" /\ batch # <<>> /\ ~Repeat(id)
        /\ recent' = Recorded(id)
        /\ ApplyEvent(log[id])
        /\ Acknowledge(id)
        /\ batch' = Tail(batch)
        /\ gaps' = gaps \cup LeftUndone(log[id])
        /\ UNCHANGED <<driveVars, phase, used, foreign>>

\* The event is applied, but the database does not take the cursor, or the
\* access downgrade of a lost continuity: the rest of the batch is given up.
AckFails ==
    LET id == Head(batch)
    IN  /\ phase = "applying" /\ batch # <<>> /\ ~Repeat(id)
        /\ Fault("ack")
        /\ recent' = Recorded(id)
        /\ ApplyEvent(log[id])
        /\ batch' = <<>>
        /\ gaps' = gaps \cup LeftUndone(log[id]) \cup Gap("reordered", LeftBehind(batch, cursor))
        /\ UNCHANGED <<driveVars, cursor, saved, phase, foreign>>

\* The SDK's caches could not be invalidated: the batch is given up before the
\* event is applied, but its id is recorded.
SdkFails ==
    LET id == Head(batch)
    IN  /\ phase = "applying" /\ batch # <<>> /\ ~Repeat(id)
        /\ Fault("sdk")
        /\ recent' = Recorded(id)
        /\ batch' = <<>>
        /\ gaps' = gaps \cup Gap("skipped", log[id].kind \in NodeUpdates)
                        \cup Gap("reordered", LeftBehind(batch, cursor))
        /\ lister' = Overtaken
        /\ UNCHANGED <<driveVars, cursor, saved, phase, dirty, listing, tree, rows, listed,
                       ownVars, foreign>>

\* listing_accounts_for every file of our own changes.
AccountsFor(fs) == ~listing.resident \/ fs \subseteq listing.files

\* flush_dirty_parents, when the batch is done or given up.
Flush ==
    /\ phase = "applying" /\ batch = <<>>
    /\ phase' = "idle"
    /\ dirty' = NoDirty
    /\ IF dirty.foreign \/ ~AccountsFor(dirty.ours)
       THEN Drop /\ lister' = Overtaken
       ELSE KeepListing /\ UNCHANGED lister
    /\ UNCHANGED <<driveVars, cursor, saved, batch, recent, tree, rows, ownVars, ghosts>>

(***************************************************************************)
(* Revisions this daemon uploads, as far as the feed is concerned          *)
(***************************************************************************)

Queue(f) ==
    /\ own[f] = Idle /\ tree[f] # 0 /\ used.own < MaxOwn
    /\ own' = [own EXCEPT ![f] = [at |-> "queued"]]
    /\ used' = [used EXCEPT !.own = @ + 1]
    /\ UNCHANGED <<driveVars, feedVars, treeVars, cache, echoes, gaps, foreign>>

\* Drive takes the revision wherever the file is, and logs it; the op is retired.
Seal(f) ==
    /\ own[f].at = "queued" /\ Exists(f)
    /\ Change(f, drive[f].in, IF drive[f].in THEN "updated" ELSE "moved", TRUE)
    /\ own' = [own EXCEPT ![f] = [at |-> "sealed", rev |-> NextRev]]
    /\ UNCHANGED <<feedVars, treeVars, cache, echoes, ghosts>>

\* The file is gone from Drive or another device's: the write lands as a copy,
\* and the listing that lacks the copy is dropped (keep_as_conflict_copy).
Divert(f) ==
    /\ own[f].at = "queued" /\ ~(drive[f].in /\ drive[f].rev = tree[f])
    /\ own' = [own EXCEPT ![f] = Idle]
    /\ cache' = [cache EXCEPT ![f] = 0]
    /\ foreign' = foreign \cup {f}
    /\ Drop /\ lister' = Overtaken
    /\ UNCHANGED <<driveVars, feedVars, tree, rows, echoes, used, gaps>>

\* refresh_after_upload reads the node back, caches the bytes under what it
\* read and only then expects the echo; a node that is gone by then is left
\* to the feed.  What it read names the folder the file has.
ReadBack(f) ==
    /\ own[f].at = "sealed"
    /\ IF Exists(f)
       THEN /\ own' = [own EXCEPT ![f] =
                         [at |-> "read", rev |-> drive[f].rev, here |-> drive[f].in]]
            /\ cache' = IF drive[f].rev = own[f].rev
                        THEN [cache EXCEPT ![f] = own[f].rev] ELSE cache
            /\ echoes' = [echoes EXCEPT ![f] = @ + 1]
       ELSE /\ own' = [own EXCEPT ![f] = Idle]
            /\ UNCHANGED <<cache, echoes>>
    /\ UNCHANGED <<driveVars, feedVars, treeVars, ghosts>>

\* release_pending and place_landed: the tree takes the node, if it still has
\* it, where it has it; its row goes to the folder that was read.
Place(f) ==
    /\ own[f].at = "read"
    /\ own' = [own EXCEPT ![f] = Idle]
    /\ IF tree[f] # 0
       THEN /\ tree' = [tree EXCEPT ![f] = own[f].rev]
            /\ rows' = [rows EXCEPT ![f] = IF own[f].here THEN own[f].rev ELSE 0]
       ELSE UNCHANGED <<tree, rows>>
    /\ lister' = Overtaken
    /\ UNCHANGED <<driveVars, feedVars, listing, listed, cache, echoes, ghosts>>

\* SELF_CHANGE_TTL_MS passes before the feed delivers the echoes.
Expire(f) ==
    /\ echoes[f] > 0 /\ Fault("expire")
    /\ echoes' = [echoes EXCEPT ![f] = 0]
    /\ foreign' = foreign \cup {f}
    /\ UNCHANGED <<driveVars, feedVars, treeVars, cache, own, gaps>>

(***************************************************************************)
(* Restart: hydrate                                                        *)
(***************************************************************************)

Hydrated == [resident |-> listed,
             files |-> IF listed THEN {f \in Files : rows[f] # 0} ELSE {}]

\* Everything in memory goes.  A revision that was not placed is queued again,
\* from its row or from the blob in staging.
Crash ==
    /\ Fault("crash")
    /\ cursor' = saved /\ batch' = <<>> /\ phase' = "idle" /\ recent' = {}
    /\ dirty' = NoDirty
    /\ listing' = Hydrated /\ tree' = rows /\ lister' = Idle
    /\ echoes' = [f \in Files |-> 0]
    /\ own' = [f \in Files |-> IF Pending(f) THEN [at |-> "queued"] ELSE Idle]
    /\ gaps' = gaps \cup Gap("unflushed", dirty # NoDirty)
                    \cup Gap("reordered", LeftBehind(batch, saved))
    /\ foreign' = foreign \cup {f \in Files : own[f].at \in {"sealed", "read"} \/ echoes[f] > 0}
                          \cup {log[id].file : id \in {i \in recent : i > saved}}
    /\ UNCHANGED <<driveVars, saved, rows, listed, cache>>

-----------------------------------------------------------------------------

EventTask == Poll \/ SkipRepeat \/ Apply \/ AckFails \/ SdkFails \/ Flush
Listing   == ListAsk \/ ListPublish
Drain     == \E f \in Files : Queue(f) \/ Seal(f) \/ Divert(f) \/ ReadBack(f) \/ Place(f) \/ Expire(f)

Next == OtherDevice \/ ContinuityLost \/ EventTask \/ Listing \/ Drain \/ Crash

Spec == Init /\ [][Next]_vars

\* The event task is a loop on a timer.
FairSpec ==
    /\ Spec
    /\ WF_vars(Poll) /\ WF_vars(SkipRepeat) /\ WF_vars(Apply) /\ WF_vars(Flush)

-----------------------------------------------------------------------------

OnDrive    == [in : BOOLEAN, rev : Revs \ {0}]
Dirty      == [foreign : BOOLEAN, ours : SUBSET Files]
Listings   == [resident : BOOLEAN, files : SUBSET Files]
OwnStates  == [at : {"idle", "queued"}] \cup [at : {"sealed"}, rev : Revs \ {0}]
                  \cup [at : {"read"}, rev : Revs \ {0}, here : BOOLEAN]
Asked      == [at : {"asked"}, seen : [Files -> Revs], overtaken : BOOLEAN]
Used       == [own : 0 .. MaxOwn, fault : 0 .. MaxFault]
GapNames   == {"overtaken", "skipped", "reordered", "unflushed", "claimed", "moved"}

TypeOK ==
    /\ drive \in [Files -> OnDrive]
    /\ log \in Seq(Event) /\ Len(log) <= MaxEvents
    /\ cursor \in 0 .. Len(log) /\ saved \in 0 .. Len(log)
    /\ batch \in Seq(1 .. Len(log))
    /\ phase \in {"idle", "applying"}
    /\ recent \subseteq 1 .. Len(log)
    /\ dirty \in Dirty
    /\ listing \in Listings
    /\ tree \in [Files -> Revs] /\ rows \in [Files -> Revs] /\ cache \in [Files -> Revs]
    /\ listed \in BOOLEAN
    /\ echoes \in [Files -> Nat]
    /\ own \in [Files -> OwnStates]
    /\ lister \in Asked \cup {Idle}
    /\ used \in Used
    /\ gaps \subseteq GapNames
    /\ foreign \subseteq Files
-----------------------------------------------------------------------------
(***************************************************************************)
(* Properties                                                              *)
(***************************************************************************)

CaughtUp == phase = "idle" /\ cursor = Len(log) /\ lister = Idle

\* The listing serves the file as Drive has it.  Cached bytes of another
\* revision than the entry's are not read.
ShowsDrive(f) ==
    /\ f \in listing.files <=> drive[f].in
    /\ f \in listing.files => tree[f] = drive[f].rev

Current == listing.resident => \A f \in Files : own[f] = Idle => ShowsDrive(f)

\* Whatever the batches, duplicates, swaps, failed acknowledgements, restarts
\* and uploads of our own in between, a daemon that has caught up with the feed
\* serves the folder as Drive has it, and so would the next mount.  The six
\* named gaps are the ways past it: an event skipped after the SDK failed, one
\* that was out of order in a batch given up, a batch not flushed before a
\* restart, a listing read while an event came, another's change taken for the
\* echo of ours, and a file moved to a folder the event names instead of this
\* one.  A listing read anew closes them, save for the row of a file that is
\* gone (run_event_sync, apply_event, flush_dirty_parents).
ListingCurrent == CaughtUp /\ gaps = {} => Current

\* A batch that is given up is retried: what failed is applied then
\* (run_event_sync: "retaining cursor for retry").
RetryApplies == CaughtUp /\ gaps \subseteq {"skipped"} => Current

\* The feed's echo of our own upload never costs the bytes just cached: they go
\* only when somebody else changed the file, or its echo was forgotten by a
\* restart or for its age (RecentEvents, self_changes; docs/BUGS.md B123).
OwnBytesKept ==
    [][\A f \in Files : cache[f] # 0 /\ cache'[f] = 0 => f \in foreign']_vars

\* An untidy feed is read to its end: replaying what lay past the cursor stops.
FeedIsRead == <>[](cursor = Len(log) /\ phase = "idle")

-----------------------------------------------------------------------------
(***************************************************************************)
(* Why ListingCurrent and OwnBytesKept hold                                *)
(***************************************************************************)

\* The log says what Drive has.
Logged ==
    /\ \A i \in 1 .. Len(log) :
          log[i].kind # "lost" =>
             /\ i <= Last(log[i].file)
             /\ log[i].kind = "deleted" => ~drive[log[i].file].in
             /\ log[i].mine => log[i].kind \in {"updated", "moved"}
    /\ \A f \in Files :
          /\ Last(f) \in 0 .. Len(log)
          /\ Last(f) # 0 => /\ log[Last(f)].kind # "lost" /\ log[Last(f)].file = f
                            /\ drive[f].in <=> log[Last(f)].kind = "updated"

\* What memory and database have of the folder goes together.
Mirrored ==
    /\ listed = listing.resident
    /\ \A f \in Files : rows[f] # 0 => rows[f] = tree[f]
    /\ \A f \in listing.files : listing.resident /\ tree[f] # 0

\* A batch is out of order by one place at most, and the saved cursor is ahead
\* of the one in memory by one event at most; only node updates are recorded.
Orderly ==
    /\ phase = "idle" => batch = <<>> /\ dirty = NoDirty
    /\ \A i \in recent : log[i].kind \in NodeUpdates
    /\ saved <= cursor + 1
    /\ \A i \in 1 .. Len(batch) :
          /\ saved <= batch[i] + 1 /\ cursor <= batch[i] + 1
          /\ i > 1 => cursor < batch[i]
          /\ \A j \in i .. Len(batch) :
                batch[i] <= batch[j] + 1 /\ (i + 1 < j => batch[i] < batch[j])

\* The event is still to be applied: it is in the batch, or past it.
InBatch(id) == \E i \in 1 .. Len(batch) : batch[i] = id
PastBatch(id) == id > cursor /\ id > saved /\ \A i \in 1 .. Len(batch) : batch[i] < id
Unmet(id) ==
    /\ id \notin recent
    /\ (InBatch(id) /\ id # cursor /\ id # saved) \/ PastBatch(id)

\* The last change of the file is.
Ahead(f) == Unmet(Last(f))

LastMine(f) == Last(f) # 0 /\ log[Last(f)].mine

\* A revision read back is Drive's, or another device has changed the file since.
ReadRight ==
    \A f \in Files : own[f].at = "read" =>
        /\ own[f].rev <= drive[f].rev
        /\ IF own[f].rev = drive[f].rev THEN own[f].here = drive[f].in ELSE ~LastMine(f)

\* What a listing not yet overtaken saw of a file is what Drive has, or the
\* change since is unmet and not one of ours.
Noticed(f) ==
    lister.seen[f] = Shown[f] \/ (Ahead(f) /\ (LastMine(f) => own[f] # Idle))

ListerCurrent == lister # Idle /\ ~lister.overtaken => \A f \in Files : Noticed(f)

\* The entry of the file is Drive's, or will be when the upload is placed.
Will(f) ==
    CASE own[f].at = "idle" -> rows[f] = drive[f].rev
      [] own[f].at = "read" -> own[f].rev = drive[f].rev
      [] OTHER -> TRUE

\* The file is listed as Drive has it, or the listing goes when the batch ends
\* or the upload does.
Served(f) ==
    IF drive[f].in
    THEN \/ ~listing.resident
         \/ own[f].at = "queued"
         \/ dirty.foreign
         \/ f \in dirty.ours /\ f \notin listing.files
         \/ f \in listing.files /\ Will(f)
    ELSE f \notin listing.files /\ rows[f] = 0

\* What was read back goes to this folder, or the file is in it.
Wanted(f) == drive[f].in \/ (own[f].here /\ tree[f] # 0)

\* Unless something was missed, each file is served rightly or its last change
\* is unmet; in particular a read-back that was overtaken is corrected, and the
\* row of a file here whose last change is ours has that change.
FileCurrent(f) ==
    /\ Ahead(f) \/ Served(f)
    /\ own[f].at = "read" /\ own[f].rev # drive[f].rev /\ Wanted(f) => Ahead(f)
    /\ LastMine(f) /\ drive[f].in /\ own[f] = Idle /\ listed =>
          (f \in listing.files \/ rows[f] # 0 => rows[f] = drive[f].rev)

\* The feed passes over no update it has not met.
Followed ==
    \A id \in 1 .. Len(log) : log[id].kind = "updated" /\ id \notin recent =>
        /\ saved < id /\ id <= cursor => InBatch(id)
        /\ \A i \in 1 .. Len(batch) : /\ cursor < id /\ id < batch[i] => InBatch(id)
                                      /\ id = cursor => cursor <= batch[i]

\* The updates of a file that the feed will still apply in this run of the
\* daemon.  While nobody else has touched the file all are ours, and each has an
\* echo, or its upload is not read back yet.
Owed(f) == {id \in 1 .. Len(log) : /\ id \notin recent /\ (InBatch(id) \/ id > cursor)
                                   /\ log[id].kind = "updated" /\ log[id].file = f}

Uploading(f) == IF own[f].at = "sealed" THEN 1 ELSE 0

Echoed(f) ==
    /\ own[f].at = "sealed" => drive[f].in
    /\ Cardinality(Owed(f)) <= echoes[f] + Uploading(f)

EchoesExpected ==
    /\ \A i \in 1 .. Len(log) :
          log[i].kind = "moved" \/ (log[i].kind # "lost" /\ ~log[i].mine) => log[i].file \in foreign
    /\ \A f \in Files \ foreign : Echoed(f)

\* The inductive invariant.
Inv ==
    /\ TypeOK /\ Logged /\ Mirrored /\ Orderly /\ Followed
    /\ ReadRight /\ ListerCurrent /\ EchoesExpected
    /\ gaps = {} => \A f \in Files : FileCurrent(f)
=============================================================================
