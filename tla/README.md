# Proton Drive for Linux: a TLA+ verification project

This directory models the core of the daemon (`crates/pdfs-fuse`,
`crates/pdfs-core`): how a file the user writes reaches Drive, what happens to
it when another device writes the same file, when answers are lost, when calls
fail and when the daemon dies; how files are made, renamed and deleted before Drive
knows them; how the threads that send all this, and the threads behind the FUSE
handlers, sleep and wake; how the feed of remote changes keeps listings true; what may
be written in what others share; and how a synced folder is reconciled with Drive.
TLC checks the modules on small instances; TLAPS proves safety properties of the
write-back queue, creates, the drain's workers, the thread pool, the event feed, shared
access, reads and the mirror pass for every value of the constants.

Source paths below are relative to `src/crates/`.

## 1. The system

One daemon per account mounts Drive with FUSE, keeps a SQLite database and a
cache directory, and talks to Drive through `DriveApi`. Front-ends (CLI, GTK app,
tray, launcher) are clients of its control socket.

| Component | State it keeps | Operations | Hard behaviour |
|---|---|---|---|
| Content write-back (`pdfs-fuse/src/lib.rs`, `filesystem.rs`, `state.rs`, `pdfs-core/src/cache.rs`) | write handles, `staging/` blobs and sidecars, `Core::pending`, `sealed_unread`, `landed` | open for writing, release, truncate, unlink; at a mount `hydrate_pending`, `reconcile_staging`, `recover_fsynced_writes` | memory, disk and queue change in separate steps, under uploads that end at any time; a crash between any two |
| Operation queue (`pdfs-core/src/db/ops.rs`) | `pending_op`, `own_sealed_rev` | enqueue with superseding, replace by trash, claim, release, retire, fail, defer, retry | claims by 16 workers; rows vanish under the worker that holds them |
| Drain (`pdfs-fuse/src/drain.rs`) | the claimed op, the upload registry with cancel flags, the wake-up flag | send a revision, create, rename or trash; conflict copy; read-back and rebaselining | lost answers, stale baselines, failed read-backs, conflicts with oneself; one flag and condvar for all workers |
| Link and pause (`link.rs`, `pause.rs`) | online, session expired, paused until | mark offline and online, probe, pause, resume | reconnects racing new failures, wake-ups |
| Shutdown (`shutdown.rs`, `mount.rs`) | stopping | stop, join | workers that go to sleep behind the wake-up |
| Creates and renames in the drain (`drain.rs`, `db/ops.rs`, `db/local.rs`) | create rows with `sent_to`, hashes, park; rename rows; local and real uids | make a node, find the node of an attempt whose answer was lost, retire, adopt the real uid, park and sweep | the user writes, renames and deletes meanwhile; names others take; a withdrawn create that landed |
| Event feed (`background.rs`) | cursor, recent events, dirty parents, echoes of our own changes | apply an event, flush, acknowledge | a crash between effect and cursor; repeats and reordering; listings on the wire; events about a node with a queued write |
| Shared trees (`lib.rs`, `background.rs`, `db/shares.rs`, `drain.rs`) | `share_access`, the tree's copy of it, `shared_generation`, deferral windows | list "Shared with me", deny on an access event, defer a queued write | two copies of a role, three parties that change them, none of them under one lock with Drive |
| Mirror sync engine (`sync.rs`, `sync/`) | baseline per path (`sync_entry`), pause per folder | scan, plan, apply, push | local and remote edits between scan and apply; lists with gaps; a crash between transfer and baseline |
| Read path and cache (`reads.rs`, `cache.rs`) | blocks, whole files, pins, readers | read, store, evict, pin | shared opens and fetches whose leader fails or is dropped; old versions beside new ones; eviction, budgets |
| Tree (`state.rs`, `db/nodes.rs`, `db/local.rs`) | inodes, nodes, listings | lookup, readdir, adopt a real uid | listings racing local changes |
| FUSE worker pool (`workers.rs`) | two queues, slots | run, stop | transfers starving metadata |
| Push events (`events.rs`) | mailbox per subscription | publish, take | coalescing, slow readers |
| Moves between locations (`relocate.rs`) | mirror locks | move, settle | pending work under the moved tree |
| Conflict copies (`sweep.rs`, `conflicts.rs`) | flagged copies | sweep, resolve | files about to change |
| Devices, profile, sharing, photos, versions, control socket, authentication, transfers | tables of their own | remote calls and read-outs | little concurrency |

How they interact: a FUSE call changes staging, the queue and `Core::pending`
and then calls `wake_drain`; drain workers claim rows in a transaction, call
Drive, retire the row, read the node back and bring the tree, open handles and
newer queued writes level with it; the event feed updates the tree except for
nodes with a queued write; the link and the pause hold the drain back and wake
it; the mirror engine and the mount share the database but not their files.

What makes each correct: an accepted write is never lost and is what reads see
until Drive has it; a row always has its bytes and a claimed row a worker;
older bytes never replace newer ones; a file does not conflict with itself; two
files never come to share a node, and no node of ours is left behind; a listing shows
what Drive has once the feed is read; access taken away stays away until Drive is
asked again; no work lies while everybody sleeps, and everybody ends when the daemon stops; a
mirror pass loses no edit and never takes a failed listing for a deletion.

## 2. Modules

| Module | What it is |
|---|---|
| `WriteBack` | abstract: writes are offered, accepted, reach Drive, and their bytes may go only for a reason |
| `RevisionQueue` | content write-back, the queue's revision and trash rows, the drain's revision and trash paths, Drive, another device, restart |
| `RevisionQueueInv` | the inductive invariants of `RevisionQueue` |
| `RevisionQueueProofs` | its proofs, and the proof that it implements `WriteBack` |
| `DrainWake` | the workers' sleep, wake-up and stop, with link, probe, pause and retry |
| `DrainWakeProofs` | its proofs |
| `MirrorSync` | the reconcile pass of a synced folder in mirror mode, file by file |
| `MirrorSyncInv`, `MirrorSyncProofs` | its inductive invariant and proofs |
| `CreateQueue` | files made here before Drive knows them: create, rename, trash, twins, parked names |
| `CreateQueueInv`, `CreateQueueProofs` | its inductive invariants and proofs |
| `EventSync` | the event feed, the listing of a folder, echoes of our own uploads, restart; its inductive invariant |
| `EventSyncProofs` | its proofs |
| `SharedAccess` | the role on what is shared with us: listings, access events, read-backs, queued writes that wait; its inductive invariant |
| `SharedAccessProofs` | its proofs |
| `WorkerLanes` | the thread pool behind the FUSE handlers: lanes, notifications, stop |
| `WorkerLanesProofs` | its proofs |
| `ReadPath` | reads of a file on Drive: shared opens and fetches, memory ring, block cache, repair, deadline; its inductive invariant |
| `ReadPathProofs` | its proofs |
| `MC*` | model values and symmetry for TLC |

### RevisionQueue

State. On disk: `staged` and `side` (blobs in `staging/` and their sidecars),
`row` and `meta` (revision rows and `meta_json`), `trash` (trash rows), `ownRev`
(`own_sealed_rev`), `tree`. In memory, gone at a crash: `pending` and `pend`
(`Core::pending`), `unread` (`sealed_unread`), `landing` (`Core::landed`), write
handles, the caller's place in a release or unlink, each worker's place, and the
registry of cancellable uploads. On Drive: the active revision of each file, what
each revision holds, whether the file is gone.

Actions. One per step between which another thread can run. A release is
`ReleaseBase` (the baseline is chosen), `ReleaseStage`, `ReleaseCancel`,
`ReleaseEnqueue` (one transaction), `ReleasePublish`, `ReleaseDiscard`; an unlink is
`UnlinkCancel`, `UnlinkReplace`, `UnlinkForget`; an op of the drain is `Claim`,
`Check`, `FillGaps`, `Register`, `Confirm`, `Send`, `Commit` (Drive), `Answer`,
`Retire`, `ReadBack`, `Adopt`, `LetGo`, `Place`, `Discard`, `ReleaseClaim`, with the
conflict path `Conflict`, `SendCopy`, `Abandon`. `AttemptFails` and the second
disjuncts of `Answer`, `ReadBack` and `SendCopy` are the failures. `Restart` is a
crash and the next mount's recovery.

Abstractions. Contents are the number of the blob they came from, so equal
digests are equal numbers. A sidecar keeps whose it is, its baseline and whether
its ranges cover the file. Which row is due is a matter of time, so any claimable
row may be taken; the debounce (2 s at least) is kept only as the fact that it
outlasts the two statements between the insert of a row and the publication of its
blob (`Debounced`), which the proofs need and the code relies on. `stage_write`, the
open and restart are atomic; `staging/` is listed in any order. Drive seals any
revision it is sent for a node it has, as the simulator's fake Drive does
(`sim/fake_drive.rs`); this, the other device and nothing else are external.
`requeued` is a history variable: the writes a restart queued again although a newer one of
the file had been accepted (`lib.rs:1964`).

Left out here: files created under a local uid, `truncate` by path, fsync
recovery, unlinking an open file, access deferral, the age limit of
`own_sealed_rev`, backoff times, writes with no known baseline.

### DrainWake

State. For each row whether it is absent, queued for later or due, who claimed
it, whether it failed before and whether Drive refused it; for each worker its
place, what it read of link and pause (`claiming`), the rows its sleep was computed
from (`alarm`) and whether their time has come (`rung`); the flag of the condvar; the
callers that changed the queue and are yet to call `wake_drain` (`calls`); link,
session, pause, stop, and the probe thread.

`Doze` takes the lock and sleeps only if the flag is down and the mount is not
stopping; `TimesOut` and a wake-up lead to `Rouse`, which retakes the lock and clears
the flag, as `wait_for` does. `Choose` is `idle_wait`: the wait is computed outside the
lock, which is where wake-ups could be lost. `Apply` may leave rows of the same node
behind, as `finish_create` does for a file changed while its create was sent.

Left out: what an op does (see `RevisionQueue`), the primary worker's idle chores,
parked rows, deletion of rows by callers. Link and pause are read in one step.

### MirrorSync

State. Locally the content at each path (`file`), whether that file is held open for
writing, and the conflict copies; the baseline rows (`base`, the table `sync_entry`);
on Drive the node at each path, its active revision, and each revision's body and
stamp; of the pass what the local scan and the remote walk saw, and for each path the
step its op is at, what it fetched or is sending, and the revision it sealed. History
variables hold what the properties speak of: the user's versions he did not replace
himself (`owed`), and which paths were really deleted on either side since a scan or
walk last saw them.

Actions. `ScanLocal` and `WalkRemote` are the two walks with their wipe guards and
gaps; `WalkRemote` also plans every path (`PlanFile` is `plan_file`). Then each op goes
its way: `Adopt`; `CopyAside`, `DropOriginal`; `Fetch`, `Guard`, `Place`, `RecordPlaced`;
`Condemn`, `RemoveLocal`; `TrashRemote`; `OpenUpload`, `StatUpload`, `SendUpload`,
`ReadBack`; and `Forget` and `Note`, which only touch the row. Between any two the user
may save, open, write in place or delete, the other device may write or trash, and the
daemon may crash. `Crash` loses the pass and nothing else: rows and files are durable.

Abstractions. A version stands for a content with its modification time and size, so
two saves of one size within one timestamp are not distinguished from one; the
content cache, which may stand in for a download of the same key, is not either. A
file sent while it is written seals the old content, the new one, or a mixture that is
nobody's version (`Torn`, one per revision). At the start every path has a version, a
node and a revision of its own, so that none is mistaken for another's. Whether a
first sync compares digests or keeps a copy at once depends on sizes and digests, which
are left open. `Others` counts synced files that never change; they matter to the
wipe guards alone. Drive refuses a second node of a name and a revision of a node that
is gone (external).

`Windows`. Between keep_racing_local_edit's look and the rename, between the copy of a
conflict and the removal of its original, between `changed_since_scan` and the removal,
and between the rename and the stat there is no lock that could keep a writer out.
The passing run has these pairs of system calls atomic (`Windows = {}`): it shows that
the pass is right up to them. With any one of the four opened TLC finds an edit lost;
`mirror_placed` keeps the one that contradicts a comment.

Left out: folders, ignore rules, the push pass, the watcher and its bursts, the
upload of conflict copies as new files by the next pass, a graceful stop (which skips
ops not begun; a crash skips more), writes through a descriptor whose file has left
its path.

### CreateQueue

State. In the database each file's row (`row`: a create with its blob, the names it was
sent under, the hashes it was sent with, its tries and whether it is parked; or the
revision or trash it turned into), its queued renames (`ren`, oldest first), the uid in
its node row, and `staged`. In memory `place` and `treeUid` (the tree), open handles,
`hidden` (nodes trashed here), `unadopted`, where the user's call is, each worker's place
and job, the sweep's verdict on a parked create. On Drive the nodes, each with its name,
its content and the file it was made for.

Actions. `Mint`, `Intern`, `Open`, `Release`, `Close`, `RenameStart`, `RenameEnd`,
`DeleteLocal`, `DeleteLanded`, `DeleteReal` are the user's calls, split where the code
gives up its lock. `CreateLook` to `CreateEnd` are a create in the drain: the look for
its own earlier node under other names, the note of name and hash, the call, the clash
with a taken name, `finish_create`, the new uid in the tree, the read-back. `Rename*`,
`Trash*` and `Revise` are the ops a create turns into. `Grow`, `SweepJudge`, `SweepAct`
are the park. `Fail` is any failed attempt, `Crash` and `Walk` the next mount.

Abstractions. One folder that exists; names are model values; conflict names are
free on Drive; files of other devices are not empty; backoff is left out; the upload of
a revision is one step (`RevisionQueue` has it in full).

Assumptions as constants. `MintRaces = FALSE`: a create is not sent before its caller has
put the file into the tree (milliseconds against the debounce).
`QuickRestart = TRUE`: a restart is shorter than `ADOPT_WINDOW_MS`. `WalkFirst = TRUE`: after a restart the folder is
listed before the drain reaches its creates; otherwise `OneFilePerNode` fails, because a
node already in use is not yet in the tree that `adoptable_twin` asks.

`crossed`. Two windows of a landing are open in the code, and in the model. Between the
commit of `finish_create` and the new uid in the tree (`drain.rs:1632`-1700) another worker
may claim and send the rename `finish_create` queued; and between Drive's answer and the
tree, the trash of a withdrawn create may find the new node by its name
(`drain.rs:951`-963). The history variable `crossed` remembers that either happened, and the
properties of `create_land` promise what they say until then (`Uncrossed`); what
follows after it is in section "Disagreements" (`landing_adopts`, `landing_trash`). That
other devices' files are neither taken nor trashed (`TheirsAlone`, a part of `OnlyOurs`) has
no such exception.

### EventSync

State. Drive's files and the log of the volume's events (external); the feed's
`cursor`, its copy in the database (`saved`), the polled `batch`, `recent` (`RecentEvents`)
and `dirty` (`DirtyParents`); the folder's resident `listing`, the entries of the `tree`, and
the `rows` and `listed` flag they are written through to; the content `cache`, `echoes`
(`self_changes`), the state of our own upload, and a `list_children` on the wire.

Actions. `Poll`, `SkipRepeat`, `Apply`, `AckFails`, `SdkFails`, `Flush` are
`run_event_sync`; `ListAsk` and `ListPublish` the listing, with Drive asked outside the
lock; `Queue`, `Seal`, `Divert`, `ReadBack`, `Place` our own upload as the feed meets it;
`Expire` the age limit of an echo; `Crash` a restart, which hydrates the listing from the
rows. A feed may repeat and swap events (`Poll` with the faults "duplicate" and
"swap").

An event names the folder the file has then, not the one it had (external, as
`sim/fake_drive.rs` sends them). A file another device moves to another folder and back is
in or out of this one; an update that names this folder is "updated", one that names
another, or none, "moved".

`gaps` names the ways the code lets a listing miss a change, recorded when they happen
and cleared when the folder is read again: `overtaken` (a listing publishes what it
read before an event of the meantime, `lib.rs:2605`-2745), `unflushed` (a crash
between an acknowledged event and `flush_dirty_parents`), `reordered` (the cursor
passes an event the feed delivers late), `claimed` (another device's change taken for
our echo, which `lib.rs:767` documents), `skipped` (below, `event_retry`) and `moved` (a
file another device moves out of the folder: only the folder its event names is
marked dirty, `background.rs:181`-190, and the one it left goes on listing it).
`ListingCurrent` says there is no seventh; it says nothing of a listing while a gap is open.

Left out: seeding the cursor at a first mount, the photos feed, what the listings of other
folders write to entry and row of a file that moved, and a failed write-through of the
tree to the rows.

### SharedAccess

State. Drive's `role` on each root and its feed; the tables (`cursor`, `access` for
`share_access`, `rows`, `fresh`); the tree (`resident`, `live`, `generation` for
`shared_generation`); what a lister has learned; the queued write, its deferral window,
its report and its read-back. Each copy of a role carries how many events Drive had sent
when it was seen (`asOf`), so that properties can tell a stale role from a current one.

Actions. `Ask`, `Materialize`, `Publish` (with `Overrun`, `PublishFails`, `ReloadFails`,
`ListingFails`) are `ensure_shared_children`; `Apply`, `ApplyFails`, `Acknowledge` the
feed; `Admit`, `DeferDenied`, `Resolve`, `Land`, `ReadBack`, `Place` the drain of a write;
`Elapse` and `Expire` time; `Crash` a restart that loads the tree from the tables.

Simplifications. One queued write per root; a change of role is always followed by an
event; shares are not nested. The stamp of a listing's freshness and the offline
listing plan change nothing the properties see. The access denied by a generation is
compared as the code does (`Current`).

### WorkerLanes

State. The two queues and `closed`, under one lock; each thread's place; each caller's
place between queueing and its notifications; the stop. `Submit` queues a job,
`NotifyReserved` and `NotifyGeneral` are the notifications sent after the lock is
released; `SubmitInline` is a job run by its caller after the pool closed. `TakeTransfer`,
`TakeMeta`, `Sleep`, `Finish`, `Leave` are the thread's loop; `Close`, `RouseReserved`,
`RouseGeneral`, `Joined`, `GiveUp` the stop with its deadline. A transfer may run for ever.
Counters and labels for diagnostics are left out.

### ReadPath

State. On Drive the active revision and each one's size; the version the tree has; the
reader slot of the file (`slot`, `Core::readers`); the fetches under way (`flight`,
`BlockFlight`); the memory `ring`; the block cache on `disk`, with the version in `.meta`
and, apart from it, the bytes of the block file; the blob of the whole file (`whole`), in
the same two parts; the tasks that store blocks (`stores`); the whole files on their way
into the blob (`adopts`); and of each reading thread its place, its version, its blocks and
their fetches.

Actions. `Start`, `Blob`, `Look`, `Peek` look for a read's blocks, first in the blob of the
whole file; `Hit`, `Join`, `Lead`, `Open`, `OpenFails` are `revision_reader`; `Claim`,
`ReadBlock`, `Short`, `NoBlock` are `fetch_block` with `read_block`; `RepairHit`, `NoBlob`,
`Download`, `RepairRead`, `Repaired` are `repair_block`, one at a time under its lock;
`Fetched`, `FetchFails`, `Retry`, `Offline`, `GiveUp`, `Answer` the end of a read; `Deadline`
and `EvictReader` the dropped fetch. `StoreRename` and `StoreMeta` are the two writes of
`store_block`, `Pressure` what other files push out, `Evict` the evictions of handlers that
change the file, `Hear` and `Refresh` the feed and a lookup.

The blob has three writers, and none of them holds a lock while it writes: an upload of
this machine that landed (`Seal`, `ReadBack`: `refresh_after_upload` and the branch for a
failed read-back, `drain.rs:2376`-2381, 2471-2482), a whole file fetched to be opened or
pinned (`FetchContent`), and a repair (`Download`). Each goes through `store_file`
(`cache.rs:844`-867), which renames the file (`AdoptRename`) and then writes its `.meta`
(`AdoptMeta`).

Abstractions. A version (modification time and size) is the number of its revision, and
bytes are the revision they are from; the stamp a write of this machine has before Drive
answers is written as the revision it became. Blocks lie alike in all revisions. A
read is of the blob or of blocks. Read-ahead makes the calls a read makes. The link is a
choice: a read may find it down and give up, or fail and try once more.

`mixed` remembers the versions that were given bytes meant for another one, in the two ways
the code has: the file of a block or of the whole was replaced between the look at its
`.meta` and the open of it (`stale_block` below), or an upload was stored under the version
of somebody else's revision of the same size, sealed before the read-back. `NeverOlder`
speaks of all others.

Left out: two stores of one file at once share a temporary name (`<key>.tmp`), so that
either may fail, or leave a file that is not its `.meta`'s and stays so; a write accepted
between the two looks of the failure branch at the pending entry and at the tree;
`ReadBack` evicts and reads the node in one step, and the tree takes the node in the
step that writes `.meta`; the shared opens of photos.

## 3. Runs

Bounds are named in the `.cfg` files; deadlock is not checked in the queue's runs
because an idle queue, and a run out of its bounds, really stops.

| Run | Checks | Instance | Shows |
|---|---|---|---|
| `revision_crash` | `NothingLost`, `QueuedBytesStaged`, `PendingReadable`, `ReadsOwnWrites`, `OlderNeverOverNewer`, `KeepsPromise` | 1 file, 1 worker, 2 writes whole or partial, 1 foreign change, 1 crash, 1 failure of any kind (1.8 M states) | bytes, rows and reads stay consistent through a crash or failure at any step, older bytes follow newer ones on Drive only in the two ways the code leaves open, and the queue implements `WriteBack` |
| `revision_fork` | `Inv`, `NoSelfFork`, `EveryWriteSettles` | 3 writes, 2 failures of check, send or read-back (86 k) | the invariant of the proofs; no conflict with ourselves while no answer is lost and nobody else writes; each queued write is retired |
| `drain_wake` | `NoLostWakeup`, `EveryOpDrains` | 2 workers, folder and file, 1 pause, link up or down at the start, no idle poll (340 k) | no wake-up is lost, and all ops drain |
| `drain_stop` | `ClaimsHaveWorkers`, `EveryOpDrains`, `StopEnds`, `IdleWorkersRest` | 2 workers, 1 upload, 1 failure, 1 database error, 1 user retry, refused session, stop, no idle poll (283 k) | claims are given back on every path, a failed op drains after the reconnect, every worker ends after a stop, idle workers do not spin |
| `mirror_pass` | `NoEditLost`, `SyncedMeansSame`, `OnlyRealDeletes`, `Converges` | 1 file beside one that never changes, 4 versions, 1 foreign change, 1 failure or crash (613 k) | a pass destroys no edit, records nothing unequal as synced, deletes nothing on a bad listing, and passes bring both sides together |
| `create_land` | `OneFilePerNode`, `OnlyOurs`, `WritesKept`, `NamesKept` | 2 files, 2 names, 2 workers, 1 write, and 4 calls or 3 and a foreign file (1.3 M) | nothing of another device's taken or trashed; no two files on one node, nothing trashed that the user has, no write or rename lost whatever moment of the create it came in, until another worker's rename or trash crosses a landing |
| `create_park` | `NothingLeftBehind`, `TreeFollows`, `NoScratchUploaded`, `EveryCreateSettles` | 1 file, a real and a transient name, 3 calls, 2 writes, 2 failures, 1 crash (285 k) | no node is left behind by a delete or a resend, the park holds and ends, the tree follows Drive, every create settles |
| `event_feed` | `ListingCurrent`, `OwnBytesKept`, `FeedIsRead` | 2 files, 3 changes, moves out and in among them, 1 own upload, 1 fault of any kind (1.2 M) | once the feed is read the listing shows what Drive has, but for the named gaps; our own bytes stay; the feed is read to its end |
| `event_retry` | `RetryApplies` (violated) | 1 file, 1 change, 1 failed SDK call | section "Disagreements" |
| `worker_lanes` | `NoLostWakeup`, `MetaServed`, `StopReturns`, `EveryJobRuns` | 1 reserved and 1 general thread, 2 callers, 2 metadata jobs, 2 transfers (40 k) | metadata is served whatever transfers do, a stop returns although a job is wedged, every job runs if transfers end |
| `shared_access` | `FailClosed`, `DeniedAtOnce`, `BlockedReported`, `AccessComesBack` | 1 root, 1 lister, 2 changes, 1 fault of any kind, 1 crash (180 k) | access an event took does not come back from a stale listing, a retry or a restart; a blocked write is reported, and sent once access is back |
| `read_path` | `NeverOlder`, `EveryReadEnds` | 2 reads or fetches of 1 block, 2 revisions of equal or different sizes, one of which may be an upload of this machine, 1 failure of any kind (927 k) | no read is given bytes older than its version, save for the versions in `mixed`, and every read ends although the open, fetch or repair it waits for is dropped |

Every module also has a type invariant, `TypeOK`, which its properties and proofs rest
on; it is not kept as a property of the runs.
`mirror_inv.cfg` and `event_inv.cfg` check the inductive invariants of the mirror pass (two
paths, 1.1 M states) and of the event feed (two files, two uploads, 3.4 M states), on
instances wider than the runs', and `read_inv.cfg` that of reads without the constraint of
`read_path` (1.0 M). `revision_newest.cfg` checks those behind `OlderNeverOverNewer` with two
workers, a foreign write, a restart, lost answers and refused claims, and
`OnlyOrphansGoBack` with them, as far as a node has one worker at a time (1.6 M); without
that constraint `OlderNeverOverNewer` holds and `OnlyOrphansGoBack` does not.
`revision_alone.cfg` checks those behind `NoSelfFork`, also with two workers.
`create_inv.cfg` (2.9 M) and `create_inv_apart.cfg` check those of `CreateQueue`, the latter with
every fault, a restart and `MintRaces`; `TreeInv`, and `LeftInv` of one file, hold of the
states of `create_park`.

Why the bounds are enough to be interesting: two writes give a superseded and a
superseding one, a third gives a write between an upload's end and its
rebaselining; one foreign change makes every conflict; one crash reaches each point
of each path, among them the one between a newer write's landing and the end of its
predecessor, after which the restart queues the orphan again. Two
workers are what every overlap needs; a folder with a file is one way a row can
wait for another, and the other, two ops of one node, is left to the proofs. In
`mirror_pass` ops of different paths share only the wipe guards, so one changing path
suffices; four versions give the synced one, two edits and a foreign one, which a torn
upload or a racing download need; the invariants also held with two foreign changes and
with two failures (2 M states each, beyond what the run keeps). `MaxRev` is larger than
any behaviour needs. In `create_land` two files and two names let one file take the name
another gave up while that one's create is on the wire; making both and renaming or
deleting one takes three calls, and a crossed landing a fourth, so four calls are allowed, or three
beside a foreign file (`FourTouches`, a constraint). `create_park` needs one file: a lost answer and
a failure, a restart, a transient name written twice and given its real name. In
`event_feed` a second file is what tells a change of membership from one of content,
and three changes give an event applied, one in the batch and one behind it, or a file
that moves out, is written there and moves back. In
`shared_access` a role that is taken and given back is two changes; roots share only the
generation, which one root exercises through its own listing. In `worker_lanes` one
transfer occupies the general thread while a second waits and metadata comes, from two
callers at once. In `read_path` two reads give one that leads and one that waits, or one of
the old and one of the new version, beside an upload that lands or a fetch of the whole file;
a block and a whole file are not stored at the same time (`OneKindOfStore`, a constraint
that `read_inv` is without), and one block is enough, since blocks share nothing but the reader.
The invariant also held with three revisions and one read. Deadlock is checked in `mirror_pass`: passes never end.

Fairness. `revision_fork`: drain threads and callers inside a call run on; users,
other devices, crashes and failures are not forced, and failures are bounded, as
`DRAIN` retries for ever. `drain_*`: threads run, backoffs and debounces elapse, an
upload ends (every call has a deadline, `link.rs`), a timed pause ends, and an
unrefused probe is answered in the end. The 30 s idle poll is switched off in the
liveness runs: it is longer than the 10 s in which a stop joins the workers, and it
would hide a lost wake-up. `mirror_pass`: passes go on (the engine polls every 120 s,
`sync/engine.rs`) and every call of a pass ends; user, other device and failures are
not forced. `create_park`: a worker's step ends, calls under way end, parked creates age
and the sweep runs (the primary worker's idle chore); claims are strongly fair, since
the claim query takes the oldest due row, so a row that is due again and again is taken.
`event_feed`: the feed task polls and goes through its batch; listings, uploads and
faults are not forced. `worker_lanes`: threads run, a caller that queued a job notifies,
a metadata job ends (each has a deadline) and the deadline of a stop passes; transfers
need not end, and `EveryJobRuns` has their end as its antecedent. `shared_access`: the
feed is polled, a listing under way ends, freshness and deferral windows elapse, the
drain takes due ops; that anybody lists "Shared with me" is an antecedent of
`AccessComesBack`, since nothing in the daemon forces it. `read_path`: a thread in a read
runs on and its calls of Drive are answered, and the store of a downloaded file ends, for
which a repair waits; deadlines, failures, evictions and the tasks that store blocks are not
forced.

### Disagreements

Where a comment or document says one thing and TLC finds the code does another. The
first is a run of the project; each other, but for `stitched_read`, has a `.cfg` of its own that
reproduces it in seconds. Where a property of a passing run has an exception, the `.cfg`
checks the promise without it.

* `event_retry`: when the SDK's invalidation of a node fails, `background.rs:448` keeps
  the cursor "for retry", but the event was recorded in `RecentEvents` before, so the
  retry takes it for a repeat and skips it; the listing does not show the change until it
  is read for another reason.
* `one_worker_per_node`: `drain.rs:296` and `docs/ARCHITECTURE.md:240` say that no two
  workers are on one node. A write closed during an upload deletes the claimed row
  (`enqueue_op`), so another worker takes the new row while the old upload is still
  running to its next block. The invariant accounts for this: a worker may hold a job
  whose row is gone.
* `older_over_newer`: `lib.rs:1966` says older bytes are kept, not uploaded over newer
  ones. That holds at the restart that finds both; once the newer write has landed, the
  next restart requeues the orphan, and the conflict check lets it through because
  Drive is at a revision sealed here. `NeverStepsBack` is violated; `OlderNeverOverNewer`
  excepts the orphan and the upload of `one_worker_per_node`, and says there is no third way.
* `own_sealed`: the table of revisions this daemon sealed receives whatever revision
  the read-back shows, another device's included (`drain.rs:2513`).
* `sidecar_of_newer`: `rebaseline_pending` can write an older write's sidecar onto a newer
  write's row between `enqueue_op` and the update of `Core::pending` (`drain.rs:2626`).
* `mirror_placed`: `sync.rs:1794` says that the file at the path of a finished download is
  the transferred content. Between the rename and the stat lie a reopening and two
  syncs to disk; an edit saved there is recorded as synced, is not uploaded, and the
  next change on Drive replaces it without a copy.
* `two_files_one_node`: the comment at `drain.rs:1466` wants no two files on one node, and
  the look for an earlier node holds off from names another create is sending at that
  moment (`creating`, `drain.rs:1147`-1153). A node whose create lost its answer is nobody's
  until that create is tried again: when its file was renamed and a new one made under
  the old name meanwhile, both find the node and take it (`NeverShared`).
* `landing_adopts`: the same comment (`drain.rs:1466`). `finish_create` takes the name a create was sent under
  out of `creating` and queues a rename when the file was renamed meanwhile. When another
  worker sends that rename before the tree is given the new uid, the node has a name that is
  neither in `creating` nor of a node the tree knows, and a create of another file under that
  name takes it for its own earlier attempt (`adoptable_twin`, `drain.rs:1460`). No answer is
  lost and nothing fails in this (`NeverShared`).
* `landing_trash`: the look for a withdrawn create's node wants none that is another file's
  (`drain.rs:1056`), but asks the tree, not `creating`: a node made a moment ago for a new file
  of the same name is found by the trash of the old one and trashed (`OnlyOursEver`). This too
  takes no fault.
* `withdrawn_hidden`: the trash of a withdrawn create hides the node it found before it
  trashes it (`drain.rs:961`); when that call fails, the retry does not see the node
  any more, takes the create for never landed and leaves the node on Drive, which the
  comment at `drain.rs:954`-957 is there to prevent: "the node would keep the deleted
  file's name and bytes".
* `access_readback`: `background.rs:200` says an access event fails "every known shared
  subtree closed until a root refresh carries a current membership role". A read-back
  after an upload (`drain.rs:2573`, `state.rs:588`) interns the membership it was given
  however late, so one that was on the wire when the event came makes the root writable
  again in table and tree.

* `stale_block`: `cache.rs:966` says that a cached block is validated so that a new revision
  is detected. `store_block` renames the block file and then writes its `.meta` without a
  lock (and under one temporary name for all its callers), and `cached_block` reads
  `.meta` and then opens the file: a store for the old version beside one for the new can
  leave old bytes of the same length under the new tag, which are served and put into
  the ring. So it is with the blob of the whole file, which `store_file` replaces in the
  same two steps (`cache.rs:844`-867), when an upload lands, a file is fetched or one is
  repaired; and the read-back after an upload takes the version Drive shows by then, which
  may be another device's of the same size. `BlocksValid` is violated.
* `stitched_read`: `reads.rs:118` says that a new revision can never be stitched together
  from the old one. A reader is pinned to the revision that is active when it is opened,
  not to the version that is wanted: one opened again (evicted, or dropped at a deadline)
  after Drive changed and before the tree learned of it reads the new revision under the
  old tag, so a read of a file that kept its size may have blocks of both. `NeverStitched`, put
  in the place of `BlocksValid` in `stale_block.cfg`, is violated.

Met while modelling, without a run:

* `reads.rs:365` says of a leader that panicked that "the slot it left is gone". It stays,
  pending with a closed channel, and reads of that version go round it until something
  evicts it; after a deadline `evict_reader` does, which is what `EveryReadEnds` rests on.
* `enforce_budget`, `emergency_evict` and `clear_unpinned` take a failed query of the pins
  for an empty set, so a database error leaves no blob exempt (`cache.rs:1402`, 1889,
  2032); `reseed_totals` may overwrite a concurrent addition, and the pool counts too
  little until the next pass.

* With lost answers `NoSelfFork` does not hold: a newer write replaces the row of an
  upload that was sealed without our knowing, and is kept as a conflict copy. No bytes
  are lost and no document promises otherwise, so `revision_fork` excludes lost answers.
* With two workers `TreeFollows` does not hold: a rename queued and landed between the
  question and the lock of `adopt_real_uid` (`drain.rs:1757`-1793) leaves the older name in
  the tree until the feed corrects it. `create_park` has one worker.
* A create sent inline (`ops.rs:140`) whose answer is lost has no `sent_to`: deleting or
  renaming the file before the drain tries leaves its node. `NothingLeftBehind` exempts
  these files (`SentInline`).
* `lib.rs:2670` expects a generation for a foreign folder; one refreshed less than a minute
  ago whose listing was dropped has none. The pool catches the panic and the call
  answers EIO.
* `drain.rs:78` says that past the window each recheck of access records a failure;
  recording one opens the window anew, so there is one failure per window.
* `place_landed` writes the row of a shared root with the parent Drive gives it, so it is
  not under "Shared with me" in the table until the next refresh (`elsewhere` in
  `SharedAccess`).
* A file that moves out of a folder by another device's hand stays in that folder's
  listing (`background.rs:181`-190 marks the new parent alone): the gap `moved` of
  `EventSync`, which no comment denies.
* A file deleted here is trashed on Drive by a mirror pass without asking whether another
  device has written it since the walk (`sync.rs:964`); a file opened for writing after the
  scan may be replaced or removed under its descriptor (`sync.rs:1779`).

## 4. Proofs

`RevisionQueueProofs`: `Spec => []Inv`, for any files, workers and bounds, and from it
`TypeOK`, `NothingLost`, `QueuedBytesStaged`, `PendingReadable`, `ReadsOwnWrites`,
`ClaimHeld`, `ClaimExclusive`. None of these is inductive alone. That a queued row
has its bytes needs that nobody discards a blob whose row is still there: so a caller
that discards (`old`) and a worker past `Retire` hold only blobs without a row. That
reads find their bytes needs that whoever is about to discard a blob has already taken
it out of `Core::pending` or knows that a newer one is there. `Debounced` is used at one
point: a worker cannot get through a row before `ReleasePublish`. Each conjunct of
`RevisionQueueInv` says which of these it is for. The argument goes action by action;
lemmas treat groups of variables that most actions leave alone.

The same module proves `Spec => KeepsPromise`, the specification of `WriteBack` with `staged` for
the kept bytes; each step either is one of the abstract steps or leaves the abstract variables.

`OlderNeverOverNewer` and `NoSelfFork` speak of what is sent against what Drive has.
`NewerStays` proves the former without a hypothesis: any number of workers, restarts, lost
answers, failures and foreign writes. Between two revisions sealed here Drive goes back only to a
write that a restart queued again behind a newer one (`requeued`), or to one whose row a
newer write had taken while it was on the wire. It rests on `SealedInv`, that whatever
this machine sealed was an accepted write of the file, and `RowsNewest`, that a queued write,
unless requeued, is the newest accepted one of its file. The second way is closed while a
node has one worker at a time (`JobsNewest`: no attempt is older than what has landed). The code means to ensure that
and does not quite (`one_worker_per_node`), so it is a hypothesis on the behaviour,
`[]OneWorkerPerNode`, of `OrphansAlone`, which then leaves the orphan alone as an exception,
and of `NoForkOfOwn`. A drain of one worker satisfies it, and for that `NoForkOfOneWorker` has
none. `NoForkOfOwn` assumes `Alone`: no foreign write, no lost
answer, no restart and whole writes (a partial one must fill its gaps from Drive). `AloneInv` says where
the last sealed revision is known (`RecordInv`: in the tree, in a row's baseline, or in the
hands of the one worker that is to write it there), from which baseline a write starts
(`FirstInv`) and when that knowledge may be gone (`GoneInv`).

`CreateQueueProofs`: `Spec => []Inv` for any files, workers, names, faults and restarts. `Inv`
says who may hold a row, a rename and a node at each place of worker, caller and row
together. From it follow `TheirsAlone`, that no node of another device is taken or trashed,
and, with `ScratchInv`, `NoScratchUploaded`.
What `WritesKept` and `NamesKept` promise (`WritesHeld`, `NamesHeld`) is proved under every fault
and restart for the behaviours in which files have nodes of their own (`[]Apart`); a node
shared by two files loses either, and lost answers or a crossed landing can bring that about
(`two_files_one_node`, `landing_adopts`), so it cannot be left out. `KeptInv` has, for each
place of the create, where the last content and name are: in the row, on a rename, in the
hands of a worker that will compare them, or on Drive.
`Apart` itself is proved under `Quiet`: no answer lost, no restart, and no create sent before
its caller has the file in the tree (`MintRaces`); and up to the step with which another worker's
rename or trash crosses a landing, if there is one (`Uncrossed`), since with it the code
loses it. Calls may fail and be refused, and any number of workers, files, foreign files and
calls of the user interleave. This is what `create_land` satisfies, landings that are
crossed included; with it `OneFilePerNode`, `OnlyOurs`, `WritesKept` and `NamesKept` are
theorems without a hypothesis on the behaviour. One worker crosses no landing
(`NoneCrosses`). `QuietInv` rests on `Tracked`: every node made here is hidden, in
the tree, or carried by a worker under a name that is in `creating`. Those are the three
things `adoptable_twin` and `withdrawn_twin_in` look at.
With a single file made here, `Apart` holds under every fault and restart (`AloneApart`), and so
do `WritesHeld` and `NamesHeld` (`AloneKept`): it takes two files to lose either.
`TreeFollows` is proved for `[]Apart` and one attempt at a file at a time (`TreeStays`; with two
it is false, section "Disagreements"), which one worker satisfies (`TreeRight`). `TreeInv`
adds what an adoption may bring: an answer that waits to be placed is the user's name or the conflict name, or a
rename is queued behind it.
`NothingLeftBehind` is proved for one file under every fault and restart but one
(`NothingIsLeft`), and for any number of files under `Quiet` until a landing is crossed
(`NoneOfManyLeft`). The exception is a trash found by name that is given up,
which leaves its node. `LeftInv` says who will deal with a node that is on Drive and that
the file does not know: for one file, the queued create or trash finds it, for the row
notes every name and content before it is sent (`Findable`: `note_create_sent`,
`note_create_target`) and no such node is older than the row's first attempt; where answers
are not lost, it is in the hands of the attempt that made it (`Held`). `LeftJob` follows an attempt from the look
for a twin to the request: once it has looked and found none, there is none until it sends.

`DrainWakeProofs`: `Spec => []Inv` for any ops, workers, nodes and folders, hence
`NoLostWakeup` and `ClaimsHaveWorkers`. `NoLostWakeup` speaks of due rows and sleeping
workers; what is kept from step to step is `Attended`: unless a wake-up is coming or
the flag is up, each row that may be taken has a worker that will look at the queue
before it sleeps, or that sleeps no longer than until the row is due; and
`SleepersUnflagged`: while the flag is up, nobody is asleep.

`WorkerLanesProofs`: `Spec => []Inv` for any finite sets of threads and callers and any
jobs, hence `NoLostWakeup`. A notification reaches one waiting thread, and the pool
sends one per job, after the lock is released, so what must be kept is a count:
for each lane, if one of its threads waits, the jobs in the queue are at most the
threads that look and the callers still to notify (`Covered`). The proof treats each step
by what it does to the three numbers; lemmas on cardinality do the arithmetic.

`SharedAccessProofs`: `Spec => []Inv` for any roots, listers, events and faults, hence
`FailClosed` and `DeniedAtOnce`. Roles are held in four places: on the wire in a listing,
on the wire in a read-back, in the tree, in the table. A generation stands for the
denials tried so far. `ListingsCurrent` and `AnswersCurrent` say that whatever was asked for
in this generation was seen after all of them, so that what `Publish` and `Place` write into
tree and table is too (`TreeCurrent`, `TableCurrent`). The table's claim reaches only to what
was written to it, `applied` while an acknowledgement is due and `cursor` otherwise, which
is why a denial that the table refused does not come back at a restart: the event is
applied again. `overtaken`, the roots on which a late read-back won (`access_readback`), is
cleared only where a listing really writes the role; a first version cleared it for every
root and was not inductive.

`ReadPathProofs`: `Spec => []Inv` for any threads, blocks, sizes and revisions, hence
`NeverOlder`, with all three writers of the whole blob and both of its steps. Whatever is kept
for a version (an open reader, a fetch under way, the ring, a block to be stored, a whole
file on its way) was read from, or was, a revision that was active after that version was,
or the version is in `mixed` (`ReadersCurrent`, `CachesCurrent`). A file in the cache answers
for the version it was stored for (`Stored`), not for what its `.meta` says; that the two are
not the same is the first exception. The proof groups the steps by what they change: Drive, an
upload, a look, a move of a read, an end, a fetched block, a repair, a store.

`MirrorSyncProofs`: `Spec => []Inv` for any paths, versions, revisions, foreign changes and
failures, hence `NoEditLost`, `SyncedMeansSame` and `OnlyRealDeletes`, each under the hypothesis
`NoWindow`: no local write falls between a check and the system call that acts on it. It is
a condition on the constant `Windows`, met by `mirror_pass` and `mirror_inv`; without it the
theorems are false, which the four windows show. `AtPath` says what is known at each step
of a path's op, in three groups. For edits (`Harmless`): whatever is about to be
overwritten or removed is a version the user is done with, or whole on Drive, or copied.
For baselines (`Same`, `Download`, `Upload`): until a download is recorded its path looks
changed to the next pass (`Behind`), and what it fetched is of the revision it is recorded
as, or Drive has passed that one; what an upload is recorded as is what it holds, or the
file has changed since. For deletions (`Missing`, `ScannedMissing`, `Deletion`): what is
absent and recorded as synced was deleted there, or the other side is not what was
recorded. A lemma on the wipe guards (`WipeStops`) shows that a pass which finds
everything gone while something was synced stops. The proof needed two facts that
TLC's runs had not asked for: that
`Note` is only planned for a revision that agrees with the row, and that revision numbers
not yet used are their own tips.

`EventSyncProofs`: `Spec => []Inv` for any files, changes, uploads and faults, hence
`ListingCurrent` and `OwnBytesKept`. For the listing: unless a gap is open, the last change of
each file is still to be applied (`Ahead`) or served (`Served`: the listing shows it, will
show it when our upload is placed, or is dropped when the batch ends). `Ahead` is kept
from step to step because an untidy batch is out of order by one place at most and the saved cursor
is ahead of the one in memory by one event at most (`Orderly`). For the bytes: the
updates of a file that the feed will still apply (`Owed`) are no more than the echoes
expected plus the upload not read back yet (`EchoesExpected`), as long as nobody else has
touched the file; and the feed passes over no update it has not met (`Followed`), so that
none turns up after its echo was claimed. The argument about `Owed` is one of counting, as
in `WorkerLanesProofs`.

Assumptions are the named `ASSUME`s of the modules: bounds are naturals; there is a file and
a worker; each lane has a thread; placeholder values are not workers, ops, jobs or threads;
sets of paths and of blocks are finite, and there are enough version and revision numbers
for the paths of the initial state; ranges of reads are not empty; fault names are known.

Only model-checked: liveness, since the prover has no fairness (`EveryWriteSettles`,
`StopEnds`, `IdleWorkersRest`, `EveryOpDrains`, `StopReturns`, `EveryJobRuns`, `Converges`,
`EveryCreateSettles`, `FeedIsRead`, `AccessComesBack`, `EveryReadEnds`), and with it
`MetaServed` and `BlockedReported`, which are temporal too. Every invariant that a passing run checks is
a theorem, some under the hypotheses given above. Of several
files with lost answers or restarts, `CreateQueue` promises what holds under every fault
(`Invariant`, `TheirsAlone`, `NoScratchUploaded`) and, while they have nodes of their own, `WritesHeld` and
`NamesHeld`; the rest is false there (`two_files_one_node`) or not claimed.

What the proofs found in the models: a `CASE` with overlapping guards, where TLC takes the
first arm and the semantics leaves the choice open (`EventSync.ListPublish`,
`CreateQueue.ClaimRow`), now an `IF`. The attempt to prove `OneFilePerNode` with any number of
calls showed the two races of a landing (`landing_adopts`, `landing_trash`), which need a
fourth call that the run's bound had cut off; the run now has it, and `crossed` names them.
That of `NewerStays` showed that no restriction to one worker per node was needed: an
overtaken upload is recognised by its row, which is gone.

An observation from the proof: a worker caught between computing its wait and taking
the lock may miss a wake-up that another worker takes. `NoLostWakeup` therefore only
promises that somebody is up, not that all are: a due row may wait for a busy worker
although another one sleeps, at most until the idle poll.

## 5. Plan

Done: all modules of section 2, and the proofs of section 4.

1. `BlockCache`: pins, budgets and running totals, beside `ReadPath`.
2. Folders and the push pass in `MirrorSync`; moves between locations; the conflict
   sweep; the front-ends' mailboxes.

## 6. Not modelled

The code of the daemon's core is about a quarter of the repository's lines; the
rest is user interface, command line, photos, tests and parsing, in which there is
nothing to interleave.

* User interfaces (GTK app, launcher, tray), the command line and the formats of the
  control socket: clients of the daemon, without state of the system.
* Authentication, keys and cryptography: libraries and dialogues.
* Database migrations and maintenance: transactions are the atomic steps of the modules.
* Bandwidth limits and progress: properties of real time.
* Photos, albums, archives, version history: tables of their own, mostly parsing and
  single remote calls.
* Pins and budgets of the content cache, thumbnails, block geometry and the read-ahead
  window; push events, moves between locations, the conflict
  sweep, devices: planned, see above. In `EventSync` the cache is the revision whose
  bytes are there.
* In the modelled parts: truncate by path, fsync recovery, rename over and unlink of an
  open file, folders made beside their children, moves between folders, discards by the
  user, inode numbers and lookup counts.
