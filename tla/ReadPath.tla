------------------------------ MODULE ReadPath ------------------------------
(***************************************************************************)
(* Reads of one file that is on Drive (pdfs-fuse/src/reads.rs, with the    *)
(* block cache of pdfs-core/src/cache.rs): a read takes the version the    *)
(* tree has, looks for its blocks in memory and on disk, and fetches the   *)
(* rest through a revision reader that all reads of that version share.    *)
(* Readers are opened once, and blocks fetched once, however many reads    *)
(* want them; the others wait for the one that leads.                      *)
(*                                                                         *)
(* A version is the pair of modification time and size everything here is  *)
(* tagged with, and is written as the revision it belongs to.  Bytes are   *)
(* written as the revision they are from.  The file's blocks are the same  *)
(* in every revision; sizes are there for the check of a reader's size.    *)
(* A write of this machine has a stamp of its own until Drive has answered *)
(* for its revision; that stamp is written as the revision it became.      *)
(* What other files push out of the bounded caches goes by Pressure, what  *)
(* handlers of writes and deletes evict goes by Evict.  Reading ahead      *)
(* makes the calls a read makes and has no action of its own.              *)
(***************************************************************************)
EXTENDS Naturals, FiniteSets, FiniteSetsExt

CONSTANTS
    Threads,      \* threads that serve read(2)
    Blocks,       \* the blocks of the file, by index
    Ranges,       \* sets of blocks a read may be of
    Sizes,        \* sizes its revisions may have
    Caching,      \* cache_blocks: FALSE for a large video that is not pinned
    Mishaps,      \* what may go wrong, see MishapKinds
    MaxRev,       \* bound: revisions on Drive
    MaxRead,      \* bound: reads
    MaxMishap     \* bound: how often something goes wrong

\* A call of Drive fails or the link with it, a block comes back short, a read
\* reaches READ_FETCH_TIMEOUT, an entry is pushed out of a cache or evicted.
MishapKinds == {"open", "read", "short", "link", "deadline", "drop"}

ASSUME ReadAssumption ==
    /\ Blocks \subseteq Nat /\ IsFiniteSet(Blocks) /\ Sizes \subseteq Nat /\ Sizes # {}
    /\ Ranges \subseteq (SUBSET Blocks) \ {{}}
    /\ Caching \in BOOLEAN /\ Mishaps \subseteq MishapKinds
    /\ MaxRev \in Nat \ {0} /\ MaxRead \in Nat /\ MaxMishap \in Nat

NoOne == "no one"
Drain == "the drain"
ASSUME NoOneAssumption == NoOne \notin Threads /\ Drain \notin Threads

VARIABLES
    drive,    \* Drive: the active revision
    size,     \* Drive: the size of each revision
    tree,     \* the version the tree has
    slot,     \* Core::readers of the file
    flight,   \* BlockFlight: who fetches which block of which version
    ring,     \* BlockRing: the file's tag and its blocks
    disk,     \* the block cache: the version in .meta, and in the block file the
              \*   version its store was for and the bytes
    whole,    \* the blob of the whole file: the same, of its .meta and its file
    stores,   \* store_block tasks that were spawned
    adopts,   \* whole files on their way into whole: what store_file was called
              \*   with, how far it is, and which read waits for it
    pc,       \* where each thread is
    tag,      \* the version it reads
    todo,     \* blocks it has yet to look for, then those it has to fetch
    want,     \* blocks it reads
    got,      \* what it has of them
    leader,   \* whose open of a revision it waits for
    reader,   \* the revision its reader is pinned to
    task,     \* its fetch of each block
    retried,  \* it has tried again after a lost link
    mixed,    \* history: versions that were given a file stored for another one,
              \*   or an upload that was another revision
    used      \* reads and mishaps so far

driveVars == <<drive, size, tree>>
cacheVars == <<ring, disk, whole, stores, adopts>>
readVars  == <<tag, todo, want, got, leader, reader, retried>>
vars == <<driveVars, cacheVars, readVars, slot, flight, pc, task, mixed, used>>

Versions == 1 .. MaxRev
Nothing  == 0                 \* no bytes, or no tag
Missing  == [tag |-> Nothing, by |-> Nothing, rev |-> Nothing]
NoSlot   == [kind |-> "none", tag |-> Nothing, by |-> NoOne, rev |-> Nothing]
NoBlocks == [b \in Blocks |-> Nothing]
NoRing   == [tag |-> Nothing, has |-> NoBlocks]
NoTasks  == [b \in Blocks |-> "none"]

Init ==
    /\ drive = 1 /\ tree = 1
    /\ size \in [Versions -> Sizes] /\ size[1] = Min(Sizes)
    /\ slot = NoSlot
    /\ flight = [v \in Versions |-> [b \in Blocks |-> NoOne]]
    /\ ring = NoRing /\ disk = [b \in Blocks |-> Missing]
    /\ whole = Missing /\ stores = {} /\ adopts = {}
    /\ pc = [r \in Threads |-> "idle"]
    /\ tag = [r \in Threads |-> Nothing] /\ reader = [r \in Threads |-> Nothing]
    /\ leader = [r \in Threads |-> NoOne]
    /\ todo = [r \in Threads |-> {}] /\ want = [r \in Threads |-> {}]
    /\ got = [r \in Threads |-> NoBlocks] /\ task = [r \in Threads |-> NoTasks]
    /\ retried = [r \in Threads |-> FALSE]
    /\ mixed = {}
    /\ used = [reads |-> 0, mishaps |-> 0]

Mishap(kind) ==
    /\ kind \in Mishaps /\ used.mishaps < MaxMishap
    /\ used' = [used EXCEPT !.mishaps = @ + 1]

-----------------------------------------------------------------------------
(***************************************************************************)
(* The file's revisions                                                    *)
(***************************************************************************)

\* Somebody writes the file (external).
DriveChanges ==
    /\ drive < MaxRev /\ drive' = drive + 1
    /\ UNCHANGED <<size, tree, cacheVars, readVars, slot, flight, pc, task, mixed, used>>

\* The feed reports a change, maybe once more, and the cached content goes
\* (apply_event); the event of an upload of this machine may be passed over.  Readers
\* and the ring are left to their tags.
Hear ==
    /\ drive > 1
    /\ disk' = [b \in Blocks |-> Missing] /\ whole' = Missing
    /\ UNCHANGED <<driveVars, ring, stores, adopts, readVars, slot, flight, pc, task, mixed, used>>

\* A lookup or listing gives the tree the new time and size.
Refresh ==
    /\ tree < drive /\ tree' = drive
    /\ UNCHANGED <<drive, size, cacheVars, readVars, slot, flight, pc, task, mixed, used>>

-----------------------------------------------------------------------------
(***************************************************************************)
(* The caches                                                              *)
(***************************************************************************)

\* BlockRing::insert: blocks of another version go first.
Insert(t, b, rev) ==
    IF ring.tag # t THEN [tag |-> t, has |-> [NoBlocks EXCEPT ![b] = rev]]
    ELSE IF ring.has[b] # Nothing THEN ring
    ELSE [ring EXCEPT !.has[b] = rev]

\* BlockRing::get
RingAny(t, b) == ring.has[b] # Nothing                   \* mutant: of any version
RingHas(t, b) == ring.tag = t /\ ring.has[b] # Nothing

\* block_tag: what .meta says, whatever the block file is.
Tagged(t, b) == Caching /\ disk[b].tag = t

\* store_block: the block file is renamed into place, then .meta is written.
StoreRename(s) ==
    /\ s.step = "rename"
    /\ disk' = [disk EXCEPT ![s.block].by = s.tag, ![s.block].rev = s.rev]
    /\ stores' = (stores \ {s}) \cup {[s EXCEPT !.step = "meta"]}
    /\ UNCHANGED <<driveVars, ring, whole, adopts, readVars, slot, flight, pc, task, mixed, used>>

StoreMeta(s) ==
    /\ s.step = "meta"
    /\ disk' = [disk EXCEPT ![s.block].tag = s.tag] /\ stores' = stores \ {s}
    /\ UNCHANGED <<driveVars, ring, whole, adopts, readVars, slot, flight, pc, task, mixed, used>>

\* Other files, or a budget made smaller: trim_readers, the ring's limit,
\* enforce_pool.  Only a finished reader is dropped.
Pressure ==
    /\ Mishap("drop")
    /\ \/ slot.kind = "ready" /\ slot' = NoSlot /\ UNCHANGED <<ring, disk, whole>>
       \/ \E b \in Blocks :
            /\ ring.has[b] # Nothing
            /\ ring' = IF \A c \in Blocks \ {b} : ring.has[c] = Nothing THEN NoRing
                       ELSE [ring EXCEPT !.has[b] = Nothing]
            /\ UNCHANGED <<slot, disk, whole>>
       \/ \E b \in Blocks :
            /\ disk[b] # Missing /\ disk' = [disk EXCEPT ![b] = Missing]
            /\ UNCHANGED <<slot, ring, whole>>
       \/ whole # Missing /\ whole' = Missing /\ UNCHANGED <<slot, ring, disk>>
    /\ UNCHANGED <<driveVars, stores, adopts, readVars, flight, pc, task, mixed>>

\* evict_reader, called for a write, a delete or a sealed revision of the file;
\* it takes an open under way with it.
OnlyReady == IF slot.kind = "ready" THEN NoSlot ELSE slot    \* mutant
Evicted == NoSlot

Evict ==
    /\ Mishap("drop") /\ (slot # NoSlot \/ ring # NoRing)
    /\ slot' = Evicted /\ ring' = NoRing
    /\ UNCHANGED <<driveVars, disk, whole, stores, adopts, readVars, flight, pc, task, mixed>>

-----------------------------------------------------------------------------
(***************************************************************************)
(* The blob of the whole file                                              *)
(***************************************************************************)

Adopt(t, rev, step, for) == [tag |-> t, rev |-> rev, step |-> step, for |-> for]

\* The entry s is at another step of its way, maybe with a version it lacked.
Passes(s, t, step) == adopts' = (adopts \ {s}) \cup {[s EXCEPT !.tag = t, !.step = step]}
Done(s) == adopts' = adopts \ {s}

\* place_landed: the tree has the version from then on, unless a newer write is
\* queued.
Placed(t) == tree' \in {tree, t}

\* An upload of this machine is sealed (dispatch_op).
Seal ==
    /\ drive < MaxRev /\ drive' = drive + 1
    /\ adopts' = adopts \cup {Adopt(Nothing, drive', "sealed", Drain)}
    /\ UNCHANGED <<size, tree, ring, disk, whole, stores, readVars, slot, flight, pc, task,
                   mixed, used>>

\* Its answer is there.  What reads of the old revision had open goes, and the node
\* is read back (refresh_after_upload).  The blob is stored under the version Drive
\* answers with, which is another one when somebody wrote the file in between, or,
\* when the node cannot be read, under the stamp the tree has for it.  One of
\* another size, or too large to keep, is not stored.
ReadBack(s) ==
    /\ s.step = "sealed" /\ slot' = NoSlot /\ ring' = NoRing
    /\ \E t \in {drive, s.rev} :
         \/ /\ size[t] = size[s.rev] /\ Passes(s, t, "rename") /\ UNCHANGED tree
            /\ mixed' = IF t = s.rev THEN mixed ELSE mixed \cup {t}
         \/ Done(s) /\ Placed(t) /\ UNCHANGED mixed
    /\ UNCHANGED <<drive, size, disk, whole, stores, readVars, flight, pc, task, used>>

\* fetch_content: the file is opened from the app, or pinned, under a version the
\* tree had, and the revision that is active is downloaded.
FetchContent ==
    /\ used.reads < MaxRead /\ used' = [used EXCEPT !.reads = @ + 1]
    /\ \E t \in 1 .. tree : adopts' = adopts \cup {Adopt(t, drive, "rename", NoOne)}
    /\ UNCHANGED <<driveVars, ring, disk, whole, stores, readVars, slot, flight, pc, task, mixed>>

\* store_file: the file is renamed into place, and then .meta is written; there is
\* no lock.
AdoptRename(s) ==
    /\ s.step = "rename" /\ Passes(s, s.tag, "meta")
    /\ whole' = [whole EXCEPT !.by = s.tag, !.rev = s.rev]
    /\ UNCHANGED <<driveVars, ring, disk, stores, readVars, slot, flight, pc, task, mixed, used>>

AdoptMeta(s) ==
    /\ s.step = "meta" /\ Done(s)
    /\ whole' = [whole EXCEPT !.tag = s.tag]
    /\ IF s.for = Drain THEN Placed(s.tag) ELSE UNCHANGED tree
    /\ task' = [r \in Threads |-> [b \in Blocks |->
                  IF s.for = r /\ task[r][b] = "store" THEN "stored" ELSE task[r][b]]]
    /\ UNCHANGED <<drive, size, ring, disk, stores, readVars, slot, flight, pc, mixed, used>>

\* valid_blob: .meta is of the version, and the file has its size.
BlobOf(t) == whole.tag = t /\ whole.rev # Nothing /\ size[whole.rev] = size[t]

\* cache.read_range opens the file after that.  It may be gone by then, or be a
\* shorter one.
BlobThere    == whole.rev # Nothing
BlobLacks(t) == BlobThere => size[whole.rev] < size[t]

\* Whose file it is that a read of version t was given.
Served(t, by) == mixed' = IF by \in {Nothing, t} THEN mixed ELSE mixed \cup {t}

-----------------------------------------------------------------------------
(***************************************************************************)
(* A read: read_range_remote                                               *)
(***************************************************************************)

Goto(r, step) == pc' = [pc EXCEPT ![r] = step]

\* The version is the tree's; it may be old by the time it is used, as is the one
\* an open or queued write has as its base.  The blob of the whole file comes first.
Start(r) ==
    /\ pc[r] = "idle"
    /\ used.reads < MaxRead /\ used' = [used EXCEPT !.reads = @ + 1]
    /\ \E bs \in Ranges : LET t == tree IN
         /\ tag' = [tag EXCEPT ![r] = t] /\ want' = [want EXCEPT ![r] = bs]
         /\ retried' = [retried EXCEPT ![r] = FALSE]
         /\ todo' = [todo EXCEPT ![r] = bs]
         /\ Goto(r, IF BlobOf(t) THEN "blob" ELSE "look")
    /\ UNCHANGED <<driveVars, cacheVars, got, leader, reader, slot, flight, task, mixed>>

\* All of the read is of the blob, or none.
Blob(r) ==
    /\ pc[r] = "blob"
    /\ \/ /\ BlobThere /\ Goto(r, "done") /\ Served(tag[r], whole.by)
          /\ got' = [got EXCEPT ![r] = [b \in Blocks |-> IF b \in want[r] THEN whole.rev ELSE Nothing]]
       \/ BlobLacks(tag[r]) /\ Goto(r, "look") /\ UNCHANGED <<got, mixed>>
    /\ UNCHANGED <<driveVars, cacheVars, tag, todo, want, leader, reader, retried, slot, flight,
                   task, used>>

\* Where the read goes when it has looked for block b and has g of the blocks.
Looked(r, b, g) ==
    LET more   == todo[r] \ {b}
        misses == {c \in want[r] : g[c] = Nothing} IN
    /\ got' = [got EXCEPT ![r] = g]
    /\ todo' = [todo EXCEPT ![r] = IF more # {} THEN more ELSE misses]
    /\ Goto(r, IF more # {} THEN "look" ELSE IF misses = {} THEN "done" ELSE "reader")

Found(r, b, rev) == Looked(r, b, [got[r] EXCEPT ![b] = rev])

\* One block after the other: the ring, then the block cache.
Look(r) ==
    /\ pc[r] = "look"
    /\ LET b == Min(todo[r]) IN
       \/ RingHas(tag[r], b) /\ Found(r, b, ring.has[b]) /\ UNCHANGED ring
       \/ /\ ~RingHas(tag[r], b) /\ Tagged(tag[r], b)
          /\ Goto(r, "peek") /\ UNCHANGED <<todo, got, ring>>
       \/ ~RingHas(tag[r], b) /\ ~Tagged(tag[r], b) /\ Looked(r, b, got[r]) /\ UNCHANGED ring
    /\ UNCHANGED <<driveVars, disk, whole, stores, adopts, tag, want, leader, reader, retried, slot,
                   flight, task, mixed, used>>

\* cached_block opens the block file after it has read .meta, and whatever
\* is there is put into the ring.
Peek(r) ==
    /\ pc[r] = "peek"
    /\ LET b == Min(todo[r]) IN
         /\ Found(r, b, disk[b].rev)
         /\ ring' = IF disk[b].rev = Nothing THEN ring ELSE Insert(tag[r], b, disk[b].rev)
         /\ Served(tag[r], disk[b].by)
    /\ UNCHANGED <<driveVars, disk, whole, stores, adopts, tag, want, leader, reader, retried, slot,
                   flight, task, used>>

-----------------------------------------------------------------------------
(***************************************************************************)
(* revision_reader                                                         *)
(***************************************************************************)

\* The block tasks of a read that has its reader.
Fetching(r) == [b \in Blocks |-> IF b \in todo[r] THEN "claim" ELSE "none"]

\* A reader, or an open under way, for the version that is wanted.
SlotFor(r, kind) == slot.kind = kind /\ slot.tag = tag[r]

Hit(r) ==
    /\ pc[r] = "reader" /\ SlotFor(r, "ready")
    /\ reader' = [reader EXCEPT ![r] = slot.rev] /\ Goto(r, "fetch")
    /\ task' = [task EXCEPT ![r] = Fetching(r)]
    /\ UNCHANGED <<driveVars, cacheVars, tag, todo, want, got, leader, retried, slot, flight, mixed, used>>

\* A leader that is gone has closed its channel: a read that joins it comes back
\* at once and looks at the same slot again, until somebody takes it away.
Join(r) ==
    /\ pc[r] = "reader" /\ SlotFor(r, "pending") /\ pc[slot.by] = "opening"
    /\ Goto(r, "join") /\ leader' = [leader EXCEPT ![r] = slot.by]
    /\ UNCHANGED <<driveVars, cacheVars, tag, todo, want, got, reader, retried, slot, flight, task, mixed, used>>

Lead(r) ==
    /\ pc[r] = "reader" /\ ~SlotFor(r, "ready") /\ ~SlotFor(r, "pending")
    /\ slot' = [kind |-> "pending", tag |-> tag[r], by |-> r, rev |-> Nothing]
    /\ Goto(r, "opening")
    /\ UNCHANGED <<driveVars, cacheVars, readVars, flight, task, mixed, used>>
\* Those who wait for r's open.
Joined(r) == {q \in Threads : pc[q] = "join" /\ leader[q] = r}
Ours(r)   == slot.kind = "pending" /\ slot.by = r

\* open_revision answers with a reader of the active revision, whatever version
\* was wanted.  It is kept in the slot if that is still the leader's own, and
\* everyone who joined gets it.
Open(r) ==
    /\ pc[r] = "opening"
    /\ slot' = IF Ours(r) THEN [slot EXCEPT !.kind = "ready", !.rev = drive] ELSE slot
    /\ LET all == {r} \cup Joined(r) IN
         /\ reader' = [q \in Threads |-> IF q \in all THEN drive ELSE reader[q]]
         /\ pc' = [q \in Threads |-> IF q \in all THEN "fetch" ELSE pc[q]]
         /\ leader' = [q \in Threads |-> IF q \in all THEN NoOne ELSE leader[q]]
         /\ task' = [q \in Threads |-> IF q \in all THEN Fetching(q) ELSE task[q]]
    /\ UNCHANGED <<driveVars, cacheVars, tag, todo, want, got, retried, flight, mixed, used>>

\* A failure is never kept, and everyone who joined fails with it.
OpenFails(r) ==
    /\ pc[r] = "opening" /\ Mishap("open")
    /\ slot' = IF Ours(r) THEN NoSlot ELSE slot
    /\ LET all == {r} \cup Joined(r) IN
         /\ pc' = [q \in Threads |-> IF q \in all THEN "failed" ELSE pc[q]]
         /\ leader' = [q \in Threads |-> IF q \in all THEN NoOne ELSE leader[q]]
    /\ UNCHANGED <<driveVars, cacheVars, tag, todo, want, got, reader, retried, flight, task, mixed>>

-----------------------------------------------------------------------------
(***************************************************************************)
(* fetch_block and read_block                                              *)
(***************************************************************************)

Claim(r, b) ==
    /\ pc[r] = "fetch" /\ task[r][b] = "claim"
    /\ IF flight[tag[r]][b] = NoOne
       THEN /\ flight' = [flight EXCEPT ![tag[r]][b] = r]
            /\ task' = [task EXCEPT ![r][b] = "lead"]
       ELSE /\ task' = [task EXCEPT ![r][b] = "follow"] /\ UNCHANGED flight
    /\ UNCHANGED <<driveVars, cacheVars, readVars, slot, pc, mixed, used>>

\* Who waits for r's fetch of b.
Leads(r, b) == flight[tag[r]][b] = r
Followers(r, b) ==
    IF Leads(r, b) THEN {q \in Threads : tag[q] = tag[r] /\ task[q][b] = "follow"} ELSE {}

\* The claim is retired, and then the outcome given to all who follow.
Outcome(r, b, state) ==
    /\ task' = [q \in Threads |-> IF q \in {r} \cup Followers(r, b)
                                 THEN [task[q] EXCEPT ![b] = state] ELSE task[q]]
    /\ flight' = IF Leads(r, b) THEN [flight EXCEPT ![tag[r]][b] = NoOne] ELSE flight

Landed(r, b, rev) ==
    /\ got' = [q \in Threads |-> IF q \in {r} \cup Followers(r, b)
                                THEN [got[q] EXCEPT ![b] = rev] ELSE got[q]]
    /\ Outcome(r, b, "none")

\* The block is put into the ring, and on disk by a task of its own.
Keep(r, b, rev) ==
    /\ ring' = Insert(tag[r], b, rev)
    /\ stores' = IF Caching
                  THEN stores \cup {[block |-> b, tag |-> tag[r], rev |-> rev, step |-> "rename"]}
                  ELSE stores

MayRead(r, b) == pc[r] = "fetch" /\ task[r][b] \in {"lead", "alone"}

ReadBlock(r, b) ==
    /\ MayRead(r, b) /\ size[reader[r]] = size[tag[r]]
    /\ Landed(r, b, reader[r]) /\ Keep(r, b, reader[r])
    /\ UNCHANGED <<driveVars, disk, whole, adopts, tag, todo, want, leader, reader, retried, slot,
                   pc, mixed, used>>

Becomes(r, b, state) == task' = [task EXCEPT ![r][b] = state]

\* A reader of another size is not used, nor a block that comes back short.
Short(r, b) ==
    /\ MayRead(r, b)
    /\ \/ size[reader[r]] # size[tag[r]] /\ UNCHANGED used
       \/ size[reader[r]] = size[tag[r]] /\ Mishap("short")
    /\ Becomes(r, b, "repair")
    /\ UNCHANGED <<driveVars, cacheVars, readVars, slot, flight, pc, mixed>>

\* repair_block: one repair of the file at a time has the lock, until its download
\* is stored, and looks whether the one before it has left the blob.
Repairing ==
    \/ \E q \in Threads, c \in Blocks : task[q][c] = "open"
    \/ \E s \in adopts : s.for \in Threads

RepairHit(r, b) ==
    /\ pc[r] = "fetch" /\ task[r][b] = "repair" /\ ~Repairing /\ BlobOf(tag[r])
    /\ Becomes(r, b, "open")
    /\ UNCHANGED <<driveVars, cacheVars, readVars, slot, flight, pc, mixed, used>>

\* The blob is not to be had as it is.
NoBlob(r, b) ==
    /\ pc[r] = "fetch"
    /\ \/ task[r][b] = "repair" /\ ~Repairing /\ ~BlobOf(tag[r])
       \/ task[r][b] = "open" /\ BlobLacks(tag[r])

\* download_whole_revision: the active revision, if it has the size that is wanted.
Download(r, b) ==
    /\ NoBlob(r, b) /\ size[drive] = size[tag[r]]
    /\ adopts' = adopts \cup {Adopt(tag[r], drive, "rename", r)}
    /\ Becomes(r, b, "store")
    /\ UNCHANGED <<driveVars, ring, disk, whole, stores, readVars, slot, flight, pc, mixed, used>>

\* The download is stored and the lock let go, and the blob is looked at again.
RepairRead(r, b) ==
    /\ pc[r] = "fetch" /\ task[r][b] = "stored" /\ BlobOf(tag[r])
    /\ Becomes(r, b, "read")
    /\ UNCHANGED <<driveVars, cacheVars, readVars, slot, flight, pc, mixed, used>>

\* The block is read from the blob.
Repaired(r, b) ==
    /\ pc[r] = "fetch" /\ task[r][b] \in {"open", "read"} /\ BlobThere
    /\ Served(tag[r], whole.by)
    /\ Landed(r, b, whole.rev) /\ Keep(r, b, whole.rev)
    /\ UNCHANGED <<driveVars, disk, whole, adopts, tag, todo, want, leader, reader, retried, slot,
                   pc, used>>

\* The block cannot be had: a call fails, the file is too large to repair, the
\* repair finds another size, or the blob it has stored is gone.
NoBlock(r, b) ==
    /\ pc[r] = "fetch"
    /\ \/ task[r][b] \in {"lead", "alone", "repair", "open"} /\ Mishap("read")
       \/ NoBlob(r, b) /\ size[drive] # size[tag[r]] /\ UNCHANGED used
       \/ task[r][b] = "stored" /\ ~BlobOf(tag[r]) /\ UNCHANGED used
       \/ task[r][b] = "read" /\ BlobLacks(tag[r]) /\ UNCHANGED used
    /\ Outcome(r, b, "failed")
    /\ UNCHANGED <<driveVars, cacheVars, readVars, slot, pc, mixed>>

-----------------------------------------------------------------------------
(***************************************************************************)
(* The end of a read                                                       *)
(***************************************************************************)

\* The tasks of r are dropped: its claims are retired (Flight::drop), and who
\* followed one of them reads the block alone.
Abort(r) ==
    /\ flight' = [v \in Versions |-> [b \in Blocks |->
                      IF flight[v][b] = r THEN NoOne ELSE flight[v][b]]]
    /\ task' = [q \in Threads |-> IF q = r THEN NoTasks
                 ELSE [b \in Blocks |-> IF q \in Followers(r, b) THEN "alone" ELSE task[q][b]]]

Fetched(r) ==
    /\ pc[r] = "fetch" /\ \A b \in Blocks : task[r][b] = "none"
    /\ Goto(r, "done")
    /\ UNCHANGED <<driveVars, cacheVars, readVars, slot, flight, task, mixed, used>>

\* A block failed: the read fails, its other tasks are dropped, and with them
\* what it has fetched.
FetchFails(r) ==
    /\ pc[r] = "fetch" /\ \E b \in Blocks : task[r][b] = "failed"
    /\ Abort(r) /\ Goto(r, "failed")
    /\ got' = [got EXCEPT ![r] = [b \in Blocks |-> IF b \in todo[r] THEN Nothing ELSE @[b]]]
    /\ UNCHANGED <<driveVars, cacheVars, tag, todo, want, leader, reader, retried, slot, mixed, used>>

\* With the link lost the read waits for it and tries once more.
Retry(r) ==
    /\ pc[r] = "failed" /\ ~retried[r] /\ "link" \in Mishaps
    /\ retried' = [retried EXCEPT ![r] = TRUE] /\ Goto(r, "reader")
    /\ UNCHANGED <<driveVars, cacheVars, tag, todo, want, got, leader, reader, slot, flight, task,
                   mixed, used>>

Over(r) ==
    /\ tag' = [tag EXCEPT ![r] = Nothing] /\ want' = [want EXCEPT ![r] = {}]
    /\ got' = [got EXCEPT ![r] = NoBlocks] /\ reader' = [reader EXCEPT ![r] = Nothing]
    /\ todo' = [todo EXCEPT ![r] = {}] /\ UNCHANGED <<leader, retried>>

GiveUp(r) ==
    /\ pc[r] = "failed" /\ Over(r) /\ Goto(r, "idle")
    /\ UNCHANGED <<driveVars, cacheVars, slot, flight, task, mixed, used>>

\* The link is not back within READ_OFFLINE_WAIT.
Offline(r) ==
    /\ pc[r] = "reader" /\ Mishap("link") /\ Over(r) /\ Goto(r, "idle")
    /\ UNCHANGED <<driveVars, cacheVars, slot, flight, task, mixed>>

\* The read is answered.
Answer(r) ==
    /\ pc[r] = "done" /\ Over(r) /\ Goto(r, "idle")
    /\ UNCHANGED <<driveVars, cacheVars, slot, flight, task, mixed, used>>

\* READ_FETCH_TIMEOUT: the fetch is dropped where it stands.  A channel its open
\* had is closed, and who waited looks at the slot again.
Drop(r) ==
    /\ Abort(r)
    /\ leader' = [q \in Threads |-> IF q = r \/ q \in Joined(r) THEN NoOne ELSE leader[q]]

Deadline(r) ==
    /\ pc[r] \in {"opening", "join", "fetch"} /\ Mishap("deadline")
    /\ Drop(r)
    /\ pc' = [q \in Threads |-> IF q = r THEN "evict" ELSE IF q \in Joined(r) THEN "reader" ELSE pc[q]]
    /\ UNCHANGED <<driveVars, cacheVars, tag, todo, want, got, reader, retried, slot, mixed>>

\* The reader that gave no answer is evicted.
EvictReader(r) ==
    /\ pc[r] = "evict" /\ slot' = Evicted /\ ring' = NoRing
    /\ Over(r) /\ Goto(r, "idle")
    /\ UNCHANGED <<driveVars, disk, whole, stores, adopts, flight, task, mixed, used>>

Step(r) ==
    \/ Blob(r) \/ Look(r) \/ Peek(r) \/ Hit(r) \/ Join(r) \/ Lead(r) \/ Open(r)
    \/ (\E b \in Blocks :
            \/ Claim(r, b) \/ ReadBlock(r, b) \/ Short(r, b) \/ NoBlock(r, b)
            \/ RepairHit(r, b) \/ Download(r, b) \/ RepairRead(r, b) \/ Repaired(r, b))
    \/ Fetched(r) \/ FetchFails(r) \/ GiveUp(r) \/ Answer(r) \/ EvictReader(r)

Next ==
    \/ DriveChanges \/ Hear \/ Refresh \/ Pressure \/ Evict
    \/ \E s \in stores : StoreRename(s) \/ StoreMeta(s)
    \/ Seal \/ FetchContent
    \/ \E s \in adopts : ReadBack(s) \/ AdoptRename(s) \/ AdoptMeta(s)
    \/ \E r \in Threads : Start(r) \/ Step(r) \/ OpenFails(r) \/ Retry(r) \/ Offline(r) \/ Deadline(r)

Spec == Init /\ [][Next]_vars

\* A thread goes on, and so does the store of a download, which one waits for; a
\* call of Drive is answered.
FairSpec ==
    /\ Spec /\ \A r \in Threads : WF_vars(Step(r))
    /\ WF_vars(\E s \in adopts : AdoptRename(s) \/ AdoptMeta(s))

-----------------------------------------------------------------------------
(***************************************************************************)
(* Properties                                                              *)
(***************************************************************************)

Rev == 0 .. MaxRev
Slots   == [kind : {"none", "pending", "ready"}, tag : Rev, by : Threads \cup {NoOne}, rev : Rev]
Rings   == [tag : Rev, has : [Blocks -> Rev]]
Files   == [tag : Rev, by : Rev, rev : Rev]
Stores  == [block : Blocks, tag : Versions, rev : Versions, step : {"rename", "meta"}]
Adopts  == [tag : Rev, rev : Versions, for : Threads \cup {NoOne, Drain},
            step : {"sealed", "rename", "meta"}]
Uses    == [reads : 0 .. MaxRead, mishaps : 0 .. MaxMishap]
Places  == {"idle", "blob", "look", "peek", "reader", "join", "opening", "fetch", "failed", "evict", "done"}
Fetches == {"none", "claim", "lead", "follow", "alone", "repair", "open", "store", "stored", "read",
            "failed"}

\* Each variable has its type.
TypeOK ==
    /\ drive \in Versions /\ tree \in 1 .. drive
    /\ size \in [Versions -> Sizes]
    /\ slot \in Slots /\ flight \in [Versions -> [Blocks -> Threads \cup {NoOne}]]
    /\ ring \in Rings /\ disk \in [Blocks -> Files] /\ whole \in Files
    /\ stores \subseteq Stores /\ adopts \subseteq Adopts
    /\ pc \in [Threads -> Places] /\ tag \in [Threads -> Rev] /\ reader \in [Threads -> Rev]
    /\ todo \in [Threads -> SUBSET Blocks] /\ want \in [Threads -> SUBSET Blocks]
    /\ got \in [Threads -> [Blocks -> Rev]] /\ leader \in [Threads -> Threads \cup {NoOne}]
    /\ task \in [Threads -> [Blocks -> Fetches]] /\ retried \in [Threads -> BOOLEAN]
    /\ mixed \subseteq Versions /\ used \in Uses

\* A read is never given bytes older than the version it reads, however late
\* an open, a fetch or a store for an earlier version ends ("anything held for
\* this node describes the old one", BlockRing::insert; "it would get a reader
\* for the wrong bytes", PendingOpen), or an upload lands beside the read.  There
\* are two ways past it, and mixed has the versions they were for: the file of a
\* block, or of the whole, is replaced between its .meta and the open of it, and
\* an upload is stored under the version of somebody else's revision of the same
\* size that was sealed before Drive was asked for the node.
NeverOlder ==
    \A r \in Threads, b \in Blocks :
        got[r][b] # Nothing /\ tag[r] \notin mixed => got[r][b] >= tag[r]

\* The same of every block: "validated against (mtime, size) and the block's
\* plaintext start, so both a new revision and a re-planned geometry are
\* detected" (cached_block).
BlocksValid == \A r \in Threads, b \in Blocks : got[r][b] # Nothing => got[r][b] >= tag[r]

\* What is read is of one revision: "a new revision can never be stitched together
\* from the old one" (BlockRing).
NeverStitched == \A r \in Threads : pc[r] = "done" => Cardinality({got[r][b] : b \in want[r]}) = 1

\* A read whose calls are answered ends without its deadline, and the thread is
\* free again: nobody is left waiting for a leader that failed or reached its own
\* (revision_reader, fetch_block), or for the lock of a repair (repair_block).
EveryReadEnds == \A r \in Threads : []<>(pc[r] = "idle")

-----------------------------------------------------------------------------
(***************************************************************************)
(* Why NeverOlder holds: whatever is kept for a version was read from, or  *)
(* was, a revision that was active after that version was, or is accounted *)
(* for in mixed.                                                           *)
(***************************************************************************)

\* A read reads a version Drive has had; an idle thread holds nothing.
ReadsKnown ==
    \A r \in Threads :
        /\ tag[r] <= drive /\ (pc[r] # "idle" => tag[r] # Nothing)
        /\ pc[r] = "idle" => got[r] = NoBlocks
        /\ pc[r] \in {"blob", "look", "peek"} => todo[r] # {}

\* Block tasks belong to a read that fetches.
TasksFetch == \A r \in Threads : pc[r] # "fetch" => task[r] = NoTasks

\* A reader is never of an older revision than it was opened for.
ReadersCurrent ==
    /\ slot.tag <= drive /\ (slot.kind = "ready" => slot.tag <= slot.rev)
    /\ \A r \in Threads : pc[r] = "fetch" => tag[r] <= reader[r]

\* A file is of the version it was stored for, or of a later one.
Stored(f) == (f.by \in mixed \/ f.by <= f.rev) /\ (f.by = Nothing => f.rev = Nothing)

\* Nor are cached bytes older than what they are kept for.
CachesCurrent ==
    /\ ring.tag \in mixed \/ \A b \in Blocks : ring.has[b] # Nothing => ring.tag <= ring.has[b]
    /\ \A b \in Blocks : Stored(disk[b])
    /\ Stored(whole)
    /\ \A s \in stores : s.tag \in mixed \/ s.tag <= s.rev
    /\ \A s \in adopts :
         /\ s.rev <= drive /\ s.tag <= drive
         /\ s.step # "sealed" => s.tag # Nothing /\ (s.tag \in mixed \/ s.tag <= s.rev)

\* The inductive invariant.
Inv == TypeOK /\ ReadsKnown /\ TasksFetch /\ ReadersCurrent /\ CachesCurrent /\ NeverOlder
=============================================================================
