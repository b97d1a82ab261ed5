---------------------------- MODULE SharedAccess ----------------------------
(***************************************************************************)
(* What the daemon lets be written in the trees other accounts share with   *)
(* it.  Drive owns the role this account has on a share root.  The daemon   *)
(* keeps two copies of it, the share_access table and the resident tree,    *)
(* and a write needs both to agree.  Three parties change the copies:       *)
(*                                                                          *)
(*  - a listing of "Shared with me", which asks Drive without a lock and    *)
(*    publishes under one (pdfs-fuse/src/lib.rs, ensure_shared_children);   *)
(*  - the event feed, which denies every known share when told that access  *)
(*    may have changed (pdfs-fuse/src/background.rs, apply_event);          *)
(*  - the read-back after an upload, which puts the node, with the          *)
(*    membership Drive gave it, into the tree (drain.rs, place_landed).     *)
(*                                                                          *)
(* A queued write waits while its root is denied or unknown, in a window    *)
(* past which it is reported (drain.rs, defer_for_access).  Each root here  *)
(* is one shared file with at most one queued write.                        *)
(***************************************************************************)
EXTENDS Naturals, Sequences, FiniteSets

CONSTANTS
    Roots,      \* the nodes shared with this account
    Listers,    \* threads that list "Shared with me"
    MaxEvents,  \* how often Drive changes what is shared, and tells the feed
    Faults,     \* which calls may fail
    MaxFault,   \* how many of them do
    MaxCrash    \* restarts of the daemon

ASSUME SharedAssumption == /\ MaxEvents \in Nat /\ MaxFault \in Nat /\ MaxCrash \in Nat

VARIABLES
    role,       \* Drive: "editor", "viewer" or "none" on each root
    feed,       \* Drive: the events of the feed, oldest first
    cursor,     \* table: how many of them are acknowledged
    access,     \* table share_access: "editor" or "viewer", with when it was seen
    rows,       \* table nodes: where the row of each root is, if it has one
    fresh,      \* table: the listing of "Shared with me" is less than its TTL old
    resident,   \* tree: the roots with an entry
    live,       \* tree: the access of each known root, with when it was seen
    generation, \* tree: shared_generation
    applied,    \* feed task: how many events this run has applied or tried to
    acking,     \* feed task: the event is applied and its cursor not yet written
    listing,    \* what each lister has learned from Drive
    op,         \* the write queued on each root, and how far it is
    window,     \* its access_deferred_since: "none", "open", or "over" the limit
    reported,   \* it has a recorded failure
    answer,     \* what the read-back of its upload found
    overtaken,  \* history: roots a copy of which a read-back overtaken by a denial wrote
    faults, crashes

tables == <<cursor, access, rows, fresh>>
tree == <<resident, live, generation>>
queue == <<op, window, reported, answer, overtaken>>
vars == <<role, feed, tables, tree, applied, acking, listing, queue, faults, crashes>>

Roles == {"editor", "viewer", "none"}
Level == {"editor", "viewer"}
Events == {"access"} \X {"all"} \cup {"deleted", "trashed"} \X Roots
Seen == [level: Level, asOf: 0..MaxEvents]
\* A child of "Shared with me" that is shown or withdrawn, or a node under the
\* parent Drive gives it.
Spots == {"none", "shown", "tombstone", "elsewhere"}
Children == {r \in Roots : rows[r] \in {"shown", "tombstone"}}
Idle == [step |-> "idle"]
\* What a lister holds: nothing, the accepted roots, or with them the roles of those
\* that materialized.
Listing ==
    {Idle} \cup [step: {"accepted"}, generation: Nat, accepted: SUBSET Roots]
      \cup [step: {"nodes"}, generation: Nat, accepted: SUBSET Roots, asOf: 0..MaxEvents,
             roles: UNION {[nodes -> Level] : nodes \in SUBSET Roots}]
Answer == [level: Level, asOf: 0..MaxEvents, generation: Nat]
Unread == [level |-> "viewer", asOf |-> 0, generation |-> 0]

Init ==
    /\ role = [r \in Roots |-> "editor"] /\ feed = <<>>
    /\ cursor = 0
    /\ access = [r \in Roots |-> [level |-> "editor", asOf |-> 0]] /\ live = access
    /\ rows = [r \in Roots |-> "shown"] /\ resident = Roots
    /\ fresh = TRUE
    /\ generation = 0 /\ applied = 0 /\ acking = FALSE
    /\ listing = [l \in Listers |-> Idle]
    /\ op = [r \in Roots |-> "none"] /\ window = [r \in Roots |-> "none"]
    /\ reported = [r \in Roots |-> FALSE]
    /\ answer = [r \in Roots |-> Unread]
    /\ overtaken = {}
    /\ faults = 0 /\ crashes = 0

Fail(kind) == kind \in Faults /\ faults < MaxFault /\ faults' = faults + 1
Now == Len(feed)
Told(e) == feed' = Append(feed, e)
Withdrawn(r) == \E k \in {"deleted", "trashed"} : \E i \in 1..Now : feed[i] = <<k, r>>
Denied == [level |-> "viewer", asOf |-> 0]

-----------------------------------------------------------------------------
(* Drive. Every change of what is shared is followed by an event.           *)

RoleChanges(r) ==
    /\ Now < MaxEvents /\ ~Withdrawn(r)
    /\ \E x \in Roles \ {role[r]} : role' = [role EXCEPT ![r] = x]
    /\ Told(<<"access", "all">>)
    /\ UNCHANGED <<tables, tree, applied, acking, listing, queue, faults, crashes>>

Withdraw(r) ==
    /\ Now < MaxEvents /\ ~Withdrawn(r)
    /\ role' = [role EXCEPT ![r] = "none"]
    /\ \E k \in {"deleted", "trashed"} : Told(<<k, r>>)
    /\ UNCHANGED <<tables, tree, applied, acking, listing, queue, faults, crashes>>

-----------------------------------------------------------------------------
(* uid_write_authority: the table first, then the entry if there is one.    *)

Authority(r) ==
    IF rows[r] = "none" THEN "unknown"
    ELSE IF access[r].level = "editor" /\ (r \in resident => live[r].level = "editor")
         THEN "writable" ELSE "denied"

Writable(r) == Authority(r) = "writable"

-----------------------------------------------------------------------------
(* The listing of "Shared with me".                                         *)

\* The generation is read before Drive is asked for the accepted shares.
Ask(l) ==
    /\ listing[l] = Idle /\ ~fresh
    /\ listing' = [listing EXCEPT ![l] =
          [step |-> "accepted", generation |-> generation,
           accepted |-> {r \in Roots : role[r] # "none"}]]
    /\ UNCHANGED <<role, feed, tables, tree, applied, acking, queue, faults, crashes>>

RolesOf(nodes) == [r \in {x \in nodes : role[x] # "none"} |-> role[r]]

\* enumerate_nodes_light, and prepare_shared_roots: the roles of the accepted roots
\* that materialize.
Materialize(l) ==
    LET j == listing[l] IN
    /\ j.step = "accepted"
    /\ \E omitted \in SUBSET j.accepted :
          /\ IF omitted = {} THEN UNCHANGED faults ELSE Fail("omit")
          /\ listing' = [listing EXCEPT ![l] =
                [step |-> "nodes", generation |-> j.generation, accepted |-> j.accepted,
                 asOf |-> Now, roles |-> RolesOf(j.accepted \ omitted)]]
    /\ UNCHANGED <<role, feed, tables, tree, applied, acking, queue, crashes>>

\* Mutant: a listing is published whatever happened since it was started.
PublishAlways(j) == TRUE
Current(j) == j.generation = generation

\* A listing an event came in the way of is given up, and taken again.
Overrun(l) ==
    /\ listing[l].step = "nodes" /\ ~Current(listing[l])
    /\ listing' = [listing EXCEPT ![l] = Idle]
    /\ UNCHANGED <<role, feed, tables, tree, applied, acking, queue, faults, crashes>>

\* Mutant: a root that was denied stays so.
PublishedSticky(j) ==
    [r \in Roots |-> IF r \in DOMAIN j.roles /\ access[r].level = "editor"
                     THEN [level |-> j.roles[r], asOf |-> j.asOf]
                     ELSE IF r \in j.accepted \cup Children THEN Denied ELSE access[r]]

\* publish_shared_roots: an accepted root that did not materialize keeps its row
\* and is denied; one no longer accepted is tombstoned and denied.
PublishedAccess(j) ==
    [r \in Roots |-> IF r \in DOMAIN j.roles
                     THEN [level |-> j.roles[r], asOf |-> j.asOf]
                     ELSE IF r \in j.accepted \cup Children THEN Denied ELSE access[r]]
PublishedRows(j) ==
    [r \in Roots |-> IF r \in DOMAIN j.roles THEN "shown"
                     ELSE IF r \in Children \ j.accepted THEN "tombstone" ELSE rows[r]]

\* The table in one transaction, then the tree, then the freshness stamp, all
\* under shared_publication.  What is withdrawn is denied and hidden in the tree,
\* what is shown is interned with the access published.
Publish(l) ==
    LET j == listing[l]
        shown == {r \in Roots : PublishedRows(j)[r] = "shown"}
    IN
    /\ j.step = "nodes" /\ Current(j)
    /\ access' = PublishedAccess(j) /\ rows' = PublishedRows(j)
    /\ live' = [r \in Roots |-> IF r \in shown \cup (Children \ j.accepted)
                                THEN PublishedAccess(j)[r] ELSE live[r]]
    /\ resident' = resident \cup shown
    /\ fresh' = TRUE
    /\ overtaken' = overtaken \ (shown \cup (Children \ j.accepted))
    /\ listing' = [listing EXCEPT ![l] = Idle]
    /\ UNCHANGED <<role, feed, cursor, generation, applied, acking, op, window, reported, answer,
                   faults, crashes>>

\* The transaction fails: what was accepted is denied in the tree.
PublishFails(l) ==
    LET j == listing[l] IN
    /\ j.step = "nodes" /\ Current(j) /\ Fail("publish")
    /\ live' = [r \in Roots |-> IF r \in j.accepted THEN Denied ELSE live[r]]
    /\ listing' = [listing EXCEPT ![l] = Idle]
    /\ UNCHANGED <<role, feed, tables, resident, generation, applied, acking, queue, crashes>>

\* The transaction is in and reading it back fails: the tree is left as it was.
ReloadFails(l) ==
    LET j == listing[l] IN
    /\ j.step = "nodes" /\ Current(j) /\ Fail("reload")
    /\ access' = PublishedAccess(j)
    /\ rows' = PublishedRows(j)
    /\ listing' = [listing EXCEPT ![l] = Idle]
    /\ UNCHANGED <<role, feed, cursor, fresh, tree, applied, acking, queue, crashes>>

\* A call to Drive fails: the listing answers EIO.
ListingFails(l) ==
    /\ listing[l].step = "accepted" /\ Fail("list")
    /\ listing' = [listing EXCEPT ![l] = Idle]
    /\ UNCHANGED <<role, feed, tables, tree, applied, acking, queue, crashes>>

\* SHARED_LISTING_TTL passes.
Expire ==
    /\ fresh /\ fresh' = FALSE
    /\ UNCHANGED <<role, feed, cursor, access, rows, tree, applied, acking, listing, queue, faults,
                   crashes>>

-----------------------------------------------------------------------------
(* The event feed.  An access event or the deletion of a shared node takes  *)
(* the publication lock, so it is one step beside a Publish.                *)

Event == feed[cursor + 1]

\* Whom the event denies: everyone, the deleted root, or nobody.
Denies(e) == CASE e[1] = "access" -> Roots
               [] e[1] = "deleted" -> {e[2]}
               [] OTHER -> {}

Bumped(e) == IF Denies(e) = {} THEN generation ELSE generation + 1

\* Mutant: the tree is denied only once the table is.
DenyIfWritten(e, written) ==
    [r \in Roots |-> IF written /\ r \in Denies(e) THEN Denied ELSE live[r]]

\* The tree is denied whether or not the table took the write.
DenyLive(e, written) ==
    [r \in Roots |-> IF r \in Denies(e) THEN Denied ELSE live[r]]

\* apply_event with the table written.  A trashed node is forgotten with its row,
\* and keeps its share_access row; a deleted one keeps its row as a tombstone.
Apply ==
    /\ cursor < Now /\ ~acking
    /\ generation' = Bumped(Event)
    /\ access' = [r \in Roots |-> IF r \in Denies(Event) THEN Denied ELSE access[r]]
    /\ live' = DenyLive(Event, TRUE)
    /\ rows' = [r \in Roots |-> IF Event = <<"trashed", r>> THEN "none"
                                ELSE IF Event = <<"deleted", r>> /\ r \in Children
                                     THEN "tombstone" ELSE rows[r]]
    /\ resident' = {r \in resident : Event # <<"trashed", r>>}
    /\ fresh' = (fresh /\ Event[1] # "access")
    /\ overtaken' = overtaken \ Denies(Event)
    /\ applied' = cursor + 1 /\ acking' = TRUE
    /\ UNCHANGED <<role, feed, cursor, listing, op, window, reported, answer, faults, crashes>>

\* The table refuses the denial: the event is not acknowledged and comes again.
\* The freshness stamp is a write of its own, and goes all the same.
ApplyFails ==
    /\ cursor < Now /\ ~acking /\ Denies(Event) # {} /\ Fail("apply")
    /\ generation' = Bumped(Event)
    /\ live' = DenyLive(Event, FALSE)
    /\ fresh' = (fresh /\ Event[1] # "access")
    /\ applied' = cursor + 1
    /\ UNCHANGED <<role, feed, cursor, access, rows, resident, acking, listing, queue,
                   crashes>>

\* acknowledge_applied_event: the cursor, or a failure to write it.
Acknowledge ==
    /\ acking /\ acking' = FALSE
    /\ \/ cursor' = cursor + 1 /\ UNCHANGED faults
       \/ Fail("ack") /\ UNCHANGED cursor
    /\ UNCHANGED <<role, feed, access, rows, fresh, tree, applied, listing, queue, crashes>>

-----------------------------------------------------------------------------
(* The queued write.                                                        *)

\* A write is accepted when every authority agrees (require_uid_writable).
Write(r) ==
    /\ op[r] = "none" /\ Writable(r)
    /\ op' = [op EXCEPT ![r] = "queued"]
    /\ UNCHANGED <<role, feed, tables, tree, applied, acking, listing, window, reported, answer,
                   overtaken, faults, crashes>>

\* run_authorized_drain: the check is the admission point of this attempt.
Admit(r) ==
    /\ op[r] = "queued" /\ Writable(r)
    /\ op' = [op EXCEPT ![r] = "sent"]
    /\ UNCHANGED <<role, feed, tables, tree, applied, acking, listing, window, reported, answer,
                   overtaken, faults, crashes>>

\* Mutant: every deferral starts its window anew, as before docs/BUGS.md B83.
DeferAnew(r) ==
    /\ window' = [window EXCEPT ![r] = "open"]
    /\ UNCHANGED reported

\* defer_for_access: the first deferral opens the window, one past its limit is
\* recorded as a failure, which closes it.
Defer(r) ==
    /\ window' = [window EXCEPT ![r] = IF window[r] = "over" THEN "none"
                                       ELSE IF window[r] = "none" THEN "open" ELSE window[r]]
    /\ reported' = [reported EXCEPT ![r] = reported[r] \/ window[r] = "over"]

DeferDenied(r) ==
    /\ op[r] = "queued" /\ Authority(r) = "denied"
    /\ Defer(r)
    /\ UNCHANGED <<role, feed, tables, tree, applied, acking, listing, op, answer, overtaken,
                   faults, crashes>>

\* resolve_unknown_authority: Drive still has the node, so its row is put back and
\* the op looked at again; the node is gone, which is reported at once; or Drive
\* did not say.  A node this account lost its share of is one of the last two.
Resolve(r) ==
    /\ op[r] = "queued" /\ Authority(r) = "unknown"
    /\ \/ /\ Withdrawn(r) \/ role[r] # "none"
          /\ rows' = [rows EXCEPT ![r] = "elsewhere"] /\ Defer(r) /\ UNCHANGED faults
       \/ /\ role[r] = "none"
          /\ window' = [window EXCEPT ![r] = "none"]
          /\ reported' = [reported EXCEPT ![r] = TRUE]
          /\ UNCHANGED <<rows, faults>>
       \/ Fail("fetch") /\ Defer(r) /\ UNCHANGED rows
    /\ UNCHANGED <<role, feed, cursor, access, fresh, tree, applied, acking, listing, op, answer, overtaken, crashes>>

\* DRAIN_ACCESS_DEFER_LIMIT passes.
Elapse(r) ==
    /\ window[r] = "open" /\ window' = [window EXCEPT ![r] = "over"]
    /\ UNCHANGED <<role, feed, tables, tree, applied, acking, listing, op, reported, answer,
                   overtaken, faults, crashes>>

\* Drive takes the upload or refuses it for the role this account has now.
Land(r) ==
    /\ op[r] = "sent"
    /\ window' = [window EXCEPT ![r] = "none"]
    /\ IF role[r] = "editor"
       THEN op' = [op EXCEPT ![r] = "landed"] /\ UNCHANGED reported
       ELSE op' = [op EXCEPT ![r] = "queued"] /\ reported' = [reported EXCEPT ![r] = TRUE]
    /\ UNCHANGED <<role, feed, tables, tree, applied, acking, listing, answer, overtaken, faults,
                   crashes>>

\* refresh_after_upload: the node as Drive has it, with its membership; nothing
\* is placed when it is gone or Drive cannot be asked.
ReadBack(r) ==
    /\ op[r] = "landed"
    /\ \/ /\ role[r] # "none"
          /\ op' = [op EXCEPT ![r] = "read"]
          /\ answer' = [answer EXCEPT ![r] =
                [level |-> role[r], asOf |-> Now, generation |-> generation]]
          /\ UNCHANGED faults
       \/ /\ IF role[r] = "none" THEN UNCHANGED faults ELSE Fail("readback")
          /\ op' = [op EXCEPT ![r] = "done"] /\ UNCHANGED answer
    /\ UNCHANGED <<role, feed, tables, tree, applied, acking, listing, window, reported,
                   overtaken, crashes>>

\* place_landed: the entry is interned with the access its membership gives, and
\* so are both copies.  No generation is looked at here.
Place(r) ==
    LET seen == [level |-> answer[r].level, asOf |-> answer[r].asOf] IN
    /\ op[r] = "read"
    /\ op' = [op EXCEPT ![r] = "done"] /\ answer' = [answer EXCEPT ![r] = Unread]
    /\ IF r \in resident
       THEN /\ access' = [access EXCEPT ![r] = seen] /\ live' = [live EXCEPT ![r] = seen]
            /\ rows' = [rows EXCEPT ![r] = "elsewhere"]
            /\ overtaken' = IF answer[r].generation # generation THEN overtaken \cup {r}
                            ELSE overtaken \ {r}
       ELSE UNCHANGED <<access, live, rows, overtaken>>
    /\ UNCHANGED <<role, feed, cursor, fresh, resident, generation, applied, acking,
                   listing, window, reported, faults, crashes>>

-----------------------------------------------------------------------------
\* A restart: the tree comes back from the tables, what was on the wire is lost,
\* and a claimed op is queued again.
Crash ==
    /\ crashes < MaxCrash /\ crashes' = crashes + 1
    /\ resident' = {r \in Roots : rows[r] # "none"} /\ live' = access
    /\ applied' = cursor /\ acking' = FALSE
    /\ listing' = [l \in Listers |-> Idle]
    /\ op' = [r \in Roots |-> CASE op[r] = "sent" -> "queued"
                                [] op[r] \in {"landed", "read"} -> "done"
                                [] OTHER -> op[r]]
    /\ answer' = [r \in Roots |-> Unread]
    /\ UNCHANGED <<role, feed, tables, generation, window, reported, overtaken, faults>>

List(l) == \/ Ask(l) \/ Materialize(l) \/ Overrun(l) \/ Publish(l) \/ PublishFails(l)
           \/ ReloadFails(l) \/ ListingFails(l)
ReadFeed == Apply \/ ApplyFails \/ Acknowledge
Drain(r) == \/ Admit(r) \/ DeferDenied(r) \/ Resolve(r) \/ Land(r) \/ ReadBack(r) \/ Place(r)

Next ==
    \/ \E r \in Roots : RoleChanges(r) \/ Withdraw(r) \/ Write(r) \/ Elapse(r) \/ Drain(r)
    \/ \E l \in Listers : List(l)
    \/ Expire \/ ReadFeed \/ Crash

Spec == Init /\ [][Next]_vars

\* The feed is polled, the workers keep taking what is due, a listing that was
\* asked for ends, and time passes.  That anyone lists is not assumed.
Fairness ==
    /\ WF_vars(ReadFeed) /\ WF_vars(Expire)
    /\ \A l \in Listers : WF_vars(List(l) /\ listing[l] # Idle)
    /\ \A r \in Roots : WF_vars(Drain(r)) /\ WF_vars(Elapse(r))

FairSpec == Spec /\ Fairness
-----------------------------------------------------------------------------
(* Properties.                                                              *)

\* Each variable has its type (the rows and states the code can hold).
TypeOK ==
    /\ role \in [Roots -> Roles] /\ feed \in Seq(Events) /\ Now <= MaxEvents
    /\ cursor \in 0..Now /\ applied \in {cursor, cursor + 1} /\ acking \in BOOLEAN
    /\ access \in [Roots -> Seen] /\ live \in [Roots -> Seen] /\ rows \in [Roots -> Spots]
    /\ resident \subseteq Roots /\ overtaken \subseteq Roots /\ fresh \in BOOLEAN
    /\ op \in [Roots -> {"none", "queued", "sent", "landed", "read", "done"}]
    /\ window \in [Roots -> {"none", "open", "over"}] /\ reported \in [Roots -> BOOLEAN]
    /\ listing \in [Listers -> Listing] /\ answer \in [Roots -> Answer] /\ generation \in Nat

\* What was seen at asOf is newer than every denial of r among the first n events.
SeenSince(r, asOf, n) == \A i \in 1..n : r \in Denies(feed[i]) => i <= asOf

\* A share is writable only by a role seen on Drive after the last acknowledged
\* event that denied it: "fail every known shared subtree closed until a root
\* refresh carries a current membership role" (apply_event).  No listing that was
\* on the wire when the event came, no retry and no restart brings back the access
\* an event took.  A read-back may (overtaken), which FailsClosed is about.
FailClosed ==
    \A r \in Roots \ overtaken : Writable(r) => SeenSince(r, access[r].asOf, cursor)

\* The same of every read-back: the statement as apply_event's comment has it.
FailsClosed ==
    \A r \in Roots : Writable(r) => SeenSince(r, access[r].asOf, cursor)

\* A share with an entry in the tree is denied from the moment an event is first
\* tried, even when the table refuses the write and the event waits to be retried
\* (apply_access_downgrade).
DeniedAtOnce ==
    \A r \in resident \ overtaken : Writable(r) => SeenSince(r, live[r].asOf, applied)

\* A write that cannot be sent for lack of access does not wait unseen: it is sent
\* in the end or has a failure recorded (DRAIN_ACCESS_DEFER_LIMIT).
BlockedReported ==
    \A r \in Roots : op[r] = "queued" ~> (op[r] \in {"landed", "read", "done"} \/ reported[r])

\* Access given back reaches the queue: if this account may edit r from some time
\* on and "Shared with me" keeps being listed, the write waiting on r is sent.
AccessComesBack ==
    \A r \in Roots :
        (<>[](role[r] = "editor") /\ []<><<\E l \in Listers : Ask(l)>>_vars)
            => (op[r] = "queued" ~> op[r] \in {"landed", "read", "done"})

-----------------------------------------------------------------------------
(* Why FailClosed and DeniedAtOnce hold.  A generation stands for the        *)
(* denials tried so far: whatever was asked for in this generation was seen  *)
(* after all of them.                                                       *)

\* The feed task is at most one event ahead of the cursor, and not past the feed.
FeedInStep == applied <= Now /\ (acking => applied = cursor + 1)

\* A listing of this generation is newer than every denial tried.
ListingsCurrent ==
    \A l \in Listers :
        /\ listing[l] # Idle => listing[l].generation <= generation
        /\ listing[l].step = "nodes" /\ Current(listing[l]) =>
              \A r \in Roots : SeenSince(r, listing[l].asOf, applied)

\* So is a read-back of this generation.
AnswersCurrent ==
    \A r \in Roots : op[r] = "read" =>
        /\ answer[r].generation <= generation
        /\ answer[r].generation = generation => SeenSince(r, answer[r].asOf, applied)

\* The tree gives access by a role newer than every denial tried.
TreeCurrent ==
    \A r \in Roots \ overtaken :
        live[r].level = "editor" => SeenSince(r, live[r].asOf, applied)

\* The table by one newer than every denial written to it.
TableCurrent ==
    \A r \in Roots \ overtaken :
        access[r].level = "editor" =>
            SeenSince(r, access[r].asOf, IF acking THEN applied ELSE cursor)

\* The inductive invariant.
Inv == TypeOK /\ FeedInStep /\ ListingsCurrent /\ AnswersCurrent /\ TreeCurrent /\ TableCurrent
=============================================================================
