----------------------------- MODULE DrainWake -----------------------------
(***************************************************************************)
(* When a drain worker looks at the queue, sleeps, and stops               *)
(* (run_pending_drain, sleep_for_drain_work and idle_wait in drain.rs,     *)
(* wake_drain in lib.rs, shutdown.rs, halt_workers in mount.rs), together  *)
(* with what holds it back and wakes it: the link (link.rs), the sync      *)
(* pause (pause.rs), the callers that queue an op or ask for a retry.      *)
(*                                                                         *)
(* Workers share one flag and one condvar: a wake-up raises the flag and   *)
(* notifies every sleeper, and the first worker to pass the lock takes the *)
(* flag.  Time is abstracted to whether next_attempt_at has come.          *)
(***************************************************************************)
EXTENDS Integers, FiniteSets

CONSTANTS
  Ops,          \* rows of pending_op
  Workers,      \* the drain threads (DRAIN_WORKERS)
  Node,         \* the node each op is about
  Folder,       \* the ops that must land before it: the folder it is made in
  Polls,        \* whether DRAIN_IDLE_POLL (30 s) may elapse within the run
  MayExpire,    \* whether Proton may refuse the session
  MayStop,      \* whether the mount may be stopped
  MaxQueued,    \* bound: ops queued
  MaxFail,      \* bound: attempts that fail
  MaxPause,     \* bound: pauses of the sync
  MaxRetry,     \* bound: retries the user asks for
  MaxDbFault    \* bound: database errors

ASSUME QueueAssumption ==
  /\ IsFiniteSet(Ops)
  /\ Folder \in [Ops -> SUBSET Ops]
  /\ Polls \in BOOLEAN /\ MayExpire \in BOOLEAN /\ MayStop \in BOOLEAN
  /\ MaxQueued \in Nat /\ MaxFail \in Nat /\ MaxPause \in Nat
  /\ MaxRetry \in Nat /\ MaxDbFault \in Nat

NoOne  == "no one"
Resume == "resume"
Stop   == "stop"

ASSUME NameAssumption ==
  /\ Workers # {}
  /\ NoOne \notin Workers
  /\ Resume \notin Ops /\ Stop \notin Ops

VARIABLES
  \* pending_op
  op,         \* each row: none, queued for later, or due
  owner,      \* claimed_at: the worker holding it
  tried,      \* rows with attempts > 0
  issue,      \* rows with a recorded refusal
  \* the workers
  pc,         \* where each is
  job,        \* the row it claimed
  claiming,   \* online && !paused, as it last read them
  alarm,      \* the rows whose due times its sleep was computed from
  rung,       \* whether that time has come
  woken,      \* the flag of drain_wake
  calls,      \* callers that changed the queue and are yet to wake the drain
  \* shutdown, link, pause
  stopping,
  online,
  expired,    \* session_expired
  paused,     \* sync_paused_until: no, timed, or held until resumed
  probe,      \* where the online probe is
  nqueued, nfail, npause, nretry, ndb   \* what is used of the bounds

queueVars  == <<op, owner, tried, issue>>
workerVars == <<pc, job, claiming, alarm, rung>>
linkVars   == <<online, expired, probe>>
boundVars  == <<nqueued, nfail, npause, nretry, ndb>>
vars == <<queueVars, workerVars, woken, calls, stopping, linkVars, paused, boundVars>>

NoOp == "no op"

ASSUME NoOpAssumption == NoOp \notin Ops

WorkerPc == {"loop", "claim", "choose", "dozing", "asleep", "rousing",
             "busy", "lost", "applied", "release", "done"}

(* From the claim of an op to the release of it.                           *)
Working == {"busy", "lost", "applied", "release"}

TypeOK ==
  /\ op \in [Ops -> {"none", "later", "due"}]
  /\ owner \in [Ops -> Workers \cup {NoOne}]
  /\ tried \subseteq Ops /\ issue \subseteq Ops
  /\ pc \in [Workers -> WorkerPc]
  /\ job \in [Workers -> Ops \cup {NoOp}]
  /\ \A w \in Workers : pc[w] \in Working => job[w] \in Ops
  /\ claiming \in [Workers -> BOOLEAN]
  /\ alarm \in [Workers -> SUBSET Ops]
  /\ rung \in [Workers -> BOOLEAN]
  /\ woken \in BOOLEAN
  /\ calls \subseteq Ops \cup {Resume, Stop}
  /\ stopping \in BOOLEAN /\ online \in BOOLEAN /\ expired \in BOOLEAN
  /\ paused \in {"no", "timed", "held"}
  /\ probe \in {"watch", "probing", "online", "retried", "done"}
  /\ nqueued \in 0 .. MaxQueued /\ nfail \in 0 .. MaxFail /\ npause \in 0 .. MaxPause
  /\ nretry \in 0 .. MaxRetry /\ ndb \in 0 .. MaxDbFault

(* A mount comes up with the link up or, from the cache, down.             *)
Init ==
  /\ op = [o \in Ops |-> "none"]
  /\ owner = [o \in Ops |-> NoOne]
  /\ tried = {} /\ issue = {}
  /\ pc = [w \in Workers |-> "loop"]
  /\ job = [w \in Workers |-> NoOp]
  /\ claiming = [w \in Workers |-> FALSE]
  /\ alarm = [w \in Workers |-> {}]
  /\ rung = [w \in Workers |-> FALSE]
  /\ woken = FALSE /\ calls = {} /\ stopping = FALSE
  /\ online \in BOOLEAN /\ expired = FALSE /\ paused = "no" /\ probe = "watch"
  /\ nqueued = 0 /\ nfail = 0 /\ npause = 0 /\ nretry = 0 /\ ndb = 0

(* claimable: not claimed, no claimed op on the same node, and not under a *)
(* folder that has yet to land.                                            *)
Claimable(o) ==
  /\ op[o] # "none"
  /\ \A p \in Ops : Node[p] = Node[o] => owner[p] = NoOne
  /\ \A p \in Folder[o] : op[p] = "none"

Claiming == online /\ paused = "no"

(***************************************************************************)
(* wake_drain and sleep_for_drain_work                                     *)
(***************************************************************************)
(* Raise the flag and notify every sleeper, under the lock.                *)
FlagOnly == pc            \* mutant: the flag is raised and nobody is notified
Roused == [w \in Workers |-> IF pc[w] = "asleep" THEN "rousing" ELSE pc[w]]

(* Back to the top of the loop; what the last pass read is dead.           *)
Again(w) ==
  /\ pc' = [pc EXCEPT ![w] = "loop"]
  /\ claiming' = [claiming EXCEPT ![w] = FALSE]
  /\ alarm' = [alarm EXCEPT ![w] = {}]
  /\ rung' = [rung EXCEPT ![w] = FALSE]

(* Sleep, unless a wake-up came since a worker last took one or the mount  *)
(* is stopping.                                                            *)
StopUnseen == ~woken      \* mutant: the stop is not checked under the lock
FlagUnseen == ~stopping   \* mutant: a wake-up that came before is not seen
MaySleep == ~woken /\ ~stopping

Doze(w) ==
  /\ pc[w] = "dozing"
  /\ IF MaySleep
       THEN pc' = [pc EXCEPT ![w] = "asleep"] /\ UNCHANGED <<claiming, alarm, rung, woken>>
       ELSE Again(w) /\ woken' = FALSE
  /\ UNCHANGED <<queueVars, job, calls, stopping, linkVars, paused,
                 boundVars>>

(* The wait ends: notified, or timed out at the earliest due time or at    *)
(* the idle poll.  The lock is retaken before the flag is cleared.         *)
TimesOut(w) ==
  /\ pc[w] = "asleep"
  /\ rung[w] \/ Polls
  /\ pc' = [pc EXCEPT ![w] = "rousing"]
  /\ UNCHANGED <<queueVars, job, claiming, alarm, rung, woken, calls, stopping, linkVars,
                 paused, boundVars>>

Rouse(w) ==
  /\ pc[w] = "rousing"
  /\ Again(w)
  /\ woken' = FALSE
  /\ UNCHANGED <<queueVars, job, calls, stopping, linkVars, paused, boundVars>>

(***************************************************************************)
(* run_pending_drain                                                       *)
(***************************************************************************)
Loop(w) ==
  /\ pc[w] = "loop"
  /\ IF stopping
       THEN pc' = [pc EXCEPT ![w] = "done"] /\ UNCHANGED claiming
       ELSE /\ pc' = [pc EXCEPT ![w] = "claim"]
            /\ claiming' = [claiming EXCEPT ![w] = Claiming]
  /\ UNCHANGED <<queueVars, job, alarm, rung, woken, calls, stopping, linkVars, paused,
                 boundVars>>

Due(o) == op[o] = "due" /\ Claimable(o)

(* claim_next_due_op: one transaction.                                     *)
Claim(w) ==
  /\ pc[w] = "claim"
  /\ claiming[w]
  /\ \E o \in Ops :
       /\ Due(o)
       /\ owner' = [owner EXCEPT ![o] = w]
       /\ job' = [job EXCEPT ![w] = o]
  /\ pc' = [pc EXCEPT ![w] = "busy"]
  /\ UNCHANGED <<op, tried, issue, claiming, alarm, rung, woken, calls, stopping, linkVars,
                 paused, boundVars>>

ClaimNothing(w) ==
  /\ pc[w] = "claim"
  /\ claiming[w] => \A o \in Ops : ~Due(o)
  /\ pc' = [pc EXCEPT ![w] = "choose"]
  /\ UNCHANGED <<queueVars, job, claiming, alarm, rung, woken, calls, stopping, linkVars,
                 paused, boundVars>>

(* A worker that claims nothing sleeps the whole idle poll; any other at   *)
(* most until the first claimable row is due.                              *)
EveryRow(w) == {o \in Ops : op[o] # "none"}   \* mutant: held rows count too
WholePoll(w) == {}                            \* mutant: no due time is looked at
IdleWait(w) == IF claiming[w] THEN {o \in Ops : Claimable(o)} ELSE {}

SleepUntil(w, rows) ==
  /\ pc' = [pc EXCEPT ![w] = "dozing"]
  /\ alarm' = [alarm EXCEPT ![w] = rows]
  /\ rung' = [rung EXCEPT ![w] = \E o \in rows : op[o] = "due"]

Choose(w) ==
  /\ pc[w] = "choose"
  /\ SleepUntil(w, IdleWait(w))
  /\ UNCHANGED <<queueVars, job, claiming, woken, calls, stopping, linkVars, paused,
                 boundVars>>

DbFault == ndb < MaxDbFault /\ ndb' = ndb + 1 /\ UNCHANGED <<nqueued, nfail, npause, nretry>>

(* The claim fails: the worker waits for the idle poll or a wake-up.       *)
ClaimFails(w) ==
  /\ pc[w] = "claim"
  /\ claiming[w]
  /\ DbFault
  /\ SleepUntil(w, {})
  /\ UNCHANGED <<queueVars, job, claiming, woken, calls, stopping, linkVars, paused>>

(* drain_op did what the row asks for and retired it.  A create that was   *)
(* written or renamed while it was sent leaves rows of the same node, due  *)
(* at once: its own row as a revision, still claimed, and a rename         *)
(* (finish_create).                                                        *)
Apply(w) ==
  LET o == job[w]
      rest == {p \in Ops : Node[p] = Node[o] /\ (p = o \/ op[p] = "none")}
  IN
  /\ pc[w] = "busy"
  /\ \E left \in SUBSET rest :
       /\ nqueued + Cardinality(left) <= MaxQueued
       /\ nqueued' = nqueued + Cardinality(left)
       /\ op' = [p \in Ops |-> IF p \in left THEN "due" ELSE IF p = o THEN "none" ELSE op[p]]
       /\ owner' = IF o \in left THEN owner ELSE [owner EXCEPT ![o] = NoOne]
       /\ issue' = IF o \in left THEN issue ELSE issue \ {o}
  /\ tried' = tried \ {o}
  /\ pc' = [pc EXCEPT ![w] = "applied"]
  /\ UNCHANGED <<job, claiming, alarm, rung, woken, calls, stopping, linkVars, paused,
                 nfail, npause, nretry, ndb>>

(* What landed may have made other rows claimable.                         *)
WakeOthers(w) ==
  /\ pc[w] = "applied"
  /\ woken' = TRUE
  /\ pc' = [Roused EXCEPT ![w] = "release"]
  /\ UNCHANGED <<queueVars, job, claiming, alarm, rung, calls, stopping, linkVars, paused,
                 boundVars>>

(* The attempt fails: record_attempt_failure moves the row to its backoff. *)
(* A refusal is recorded with it; an attempt that did not reach Proton     *)
(* goes on to lost_link.                                                   *)
Fail(w) ==
  /\ pc[w] = "busy"
  /\ nfail < MaxFail
  /\ nfail' = nfail + 1
  /\ op' = [op EXCEPT ![job[w]] = "later"]
  /\ tried' = tried \cup {job[w]}
  /\ \/ pc' = [pc EXCEPT ![w] = "lost"] /\ UNCHANGED issue
     \/ pc' = [pc EXCEPT ![w] = "release"] /\ issue' = issue \cup {job[w]}
  /\ UNCHANGED <<owner, job, claiming, alarm, rung, woken, calls, stopping, linkVars, paused,
                 nqueued, npause, nretry, ndb>>

(* Access is missing: the row is put back on the clock, no attempt used    *)
(* (defer_for_access).                                                     *)
Defer(w) ==
  /\ pc[w] = "busy"
  /\ nfail < MaxFail
  /\ nfail' = nfail + 1
  /\ op' = [op EXCEPT ![job[w]] = "later"]
  /\ pc' = [pc EXCEPT ![w] = "release"]
  /\ UNCHANGED <<owner, tried, issue, job, claiming, alarm, rung, woken, calls, stopping,
                 linkVars, paused, nqueued, npause, nretry, ndb>>

(* Recording the failure fails too: the row is released as it is and the   *)
(* worker waits.                                                           *)
RecordFails(w) ==
  /\ pc[w] = "busy"
  /\ DbFault
  /\ owner' = [owner EXCEPT ![job[w]] = NoOne]
  /\ job' = [job EXCEPT ![w] = NoOp]
  /\ SleepUntil(w, {})
  /\ UNCHANGED <<op, tried, issue, claiming, woken, calls, stopping, linkVars, paused>>

(* lost_link: mark_offline, or mark_session_expired.                       *)
LoseLink(w) ==
  /\ pc[w] = "lost"
  /\ online' = FALSE
  /\ expired' \in IF MayExpire THEN {expired, TRUE} ELSE {expired}
  /\ pc' = [pc EXCEPT ![w] = "release"]
  /\ UNCHANGED <<queueVars, job, claiming, alarm, rung, woken, calls, stopping, probe, paused,
                 boundVars>>

(* release_claim, on every path.                                           *)
StillClaimed(w) == owner   \* mutant: the claim is kept
GivenBack(w) == [o \in Ops |-> IF o = job[w] /\ owner[o] = w THEN NoOne ELSE owner[o]]

Release(w) ==
  /\ pc[w] = "release"
  /\ owner' = GivenBack(w)
  /\ job' = [job EXCEPT ![w] = NoOp]
  /\ Again(w)
  /\ UNCHANGED <<op, tried, issue, woken, calls, stopping, linkVars, paused, boundVars>>

(***************************************************************************)
(* Time and the callers                                                    *)
(***************************************************************************)
(* A row's debounce or backoff runs out.                                   *)
FallsDue(o) ==
  /\ op[o] = "later"
  /\ op' = [op EXCEPT ![o] = "due"]
  /\ rung' = [w \in Workers |-> rung[w] \/ o \in alarm[w]]
  /\ UNCHANGED <<owner, tried, issue, pc, job, claiming, alarm, woken, calls, stopping,
                 linkVars, paused, boundVars>>

(* A caller queues an op, with a debounce or due at once ...               *)
Enqueue(o) ==
  /\ op[o] = "none"
  /\ owner[o] = NoOne
  /\ nqueued < MaxQueued
  /\ nqueued' = nqueued + 1
  /\ \E t \in {"later", "due"} : op' = [op EXCEPT ![o] = t]
  /\ calls' = calls \cup {o}
  /\ UNCHANGED <<owner, tried, issue, workerVars, woken, stopping, linkVars, paused, nfail,
                 npause, nretry, ndb>>

(* ... or asks for a failed one to be tried again (retry_pending_ops) ...  *)
RetryNow(o) ==
  /\ op[o] = "later" /\ o \in tried
  /\ nretry < MaxRetry
  /\ nretry' = nretry + 1
  /\ op' = [op EXCEPT ![o] = "due"]
  /\ calls' = calls \cup {o}
  /\ UNCHANGED <<owner, tried, issue, workerVars, woken, stopping, linkVars, paused, nqueued,
                 nfail, npause, ndb>>

(* ... and then wakes the drain, as do a resume and the stop.              *)
WakeDrain(c) ==
  /\ c \in calls
  /\ calls' = calls \ {c}
  /\ woken' = TRUE
  /\ pc' = Roused
  /\ UNCHANGED <<queueVars, job, claiming, alarm, rung, stopping, linkVars, paused, boundVars>>

(* set_sync_paused.                                                        *)
Pause ==
  /\ npause < MaxPause
  /\ npause' = npause + 1
  /\ paused' \in {"timed", "held"}
  /\ UNCHANGED <<queueVars, workerVars, woken, calls, stopping, linkVars, nqueued, nfail,
                 nretry, ndb>>

Unpause ==
  /\ paused' = "no"
  /\ calls' = calls \cup {Resume}
  /\ UNCHANGED <<queueVars, workerVars, woken, stopping, linkVars, boundVars>>

(* The user resumes, or arm_pause_timer ends a timed pause.                *)
UserResumes == paused # "no" /\ Unpause
PauseEnds   == paused = "timed" /\ ~stopping /\ Unpause

(* halt_workers: the flag first, then the wake-up.                         *)
BeginStop ==
  /\ MayStop /\ ~stopping
  /\ stopping' = TRUE
  /\ calls' = calls \cup {Stop}
  /\ UNCHANGED <<queueVars, workerVars, woken, linkVars, paused, boundVars>>

(***************************************************************************)
(* The online probe: run_online_probe, probe_until_online, mark_online     *)
(***************************************************************************)
ProbeWatch ==
  /\ probe \in {"watch", "probing"}
  /\ IF stopping THEN probe' = "done" ELSE probe = "watch" /\ ~online /\ probe' = "probing"
  /\ UNCHANGED <<queueVars, workerVars, woken, calls, stopping, online, expired, paused,
                 boundVars>>

(* Proton answers.  A refused session is not probed.                       *)
ProbeAnswered ==
  /\ probe = "probing"
  /\ ~stopping
  /\ ~expired
  /\ online' = TRUE
  /\ probe' = "online"
  /\ UNCHANGED <<queueVars, workerVars, woken, calls, stopping, expired, paused, boundVars>>

(* retry_unrefused_ops_now: the ops that failed for want of a link.        *)
ProbeRetries ==
  /\ probe = "online"
  /\ op' = [o \in Ops |-> IF op[o] = "later" /\ o \in tried \ issue THEN "due" ELSE op[o]]
  /\ probe' = "retried"
  /\ UNCHANGED <<owner, tried, issue, workerVars, woken, calls, stopping, online, expired,
                 paused, boundVars>>

ProbeWakes ==
  /\ probe = "retried"
  /\ woken' = TRUE
  /\ pc' = Roused
  /\ probe' = "watch"
  /\ UNCHANGED <<queueVars, job, claiming, alarm, rung, calls, stopping, online, expired,
                 paused, boundVars>>

(***************************************************************************)
(* The specification                                                       *)
(***************************************************************************)
Worker(w) ==
  \/ Doze(w) \/ TimesOut(w) \/ Rouse(w) \/ Loop(w) \/ Claim(w) \/ ClaimNothing(w)
  \/ Choose(w) \/ ClaimFails(w) \/ Apply(w) \/ WakeOthers(w) \/ Fail(w) \/ Defer(w)
  \/ RecordFails(w) \/ LoseLink(w) \/ Release(w)

Probe == ProbeWatch \/ ProbeAnswered \/ ProbeRetries \/ ProbeWakes

Next ==
  \/ \E w \in Workers : Worker(w)
  \/ \E o \in Ops : FallsDue(o) \/ Enqueue(o) \/ RetryNow(o)
  \/ \E c \in Ops \cup {Resume, Stop} : WakeDrain(c)
  \/ Pause \/ UserResumes \/ PauseEnds \/ BeginStop
  \/ Probe

Spec == Init /\ [][Next]_vars

(* Threads run, time passes, an upload ends, and while the link is down    *)
(* Proton answers a probe in the end.  No user action is forced.           *)
Fairness ==
  /\ \A w \in Workers : WF_vars(Worker(w))
  /\ \A o \in Ops : WF_vars(FallsDue(o))
  /\ \A c \in Ops \cup {Resume, Stop} : WF_vars(WakeDrain(c))
  /\ WF_vars(PauseEnds)
  /\ WF_vars(Probe)

FairSpec == Spec /\ Fairness

(***************************************************************************)
(* Properties                                                              *)
(***************************************************************************)
(* A wake-up some thread is yet to send: a caller's, or the probe's.       *)
WakeComing == calls # {} \/ probe \in {"online", "retried"}

(* drain.rs:719-720, lib.rs wake_drain: with the link up and sync running, *)
(* no row that a worker may take lies due while every worker sleeps on     *)
(* with no wake-up coming and no alarm of its own.  (After a database      *)
(* error the idle poll is what recovers.)                                  *)
NoLostWakeup ==
  ndb = 0 /\ Claiming /\ ~stopping /\ ~WakeComing /\ (\E o \in Ops : Due(o))
    => \E w \in Workers : pc[w] # "asleep" \/ rung[w]

(* drain.rs:306-309: a worker stops between ops, so no row is left claimed *)
(* by a worker that has gone or moved on.                                  *)
ClaimsHaveWorkers ==
  \A o \in Ops : owner[o] # NoOne =>
    job[owner[o]] = o /\ pc[owner[o]] \in Working

(* What keeps a wake-up from being lost.  A worker attends to row o if it  *)
(* will look at the queue before it sleeps, or sleeps no longer than until *)
(* o is due.                                                               *)
Attends(w, o) ==
  \/ pc[w] \in {"loop", "rousing"} \cup Working
  \/ pc[w] \in {"claim", "choose"} /\ claiming[w]
  \/ /\ pc[w] \in {"dozing", "asleep"}
     /\ o \in alarm[w]
     /\ op[o] = "due" => rung[w]

Attended ==
  ndb = 0 /\ Claiming /\ ~stopping /\ ~WakeComing /\ ~woken
    => \A o \in Ops : Claimable(o) => \E w \in Workers : Attends(w, o)

SleepersUnflagged == woken => \A w \in Workers : pc[w] # "asleep"

(* The inductive invariant, drain.rs:2861-2870: a wake-up is still to be   *)
(* taken, or somebody attends to every row that can be taken.              *)
Inv == TypeOK /\ ClaimsHaveWorkers /\ SleepersUnflagged /\ Attended

(* B180: a stop ends every worker that is not sending something, without   *)
(* waiting for the idle poll, which is longer than WORKER_JOIN_DEADLINE.   *)
StopEnds == stopping ~> \A w \in Workers : pc[w] = "done"

(* B200: once no row can be taken any more, whether because the link is    *)
(* down, sync is paused or the rows are held, workers stop polling the     *)
(* queue.                                                                  *)
NothingToTake == ~Claiming \/ \A o \in Ops : ~Due(o)
IdleWorkersRest ==
  <>[]NothingToTake => <>[](\A w \in Workers : pc[w] \in {"asleep", "done"})

(* Every queued op reaches Drive, whatever was lost, paused or backed off  *)
(* on the way, unless the daemon stops, the session is refused for good,   *)
(* the user never resumes or the database fails.  No idle poll is needed   *)
(* for it but after a database error.                                      *)
EveryOpDrains ==
  \A o \in Ops :
    \/ []<>(op[o] = "none") \/ <>[]stopping \/ <>[]expired \/ <>[](paused = "held")
    \/ <>(ndb > 0)
=============================================================================
