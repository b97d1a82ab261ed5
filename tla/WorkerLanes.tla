---------------------------- MODULE WorkerLanes ----------------------------
(***************************************************************************)
(* The thread pool behind the FUSE handlers that touch the network         *)
(* (workers.rs): two queues, two wait sets, threads reserved for metadata  *)
(* that never take a transfer, and a stop that waits for the threads only  *)
(* up to a deadline.                                                       *)
(*                                                                         *)
(* A step is what happens under the queue lock, or one notification of a   *)
(* condition variable, which is sent after the lock is released.  What a   *)
(* job does is left open: it runs until Finish, or forever.                *)
(***************************************************************************)
EXTENDS Naturals, Sequences, FiniteSets

CONSTANTS
    Reserved,   \* the threads for metadata only
    General,    \* the other threads
    Callers,    \* the dispatch loops of the mounted sessions
    MetaJobs, TransferJobs

Workers == Reserved \cup General
Jobs    == MetaJobs \cup TransferJobs

\* Workers::new leaves a general thread however few there are; with two or
\* more it reserves one.
ASSUME LanesAssumption ==
    /\ IsFiniteSet(Reserved) /\ Reserved # {}
    /\ IsFiniteSet(General) /\ General # {}
    /\ Reserved \cap General = {}
    /\ IsFiniteSet(Callers)
    /\ MetaJobs \cap TransferJobs = {}

VARIABLES
    meta,      \* Queues::meta
    transfer,  \* Queues::transfer
    closed,    \* Queues::closed
    thread,    \* what a worker thread does
    hand,      \* the job it has in hand while it runs
    caller,    \* how far a caller of Workers::run is
    job,       \* what became of a job
    stop       \* how far stop_and_join is

queues == <<meta, transfer, closed>>
vars   == <<queues, thread, hand, caller, job, stop>>

NoJob == "none"
ASSUME NoJobAssumption == NoJob \notin Jobs

Init ==
    /\ meta = <<>> /\ transfer = <<>> /\ closed = FALSE
    /\ thread = [w \in Workers |-> "look"]
    /\ hand = [w \in Workers |-> NoJob]
    /\ caller = [c \in Callers |-> "idle"]
    /\ job = [j \in Jobs |-> "new"]
    /\ stop = "no"

-----------------------------------------------------------------------------
(***************************************************************************)
(* Workers::run                                                            *)
(***************************************************************************)

\* A notification of a wait set rouses one of its threads, if any waits.
Asleep(set) == {w \in set : thread[w] = "wait"}

NotifyOne(set) ==
    IF Asleep(set) = {}
    THEN UNCHANGED thread
    ELSE \E w \in Asleep(set) : thread' = [thread EXCEPT ![w] = "look"]

NotifyAll(set) ==
    thread' = [w \in Workers |-> IF w \in Asleep(set) THEN "look" ELSE thread[w]]

\* The job is queued under the lock.
Submit(c, j) ==
    /\ caller[c] = "idle" /\ job[j] = "new" /\ ~closed
    /\ IF j \in MetaJobs
       THEN meta' = Append(meta, j) /\ UNCHANGED transfer
       ELSE transfer' = Append(transfer, j) /\ UNCHANGED meta
    /\ caller' = [caller EXCEPT ![c] = IF j \in MetaJobs THEN "meta" ELSE "general"]
    /\ job' = [job EXCEPT ![j] = "queued"]
    /\ UNCHANGED <<closed, thread, hand, stop>>

\* Mutant: the general threads are not notified.
NotifyNobody(c) ==
    /\ caller[c] = "general"
    /\ caller' = [caller EXCEPT ![c] = "idle"]
    /\ UNCHANGED <<queues, thread, hand, job, stop>>

\* Then one thread of each kind that may take it is notified: for metadata a
\* reserved one and a general one, for a transfer a general one.
NotifyReserved(c) ==
    /\ caller[c] = "meta"
    /\ NotifyOne(Reserved)
    /\ caller' = [caller EXCEPT ![c] = "general"]
    /\ UNCHANGED <<queues, hand, job, stop>>

NotifyGeneral(c) ==
    /\ caller[c] = "general"
    /\ NotifyOne(General)
    /\ caller' = [caller EXCEPT ![c] = "idle"]
    /\ UNCHANGED <<queues, hand, job, stop>>

\* A pool that was closed serves the job on the caller's thread.
SubmitInline(c, j) ==
    /\ caller[c] = "idle" /\ job[j] = "new" /\ closed
    /\ caller' = [caller EXCEPT ![c] = "inline"]
    /\ job' = [job EXCEPT ![j] = "running"]
    /\ UNCHANGED <<queues, thread, hand, stop>>

FinishInline(c, j) ==
    /\ caller[c] = "inline" /\ job[j] = "running"
    /\ \A w \in Workers : hand[w] # j
    /\ caller' = [caller EXCEPT ![c] = "idle"]
    /\ job' = [job EXCEPT ![j] = "done"]
    /\ UNCHANGED <<queues, thread, hand, stop>>

-----------------------------------------------------------------------------
(***************************************************************************)
(* A worker thread                                                         *)
(***************************************************************************)

\* A general thread takes transfers first and metadata when there is none; a
\* reserved one takes metadata only.
TakesAnything(w) == transfer # <<>>     \* mutant: no thread is reserved
TakesTransfer(w) == w \in General /\ transfer # <<>>
TakesMeta(w) == (w \in General => transfer = <<>>) /\ meta # <<>>
FindsNothing(w) == ~TakesTransfer(w) /\ ~TakesMeta(w)

Pick(w, j) ==
    /\ thread' = [thread EXCEPT ![w] = "run"]
    /\ hand' = [hand EXCEPT ![w] = j]
    /\ job' = [job EXCEPT ![j] = "running"]
    /\ UNCHANGED <<closed, caller, stop>>

TakeTransfer(w) ==
    /\ thread[w] = "look" /\ TakesTransfer(w)
    /\ transfer' = Tail(transfer) /\ UNCHANGED meta
    /\ Pick(w, Head(transfer))

TakeMeta(w) ==
    /\ thread[w] = "look" /\ TakesMeta(w)
    /\ meta' = Tail(meta) /\ UNCHANGED transfer
    /\ Pick(w, Head(meta))

Sleep(w) ==
    /\ thread[w] = "look" /\ FindsNothing(w) /\ ~closed
    /\ thread' = [thread EXCEPT ![w] = "wait"]
    /\ UNCHANGED <<queues, hand, caller, job, stop>>

\* The job returned, or panicked and was caught: the thread lives on.
Finish(w) ==
    /\ thread[w] = "run"
    /\ thread' = [thread EXCEPT ![w] = "look"]
    /\ hand' = [hand EXCEPT ![w] = NoJob]
    /\ job' = [job EXCEPT ![hand[w]] = "done"]
    /\ UNCHANGED <<queues, caller, stop>>

\* Mutant: it ends as soon as the pool is closed.
LeaveAtOnce(w) ==
    /\ thread[w] = "look" /\ closed
    /\ thread' = [thread EXCEPT ![w] = "gone"]
    /\ UNCHANGED <<queues, hand, caller, job, stop>>

\* A thread of a closed pool ends when it finds nothing more to take.
Leave(w) ==
    /\ thread[w] = "look" /\ FindsNothing(w) /\ closed
    /\ thread' = [thread EXCEPT ![w] = "gone"]
    /\ UNCHANGED <<queues, hand, caller, job, stop>>

-----------------------------------------------------------------------------
(***************************************************************************)
(* Workers::stop_and_join                                                  *)
(***************************************************************************)

Close ==
    /\ stop = "no"
    /\ closed' = TRUE
    /\ stop' = "closed"
    /\ UNCHANGED <<meta, transfer, thread, hand, caller, job>>

RouseReserved ==
    /\ stop = "closed" /\ NotifyAll(Reserved)
    /\ stop' = "rousing"
    /\ UNCHANGED <<queues, hand, caller, job>>

RouseGeneral ==
    /\ stop = "rousing" /\ NotifyAll(General)
    /\ stop' = "joining"
    /\ UNCHANGED <<queues, hand, caller, job>>

AllGone == \A w \in Workers : thread[w] = "gone"

\* The joiner has seen every thread end.
Joined ==
    /\ stop = "joining" /\ AllGone
    /\ stop' = "stopped"
    /\ UNCHANGED <<queues, thread, hand, caller, job>>

\* Mutant: the join has no deadline.
NoDeadline ==
    /\ FALSE
    /\ UNCHANGED vars

\* The deadline passed first: the process goes on without the threads.
GiveUp ==
    /\ stop = "joining" /\ ~AllGone
    /\ stop' = "stopped"
    /\ UNCHANGED <<queues, thread, hand, caller, job>>

-----------------------------------------------------------------------------

Thread(w) == TakeTransfer(w) \/ TakeMeta(w) \/ Sleep(w) \/ Leave(w)
Notify(c) == NotifyReserved(c) \/ NotifyGeneral(c)
Stopping  == Close \/ RouseReserved \/ RouseGeneral \/ Joined \/ GiveUp

Next ==
    \/ \E c \in Callers : Notify(c)
    \/ \E c \in Callers, j \in Jobs : Submit(c, j) \/ SubmitInline(c, j) \/ FinishInline(c, j)
    \/ \E w \in Workers : Thread(w) \/ Finish(w)
    \/ Stopping

Spec == Init /\ [][Next]_vars

\* Threads are scheduled, a deadline passes, and metadata calls end: they are
\* single calls with a deadline of their own.  Nothing is assumed of transfers.
FairSpec ==
    /\ Spec
    /\ \A c \in Callers : WF_vars(Notify(c))
    /\ \A w \in Workers : WF_vars(Thread(w)) /\ WF_vars(Finish(w) /\ hand[w] \in MetaJobs)
    /\ WF_vars(RouseReserved) /\ WF_vars(RouseGeneral) /\ WF_vars(Joined) /\ WF_vars(GiveUp)

-----------------------------------------------------------------------------
(***************************************************************************)
(* Properties                                                              *)
(***************************************************************************)

TypeOK ==
    /\ meta \in Seq(MetaJobs) /\ transfer \in Seq(TransferJobs) /\ closed \in BOOLEAN
    /\ thread \in [Workers -> {"look", "wait", "run", "gone"}]
    /\ hand \in [Workers -> Jobs \cup {NoJob}]
    /\ \A w \in Workers : thread[w] = "run" <=> hand[w] # NoJob
    /\ caller \in [Callers -> {"idle", "meta", "general", "inline"}]
    /\ job \in [Jobs -> {"new", "queued", "running", "done"}]
    /\ stop \in {"no", "closed", "rousing", "joining", "stopped"}

Looking(set)     == {w \in set : thread[w] = "look"}
Notifying(steps) == {c \in Callers : caller[c] \in steps}

\* While a thread of a wait set sleeps, as many of its threads are on their way
\* to the queue, or are about to be roused, as the queue it serves is long.
Covered(set, queue, steps) ==
    Asleep(set) # {} =>
        Cardinality(Looking(set)) + Cardinality(Notifying(steps)) >= Len(queue)

\* What keeps the two wait sets in step with the two queues, and the stop.
Inv ==
    /\ TypeOK
    /\ Covered(General, transfer, {"general"})
    /\ Covered(Reserved, meta, {"meta"})
    /\ closed <=> stop # "no"
    /\ stop \in {"rousing", "joining", "stopped"} => Asleep(Reserved) = {}
    /\ stop \in {"joining", "stopped"} => Asleep(General) = {}

\* No job waits beside a sleeping thread that may take it, unless one that may
\* take it is awake or a notification is still to be sent (workers.rs: two
\* condition variables, notified after the lock is released).
NoLostWakeup ==
    /\ transfer # <<>> /\ Asleep(General) # {} =>
          Looking(General) # {} \/ Notifying({"general"}) # {}
    /\ meta # <<>> /\ Asleep(Reserved) # {} =>
          Looking(Reserved) # {} \/ Notifying({"meta"}) # {}

\* A metadata call is served although transfers may never end (META_WORKERS:
\* no number of concurrent downloads can leave a lookup without a thread).
MetaServed == \A j \in MetaJobs : job[j] = "queued" ~> job[j] = "done"

\* The stop returns whatever the jobs do, wedged transfers included
\* (stop_and_join's deadline).
StopReturns == stop = "closed" ~> stop = "stopped"

\* No job that was queued is dropped, by a stop either, as long as transfers end
\* (a worker leaves a closed pool only when it finds nothing to take).
TransfersEnd == \A j \in TransferJobs : []<>(job[j] # "running")
EveryJobRuns == TransfersEnd => \A j \in Jobs : job[j] = "queued" ~> job[j] = "done"

=============================================================================
