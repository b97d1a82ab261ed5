-------------------------- MODULE DrainWakeProofs --------------------------
(***************************************************************************)
(* No wake-up of the drain is lost and no claim outlives its worker, for   *)
(* any number of workers and ops: Inv of DrainWake is inductive.           *)
(***************************************************************************)
EXTENDS DrainWake, FiniteSetTheorems, TLAPS

(* The assumptions on the constants, together.                             *)
LEMMA Constants ==
  /\ Folder \in [Ops -> SUBSET Ops]
  /\ Workers # {} /\ NoOne \notin Workers
  /\ NoOp \notin Ops
  /\ MaxQueued \in Nat /\ MaxFail \in Nat /\ MaxPause \in Nat
  /\ MaxRetry \in Nat /\ MaxDbFault \in Nat
BY QueueAssumption, NameAssumption, NoOpAssumption

LEMMA InitInv == Init => Inv
<1> SUFFICES ASSUME Init PROVE Inv
  OBVIOUS
<1>1. TypeOK
  <2>1. /\ op \in [Ops -> {"none", "later", "due"}]
        /\ owner \in [Ops -> Workers \cup {NoOne}]
        /\ job \in [Workers -> Ops \cup {NoOp}]
        /\ alarm \in [Workers -> SUBSET Ops]
        /\ pc \in [Workers -> WorkerPc]
    BY DEF Init, WorkerPc
  <2>2. claiming \in [Workers -> BOOLEAN] /\ rung \in [Workers -> BOOLEAN]
    BY DEF Init
  <2>3. woken \in BOOLEAN /\ stopping \in BOOLEAN /\ online \in BOOLEAN /\ expired \in BOOLEAN
    BY DEF Init
  <2>4. /\ nqueued \in 0 .. MaxQueued /\ nfail \in 0 .. MaxFail /\ npause \in 0 .. MaxPause
        /\ nretry \in 0 .. MaxRetry /\ ndb \in 0 .. MaxDbFault
    BY Constants DEF Init
  <2> QED
    BY <2>1, <2>2, <2>3, <2>4 DEF Init, TypeOK, Working
<1>2. ClaimsHaveWorkers /\ SleepersUnflagged
  BY DEF Init, ClaimsHaveWorkers, SleepersUnflagged
<1>3. \A o \in Ops : ~Claimable(o)
  BY DEF Init, Claimable
<1> QED
  BY <1>1, <1>2, <1>3 DEF Inv, Attended

(* A budget that is not used up.                                           *)
LEMMA Count == \A m \in Nat : \A n \in 0 .. m : n < m => n + 1 \in 0 .. m
OBVIOUS

(* Every step keeps the types.                                             *)
LEMMA TypeStep == TypeOK /\ [Next]_vars => TypeOK'
<1> SUFFICES ASSUME TypeOK, [Next]_vars PROVE TypeOK'
  OBVIOUS
<1> USE Constants DEF TypeOK, Working, WorkerPc, linkVars, queueVars, workerVars, boundVars
<1>1. ASSUME NEW w \in Workers, Doze(w) PROVE TypeOK'
  <2>1. CASE MaySleep
    BY <1>1, <2>1 DEF Doze
  <2>2. CASE ~MaySleep
    <3>1. Again(w) /\ woken' = FALSE /\ job' = job
      BY <1>1, <2>2 DEF Doze
    <3>2. /\ pc' \in [Workers -> WorkerPc]
          /\ \A v \in Workers : pc'[v] \in Working => job'[v] \in Ops
      BY <3>1 DEF Again
    <3>3. /\ claiming' \in [Workers -> BOOLEAN] /\ alarm' \in [Workers -> SUBSET Ops]
          /\ rung' \in [Workers -> BOOLEAN]
      BY <3>1 DEF Again
    <3> QED
      BY <1>1, <3>1, <3>2, <3>3 DEF Doze
  <2> QED
    BY <2>1, <2>2
<1>2. ASSUME NEW w \in Workers, TimesOut(w) PROVE TypeOK'
  BY <1>2 DEF TimesOut
<1>3. ASSUME NEW w \in Workers, Rouse(w) PROVE TypeOK'
  BY <1>3 DEF Rouse, Again
<1>4. ASSUME NEW w \in Workers, Loop(w) PROVE TypeOK'
  BY <1>4 DEF Loop, Claiming
<1>5. ASSUME NEW w \in Workers, Claim(w) PROVE TypeOK'
  BY <1>5 DEF Claim
<1>6. ASSUME NEW w \in Workers, ClaimNothing(w) PROVE TypeOK'
  BY <1>6 DEF ClaimNothing
<1>7. ASSUME NEW w \in Workers, Choose(w) PROVE TypeOK'
  BY <1>7 DEF Choose, SleepUntil, IdleWait
<1>8. ASSUME NEW w \in Workers, ClaimFails(w) PROVE TypeOK'
  BY <1>8, Count DEF ClaimFails, SleepUntil, DbFault
<1>9. ASSUME NEW w \in Workers, WakeOthers(w) PROVE TypeOK'
  BY <1>9 DEF WakeOthers, Roused
<1>10. ASSUME NEW w \in Workers, Fail(w) PROVE TypeOK'
  <2>1. pc' \in [Workers -> WorkerPc] /\ issue' \subseteq Ops
    BY <1>10 DEF Fail
  <2>2. nfail' \in 0 .. MaxFail
    BY <1>10, Count DEF Fail
  <2>3. op' \in [Ops -> {"none", "later", "due"}] /\ tried' \subseteq Ops
    BY <1>10 DEF Fail
  <2> QED
    BY <1>10, <2>1, <2>2, <2>3 DEF Fail
<1>11. ASSUME NEW w \in Workers, Defer(w) PROVE TypeOK'
  BY <1>11, Count DEF Defer
<1>12. ASSUME NEW w \in Workers, RecordFails(w) PROVE TypeOK'
  BY <1>12, Count DEF RecordFails, SleepUntil, DbFault
<1>13. ASSUME NEW w \in Workers, LoseLink(w) PROVE TypeOK'
  BY <1>13 DEF LoseLink
<1>14. ASSUME NEW w \in Workers, Release(w) PROVE TypeOK'
  BY <1>14 DEF Release, GivenBack, Again
<1>15. ASSUME NEW o \in Ops, FallsDue(o) PROVE TypeOK'
  BY <1>15 DEF FallsDue
<1>16. ASSUME NEW o \in Ops, Enqueue(o) PROVE TypeOK'
  BY <1>16, Count DEF Enqueue
<1>17. ASSUME NEW o \in Ops, RetryNow(o) PROVE TypeOK'
  BY <1>17, Count DEF RetryNow
<1>18. ASSUME NEW c \in Ops \cup {Resume, Stop}, WakeDrain(c) PROVE TypeOK'
  BY <1>18 DEF WakeDrain, Roused
<1>19. CASE Pause
  BY <1>19, Count DEF Pause
<1>20. CASE UserResumes \/ PauseEnds
  BY <1>20 DEF Unpause, UserResumes, PauseEnds
<1>21. CASE BeginStop
  BY <1>21 DEF BeginStop
<1>22. CASE ProbeWatch
  BY <1>22 DEF ProbeWatch
<1>23. CASE ProbeAnswered
  BY <1>23 DEF ProbeAnswered
<1>24. CASE ProbeRetries
  BY <1>24 DEF ProbeRetries
<1>25. CASE ProbeWakes
  BY <1>25 DEF ProbeWakes, Roused
<1>26. ASSUME NEW w \in Workers, Apply(w) PROVE TypeOK'
  <2>1. PICK left \in SUBSET Ops :
          /\ nqueued + Cardinality(left) <= MaxQueued
          /\ nqueued' = nqueued + Cardinality(left)
          /\ op' = [p \in Ops |-> IF p \in left THEN "due"
                                  ELSE IF p = job[w] THEN "none" ELSE op[p]]
          /\ owner' = IF job[w] \in left THEN owner ELSE [owner EXCEPT ![job[w]] = NoOne]
          /\ issue' = IF job[w] \in left THEN issue ELSE issue \ {job[w]}
    BY <1>26 DEF Apply
  <2>2. Cardinality(left) \in Nat
    BY <2>1, FS_Subset, FS_CardinalityType, QueueAssumption
  <2>3. nqueued' \in 0 .. MaxQueued
    BY <2>1, <2>2
  <2>4. op' \in [Ops -> {"none", "later", "due"}] /\ owner' \in [Ops -> Workers \cup {NoOne}]
          /\ issue' \subseteq Ops /\ tried' \subseteq Ops
    BY <1>26, <2>1 DEF Apply
  <2> QED
    BY <1>26, <2>3, <2>4 DEF Apply
<1>27. CASE UNCHANGED vars
  BY <1>27 DEF vars
<1> QED
  BY <1>1, <1>2, <1>3, <1>4, <1>5, <1>6, <1>7, <1>8, <1>9, <1>10, <1>11, <1>12, <1>13, <1>14, <1>15, <1>16, <1>17, <1>18, <1>19, <1>20, <1>21, <1>22, <1>23, <1>24, <1>25, <1>26, <1>27 DEF Next, Worker, Probe

(* A claim is given back by the worker that holds it, and by no other.     *)
LEMMA ClaimsStep == TypeOK /\ ClaimsHaveWorkers /\ [Next]_vars => ClaimsHaveWorkers'
<1> SUFFICES ASSUME TypeOK, ClaimsHaveWorkers, [Next]_vars PROVE ClaimsHaveWorkers'
  OBVIOUS
<1> USE Constants DEF TypeOK, Working, ClaimsHaveWorkers, linkVars, queueVars, workerVars
<1>1. ASSUME NEW w \in Workers, Doze(w) PROVE ClaimsHaveWorkers'
  BY <1>1 DEF Doze, Again
<1>2. ASSUME NEW w \in Workers, TimesOut(w) PROVE ClaimsHaveWorkers'
  BY <1>2 DEF TimesOut
<1>3. ASSUME NEW w \in Workers, Rouse(w) PROVE ClaimsHaveWorkers'
  BY <1>3 DEF Rouse, Again
<1>4. ASSUME NEW w \in Workers, Loop(w) PROVE ClaimsHaveWorkers'
  BY <1>4 DEF Loop
<1>5. ASSUME NEW w \in Workers, Claim(w) PROVE ClaimsHaveWorkers'
  BY <1>5 DEF Claim, Due, Claimable
<1>6. ASSUME NEW w \in Workers, ClaimNothing(w) PROVE ClaimsHaveWorkers'
  BY <1>6 DEF ClaimNothing
<1>7. ASSUME NEW w \in Workers, Choose(w) PROVE ClaimsHaveWorkers'
  BY <1>7 DEF Choose, SleepUntil
<1>8. ASSUME NEW w \in Workers, ClaimFails(w) PROVE ClaimsHaveWorkers'
  BY <1>8 DEF ClaimFails, SleepUntil
<1>9. ASSUME NEW w \in Workers, Apply(w) PROVE ClaimsHaveWorkers'
  BY <1>9 DEF Apply
<1>10. ASSUME NEW w \in Workers, WakeOthers(w) PROVE ClaimsHaveWorkers'
  BY <1>10 DEF WakeOthers, Roused
<1>11. ASSUME NEW w \in Workers, Fail(w) PROVE ClaimsHaveWorkers'
  BY <1>11 DEF Fail
<1>12. ASSUME NEW w \in Workers, Defer(w) PROVE ClaimsHaveWorkers'
  BY <1>12 DEF Defer
<1>13. ASSUME NEW w \in Workers, RecordFails(w) PROVE ClaimsHaveWorkers'
  BY <1>13 DEF RecordFails, SleepUntil
<1>14. ASSUME NEW w \in Workers, LoseLink(w) PROVE ClaimsHaveWorkers'
  BY <1>14 DEF LoseLink
<1>15. ASSUME NEW w \in Workers, Release(w) PROVE ClaimsHaveWorkers'
  BY <1>15 DEF Release, GivenBack, Again
<1>16. ASSUME NEW o \in Ops, FallsDue(o) PROVE ClaimsHaveWorkers'
  BY <1>16 DEF FallsDue
<1>17. ASSUME NEW o \in Ops, Enqueue(o) PROVE ClaimsHaveWorkers'
  BY <1>17 DEF Enqueue
<1>18. ASSUME NEW o \in Ops, RetryNow(o) PROVE ClaimsHaveWorkers'
  BY <1>18 DEF RetryNow
<1>19. ASSUME NEW c \in Ops \cup {Resume, Stop}, WakeDrain(c) PROVE ClaimsHaveWorkers'
  BY <1>19 DEF WakeDrain, Roused
<1>20. CASE Pause
  BY <1>20 DEF Pause
<1>21. CASE UserResumes \/ PauseEnds
  BY <1>21 DEF UserResumes, PauseEnds, Unpause
<1>22. CASE BeginStop
  BY <1>22 DEF BeginStop
<1>23. CASE Probe
  BY <1>23 DEF Probe, ProbeWatch, ProbeAnswered, ProbeRetries, ProbeWakes, Roused
<1>24. CASE UNCHANGED vars
  BY <1>24 DEF vars
<1> QED
  BY <1>1, <1>2, <1>3, <1>4, <1>5, <1>6, <1>7, <1>8, <1>9, <1>10, <1>11, <1>12,
     <1>13, <1>14, <1>15, <1>16, <1>17, <1>18, <1>19, <1>20, <1>21, <1>22, <1>23, <1>24
     DEF Next, Worker, Probe

(* A raised flag finds nobody asleep: raising it notifies every sleeper,   *)
(* and a worker falls asleep only while it is down.                        *)
LEMMA SleepersStep == TypeOK /\ SleepersUnflagged /\ [Next]_vars => SleepersUnflagged'
<1> SUFFICES ASSUME TypeOK, SleepersUnflagged, [Next]_vars PROVE SleepersUnflagged'
  OBVIOUS
<1> USE DEF TypeOK, SleepersUnflagged, linkVars, queueVars, workerVars
<1>1. ASSUME NEW w \in Workers, Doze(w) PROVE SleepersUnflagged'
  BY <1>1 DEF Doze, Again, MaySleep
<1>2. ASSUME NEW w \in Workers, TimesOut(w) PROVE SleepersUnflagged'
  BY <1>2 DEF TimesOut
<1>3. ASSUME NEW w \in Workers, Rouse(w) PROVE SleepersUnflagged'
  BY <1>3 DEF Rouse, Again
<1>4. ASSUME NEW w \in Workers, Loop(w) PROVE SleepersUnflagged'
  BY <1>4 DEF Loop
<1>5. ASSUME NEW w \in Workers, Claim(w) PROVE SleepersUnflagged'
  BY <1>5 DEF Claim, Due, Claimable
<1>6. ASSUME NEW w \in Workers, ClaimNothing(w) PROVE SleepersUnflagged'
  BY <1>6 DEF ClaimNothing
<1>7. ASSUME NEW w \in Workers, Choose(w) PROVE SleepersUnflagged'
  BY <1>7 DEF Choose, SleepUntil
<1>8. ASSUME NEW w \in Workers, ClaimFails(w) PROVE SleepersUnflagged'
  BY <1>8 DEF ClaimFails, SleepUntil
<1>9. ASSUME NEW w \in Workers, Apply(w) PROVE SleepersUnflagged'
  BY <1>9 DEF Apply
<1>10. ASSUME NEW w \in Workers, WakeOthers(w) PROVE SleepersUnflagged'
  BY <1>10 DEF WakeOthers, Roused
<1>11. ASSUME NEW w \in Workers, Fail(w) PROVE SleepersUnflagged'
  BY <1>11 DEF Fail
<1>12. ASSUME NEW w \in Workers, Defer(w) PROVE SleepersUnflagged'
  BY <1>12 DEF Defer
<1>13. ASSUME NEW w \in Workers, RecordFails(w) PROVE SleepersUnflagged'
  BY <1>13 DEF RecordFails, SleepUntil
<1>14. ASSUME NEW w \in Workers, LoseLink(w) PROVE SleepersUnflagged'
  BY <1>14 DEF LoseLink
<1>15. ASSUME NEW w \in Workers, Release(w) PROVE SleepersUnflagged'
  BY <1>15 DEF Release, GivenBack, Again
<1>16. ASSUME NEW o \in Ops, FallsDue(o) PROVE SleepersUnflagged'
  BY <1>16 DEF FallsDue
<1>17. ASSUME NEW o \in Ops, Enqueue(o) PROVE SleepersUnflagged'
  BY <1>17 DEF Enqueue
<1>18. ASSUME NEW o \in Ops, RetryNow(o) PROVE SleepersUnflagged'
  BY <1>18 DEF RetryNow
<1>19. ASSUME NEW c \in Ops \cup {Resume, Stop}, WakeDrain(c) PROVE SleepersUnflagged'
  BY <1>19 DEF WakeDrain, Roused
<1>20. CASE Pause
  BY <1>20 DEF Pause
<1>21. CASE UserResumes \/ PauseEnds
  BY <1>21 DEF UserResumes, PauseEnds, Unpause
<1>22. CASE BeginStop
  BY <1>22 DEF BeginStop
<1>23. CASE Probe
  BY <1>23 DEF Probe, ProbeWatch, ProbeAnswered, ProbeRetries, ProbeWakes, Roused
<1>24. CASE UNCHANGED vars
  BY <1>24 DEF vars
<1> QED
  BY <1>1, <1>2, <1>3, <1>4, <1>5, <1>6, <1>7, <1>8, <1>9, <1>10, <1>11, <1>12,
     <1>13, <1>14, <1>15, <1>16, <1>17, <1>18, <1>19, <1>20, <1>21, <1>22, <1>23, <1>24
     DEF Next, Worker, Probe

(* No step leaves a row that can be taken unattended.                      *)
LEMMA AttendedStep == Inv /\ [Next]_vars => Attended'
<1> SUFFICES ASSUME Inv, [Next]_vars, TypeOK',
                    ndb' = 0, Claiming', ~stopping', ~WakeComing', ~woken',
                    NEW o \in Ops, Claimable(o)'
             PROVE  \E w \in Workers : Attends(w, o)'
  BY TypeStep DEF Inv, Attended
<1> DEFINE Kept == /\ ndb = 0 /\ Claiming /\ ~stopping /\ ~WakeComing /\ ~woken
                   /\ Claimable(o)
<1>1. Kept => \E v \in Workers : Attends(v, o)
  BY DEF Inv, Attended
<1> HIDE DEF Kept
<1> USE DEF Inv, TypeOK, linkVars, queueVars, workerVars, boundVars
(* The worker that took the wake-up, or is done with an op, looks again.   *)
<1>2. ASSUME NEW w \in Workers,
             Rouse(w) \/ TimesOut(w) \/ Release(w) \/ Claim(w) \/ Apply(w) \/ Fail(w) \/ Defer(w)
      PROVE  Attends(w, o)'
  BY <1>2 DEF Rouse, TimesOut, Release, Claim, Apply, Fail, Defer, Again, Attends, Working
<1>3. ASSUME NEW w \in Workers, Doze(w) PROVE \E v \in Workers : Attends(v, o)'
  <2>1. CASE MaySleep
    <3>1. Kept
      BY <1>3, <2>1 DEF Kept, Doze, Claiming, WakeComing, Claimable
    <3>2. PICK v \in Workers : Attends(v, o)
      BY <1>1, <3>1
    <3>3. Attends(v, o)'
      BY <1>3, <2>1, <3>2 DEF Doze, Attends, Working
    <3> QED
      BY <3>3
  <2>2. CASE ~MaySleep
    BY <1>3, <2>2 DEF Doze, Again, Attends, Working
  <2> QED
    BY <2>1, <2>2
<1>4. ASSUME NEW w \in Workers, Loop(w) PROVE Attends(w, o)'
  BY <1>4 DEF Loop, Attends, Claiming
<1>5. ASSUME NEW w \in Workers, ClaimNothing(w) PROVE \E v \in Workers : Attends(v, o)'
  <2>1. Kept
    BY <1>5 DEF Kept, ClaimNothing, Claiming, WakeComing, Claimable
  <2>2. PICK v \in Workers : Attends(v, o)
    BY <1>1, <2>1
  <2>3. Attends(v, o)'
    BY <1>5, <2>2 DEF ClaimNothing, Attends, Working
  <2> QED
    BY <2>3
<1>6. ASSUME NEW w \in Workers, Choose(w) PROVE \E v \in Workers : Attends(v, o)'
  <2>1. Kept
    BY <1>6 DEF Kept, Choose, Claiming, WakeComing, Claimable
  <2>2. PICK v \in Workers : Attends(v, o)
    BY <1>1, <2>1
  <2>3. CASE v = w
    <3>1. claiming[w]
      BY <1>6, <2>2, <2>3 DEF Choose, Attends, Working
    <3>2. o \in IdleWait(w)
      BY <2>1, <3>1 DEF IdleWait, Kept
    <3>3. pc'[w] = "dozing" /\ o \in alarm'[w] /\ (op'[o] = "due" => rung'[w])
      BY <1>6, <3>2 DEF Choose, SleepUntil
    <3> QED
      BY <3>3 DEF Attends
  <2>4. CASE v # w
    <3>1. Attends(v, o)'
      BY <1>6, <2>2, <2>4 DEF Choose, SleepUntil, Attends
    <3> QED
      BY <3>1
  <2> QED
    BY <2>3, <2>4
<1>7. ASSUME NEW q \in Ops, FallsDue(q) PROVE \E v \in Workers : Attends(v, o)'
  <2>1. Kept
    BY <1>7, Constants DEF Kept, FallsDue, Claiming, WakeComing, Claimable
  <2>2. PICK v \in Workers : Attends(v, o)
    BY <1>1, <2>1
  <2>3. Attends(v, o)'
    BY <1>7, <2>2 DEF FallsDue, Attends
  <2> QED
    BY <2>3
<1>8. CASE ProbeWatch \/ UNCHANGED vars
  <2>1. Kept
    BY <1>8 DEF Kept, ProbeWatch, vars, Claiming, WakeComing, Claimable
  <2>2. PICK v \in Workers : Attends(v, o)
    BY <1>1, <2>1
  <2>3. Attends(v, o)'
    BY <1>8, <2>2 DEF ProbeWatch, vars, Attends
  <2> QED
    BY <2>3
(* The other steps raise the flag, announce a wake-up, or give workers a   *)
(* reason to claim nothing.                                                *)
<1>9. ASSUME NEW w \in Workers,
             WakeOthers(w) \/ ClaimFails(w) \/ RecordFails(w) \/ LoseLink(w)
      PROVE  FALSE
  <2>1. ~DbFault
    BY Constants DEF DbFault
  <2> QED
    BY <1>9, <2>1 DEF WakeOthers, ClaimFails, RecordFails, LoseLink, Claiming
<1>10. ASSUME NEW q \in Ops, Enqueue(q) \/ RetryNow(q) PROVE FALSE
  BY <1>10 DEF Enqueue, RetryNow, WakeComing
<1>11. ASSUME NEW c \in Ops \cup {Resume, Stop}, WakeDrain(c) PROVE FALSE
  BY <1>11 DEF WakeDrain
<1>12. CASE Pause \/ UserResumes \/ PauseEnds \/ BeginStop
  BY <1>12 DEF Pause, UserResumes, PauseEnds, Unpause, BeginStop, Claiming, WakeComing
<1>13. CASE ProbeAnswered \/ ProbeRetries \/ ProbeWakes
  BY <1>13 DEF ProbeAnswered, ProbeRetries, ProbeWakes, WakeComing
<1> QED
  BY <1>2, <1>3, <1>4, <1>5, <1>6, <1>7, <1>8, <1>9, <1>10, <1>11, <1>12, <1>13
     DEF Next, Worker, Probe

(* The invariant holds in every reachable state.                           *)
THEOREM Invariance == Spec => []Inv
<1>1. Inv /\ [Next]_vars => Inv'
  BY TypeStep, ClaimsStep, SleepersStep, AttendedStep DEF Inv
<1> QED
  BY InitInv, <1>1, PTL DEF Spec

(* drain.rs sleep_for_drain_work, lib.rs wake_drain: whatever the number   *)
(* of workers and ops, no wake-up is lost.                                 *)
THEOREM WakeupsKept == Spec => []NoLostWakeup
<1>1. Inv => NoLostWakeup
  <2> SUFFICES ASSUME Inv, ndb = 0, Claiming, ~stopping, ~WakeComing, NEW o \in Ops, Due(o)
               PROVE  \E w \in Workers : pc[w] # "asleep" \/ rung[w]
    BY DEF NoLostWakeup
  <2>1. CASE woken
    BY <2>1, Constants DEF Inv, SleepersUnflagged
  <2>2. CASE ~woken
    <3>1. PICK w \in Workers : Attends(w, o)
      BY <2>2 DEF Inv, Attended, Due
    <3>2. pc[w] # "asleep" \/ rung[w]
      BY <3>1 DEF Attends, Due, Working
    <3> QED
      BY <3>2
  <2> QED
    BY <2>1, <2>2
<1> QED
  BY <1>1, Invariance, PTL

(* drain.rs run_pending_drain: a row is claimed only while a worker is     *)
(* between claiming and releasing it, so a stopped drain leaves no claim.  *)
THEOREM ClaimsReleased == Spec => []ClaimsHaveWorkers
BY Invariance, PTL DEF Inv
=============================================================================
