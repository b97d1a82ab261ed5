------------------------- MODULE WorkerLanesProofs -------------------------
(***************************************************************************)
(* No wake-up of a worker thread is lost, for any number of threads of     *)
(* either kind, of callers and of jobs: Inv of WorkerLanes is inductive.   *)
(***************************************************************************)
EXTENDS WorkerLanes, FiniteSetTheorems, TLAPS

(* The assumptions on the constants, together.                             *)
LEMMA Constants ==
  /\ IsFiniteSet(Reserved) /\ IsFiniteSet(General) /\ IsFiniteSet(Callers)
  /\ Reserved \cap General = {}
  /\ MetaJobs \cap TransferJobs = {}
  /\ NoJob \notin Jobs
BY LanesAssumption, NoJobAssumption

(* The sets Covered counts are finite.                                     *)
LEMMA Countable ==
  ASSUME NEW set \in {Reserved, General}, NEW steps
  PROVE  /\ IsFiniteSet(Looking(set)) /\ Cardinality(Looking(set)) \in Nat
         /\ IsFiniteSet(Notifying(steps)) /\ Cardinality(Notifying(steps)) \in Nat
<1>1. IsFiniteSet(Looking(set))
  BY Constants, FS_Subset DEF Looking
<1>2. IsFiniteSet(Notifying(steps))
  BY Constants, FS_Subset DEF Notifying
<1> QED
  BY <1>1, <1>2, FS_CardinalityType

(* The same of the sets after a step.                                      *)
LEMMA CountableAfter ==
  ASSUME NEW set \in {Reserved, General}, NEW steps
  PROVE  /\ IsFiniteSet(Looking(set)') /\ Cardinality(Looking(set)') \in Nat
         /\ IsFiniteSet(Notifying(steps)') /\ Cardinality(Notifying(steps)') \in Nat
<1>1. IsFiniteSet(Looking(set)')
  BY Constants, FS_Subset DEF Looking
<1>2. IsFiniteSet(Notifying(steps)')
  BY Constants, FS_Subset DEF Notifying
<1> QED
  BY <1>1, <1>2, FS_CardinalityType

(* One element more, or one less.                                          *)
LEMMA OneMore ==
  ASSUME NEW S, NEW x, IsFiniteSet(S), x \notin S
  PROVE  Cardinality(S \cup {x}) = Cardinality(S) + 1
BY FS_AddElement

LEMMA OneLess ==
  ASSUME NEW S, NEW x, IsFiniteSet(S), x \in S
  PROVE  Cardinality(S \ {x}) = Cardinality(S) - 1
BY FS_RemoveElement

LEMMA InitInv == Init => Inv
<1> SUFFICES ASSUME Init PROVE Inv
  OBVIOUS
<1>1. TypeOK
  <2>1. meta \in Seq(MetaJobs) /\ transfer \in Seq(TransferJobs)
    BY DEF Init
  <2>2. closed \in BOOLEAN
    BY DEF Init
  <2>3. /\ thread \in [Workers -> {"look", "wait", "run", "gone"}]
        /\ hand \in [Workers -> Jobs \cup {NoJob}]
        /\ \A w \in Workers : thread[w] = "run" <=> hand[w] # NoJob
    BY DEF Init
  <2> QED
    BY <2>1, <2>2, <2>3 DEF Init, TypeOK
<1>2. Asleep(General) = {} /\ Asleep(Reserved) = {}
  BY DEF Init, Asleep, Workers
<1> QED
  BY <1>1, <1>2 DEF Init, Inv, Covered

-----------------------------------------------------------------------------

(* What a notification may do to the threads.                              *)
LEMMA NotifyType ==
  ASSUME TypeOK, NEW set \in {Reserved, General}, NotifyOne(set), hand' = hand
  PROVE  /\ thread' \in [Workers -> {"look", "wait", "run", "gone"}]
         /\ \A w \in Workers : thread'[w] = "run" <=> hand'[w] # NoJob
BY DEF TypeOK, NotifyOne, Asleep, Workers

(* Appending a job to a queue keeps its type.                               *)
LEMMA AppendType ==
  ASSUME NEW S, NEW q \in Seq(S), NEW x \in S
  PROVE  Append(q, x) \in Seq(S)
OBVIOUS

(* Every step keeps the types.                                             *)
LEMMA TypeStep == TypeOK /\ [Next]_vars => TypeOK'
<1> SUFFICES ASSUME TypeOK, [Next]_vars PROVE TypeOK'
  OBVIOUS
<1> USE Constants DEF queues
<1>1. ASSUME NEW c \in Callers, NEW j \in Jobs, Submit(c, j) PROVE TypeOK'
  <2>1. j \in MetaJobs \/ j \in TransferJobs
    BY DEF Jobs
  <2>2. meta' \in Seq(MetaJobs) /\ transfer' \in Seq(TransferJobs)
    <3>1. meta \in Seq(MetaJobs) /\ transfer \in Seq(TransferJobs)
      BY DEF TypeOK
    <3>2. CASE j \in MetaJobs
      <4>1. meta' = Append(meta, j) /\ transfer' = transfer
        BY <1>1, <3>2 DEF Submit
      <4> QED
        BY <3>1, <3>2, <4>1, AppendType
    <3>3. CASE j \notin MetaJobs
      <4>1. transfer' = Append(transfer, j) /\ meta' = meta
        BY <1>1, <3>3 DEF Submit
      <4> QED
        BY <2>1, <3>1, <3>3, <4>1, AppendType
    <3> QED
      BY <3>2, <3>3
  <2>3. /\ caller' \in [Callers -> {"idle", "meta", "general", "inline"}]
        /\ job' \in [Jobs -> {"new", "queued", "running", "done"}]
    BY <1>1 DEF Submit, TypeOK
  <2>4. UNCHANGED <<closed, thread, hand, stop>>
    BY <1>1 DEF Submit
  <2> QED
    BY <2>2, <2>3, <2>4 DEF TypeOK
<1>2. ASSUME NEW c \in Callers, NotifyReserved(c) PROVE TypeOK'
  BY <1>2, NotifyType DEF NotifyReserved, TypeOK
<1>3. ASSUME NEW c \in Callers, NotifyGeneral(c) PROVE TypeOK'
  BY <1>3, NotifyType DEF NotifyGeneral, TypeOK
<1>4. ASSUME NEW c \in Callers, NEW j \in Jobs, SubmitInline(c, j) \/ FinishInline(c, j)
      PROVE  TypeOK'
  BY <1>4 DEF SubmitInline, FinishInline, TypeOK
<1>5. ASSUME NEW w \in Workers, TakeTransfer(w) PROVE TypeOK'
  <2>1. Head(transfer) \in TransferJobs /\ Tail(transfer) \in Seq(TransferJobs)
    BY <1>5 DEF TakeTransfer, TakesTransfer, TypeOK
  <2>2. Head(transfer) \in Jobs /\ Head(transfer) # NoJob
    BY <2>1 DEF Jobs
  <2> QED
    BY <1>5, <2>1, <2>2 DEF TakeTransfer, Pick, TypeOK
<1>6. ASSUME NEW w \in Workers, TakeMeta(w) PROVE TypeOK'
  <2>1. Head(meta) \in MetaJobs /\ Tail(meta) \in Seq(MetaJobs)
    BY <1>6 DEF TakeMeta, TakesMeta, TypeOK
  <2>2. Head(meta) \in Jobs /\ Head(meta) # NoJob
    BY <2>1 DEF Jobs
  <2> QED
    BY <1>6, <2>1, <2>2 DEF TakeMeta, Pick, TypeOK
<1>7. ASSUME NEW w \in Workers, Sleep(w) \/ Leave(w) PROVE TypeOK'
  BY <1>7 DEF Sleep, Leave, TypeOK
<1>11. ASSUME NEW w \in Workers, Finish(w) PROVE TypeOK'
  <2>1. /\ thread' \in [Workers -> {"look", "wait", "run", "gone"}]
        /\ hand' \in [Workers -> Jobs \cup {NoJob}]
        /\ \A v \in Workers : thread'[v] = "run" <=> hand'[v] # NoJob
    BY <1>11 DEF Finish, TypeOK
  <2>2. job' \in [Jobs -> {"new", "queued", "running", "done"}]
    BY <1>11 DEF Finish, TypeOK
  <2> QED
    BY <1>11, <2>1, <2>2 DEF Finish, TypeOK
<1>8. CASE Close \/ Joined \/ GiveUp
  BY <1>8 DEF Close, Joined, GiveUp, TypeOK
<1>9. CASE RouseReserved \/ RouseGeneral
  BY <1>9 DEF RouseReserved, RouseGeneral, NotifyAll, Asleep, TypeOK
<1>10. CASE UNCHANGED vars
  BY <1>10 DEF vars, TypeOK
<1> QED
  BY <1>1, <1>2, <1>3, <1>4, <1>5, <1>6, <1>7, <1>8, <1>9, <1>10, <1>11
     DEF Next, Notify, Thread, Stopping

-----------------------------------------------------------------------------

(* A notification rouses one thread of the set, if one waits, and leaves   *)
(* every other thread alone.                                               *)
LEMMA Roused ==
  ASSUME TypeOK, NEW set \in {Reserved, General}, NotifyOne(set), Asleep(set)' # {}
  PROVE  \E v \in set : /\ v \notin Looking(set)
                        /\ Looking(set)' = Looking(set) \cup {v}
<1>1. set \subseteq Workers
  BY DEF Workers
<1>2. Asleep(set) # {}
  BY DEF NotifyOne, Asleep
<1>3. PICK v \in Asleep(set) : thread' = [thread EXCEPT ![v] = "look"]
  BY <1>2 DEF NotifyOne
<1>4. v \in set /\ v \notin Looking(set)
  BY <1>3 DEF Asleep, Looking
<1>5. Looking(set)' = Looking(set) \cup {v}
  BY <1>1, <1>3, <1>4 DEF Looking, TypeOK
<1> QED
  BY <1>4, <1>5

(* It leaves the other set's threads as they are.                          *)
LEMMA OthersAsTheyWere ==
  ASSUME TypeOK, NEW set, NEW other, set \cap other = {}, set \subseteq Workers,
         other \subseteq Workers, NotifyOne(set)
  PROVE  Looking(other)' = Looking(other) /\ Asleep(other)' = Asleep(other)
BY DEF NotifyOne, Asleep, Looking, TypeOK

(* Threads fall asleep only where the queue they serve is empty; the counts *)
(* of a set that is not touched stay.                                      *)
LEMMA Sleeps ==
  ASSUME TypeOK, NEW w \in Workers, Sleep(w) \/ Leave(w)
  PROVE  /\ w \in General => transfer' = <<>>
         /\ w \in Reserved => meta' = <<>>
         /\ w \notin General => Looking(General)' = Looking(General)
                               /\ Asleep(General)' = Asleep(General)
         /\ w \notin Reserved => Looking(Reserved)' = Looking(Reserved)
                                /\ Asleep(Reserved)' = Asleep(Reserved)
         /\ UNCHANGED <<queues, caller>>
<1>1. UNCHANGED <<queues, caller>>
  BY DEF Sleep, Leave
<1>2. FindsNothing(w)
  BY DEF Sleep, Leave
<1>3. w \in General => transfer' = <<>>
  BY <1>1, <1>2 DEF FindsNothing, TakesTransfer, queues
<1>4. w \in Reserved => meta' = <<>>
  BY <1>1, <1>2, Constants DEF FindsNothing, TakesMeta, queues
<1>5. \A v \in Workers : v # w => thread'[v] = thread[v]
  BY DEF Sleep, Leave, TypeOK
<1>6. w \notin General => Looking(General)' = Looking(General) /\ Asleep(General)' = Asleep(General)
  BY <1>5 DEF Looking, Asleep, Workers
<1>7. w \notin Reserved => Looking(Reserved)' = Looking(Reserved) /\ Asleep(Reserved)' = Asleep(Reserved)
  BY <1>5 DEF Looking, Asleep, Workers
<1> QED
  BY <1>1, <1>3, <1>4, <1>6, <1>7

(* A thread that takes a job stops looking; nobody falls asleep.           *)
LEMMA Picks ==
  ASSUME TypeOK, NEW w \in Workers, NEW j, thread[w] = "look", Pick(w, j)
  PROVE  /\ Looking(General)' = Looking(General) \ {w}
         /\ Looking(Reserved)' = Looking(Reserved) \ {w}
         /\ Asleep(General)' = Asleep(General)
         /\ Asleep(Reserved)' = Asleep(Reserved)
<1>1. \A v \in Workers : thread'[v] = IF v = w THEN "run" ELSE thread[v]
  BY DEF Pick, TypeOK
<1> QED
  BY <1>1 DEF Looking, Asleep, Workers

-----------------------------------------------------------------------------

(* The threads for transfers stay covered.                                 *)
LEMMA GeneralCovered ==
  ASSUME TypeOK, TypeOK', Covered(General, transfer, {"general"}), [Next]_vars
  PROVE  Covered(General, transfer, {"general"})'
<1> DEFINE N == Notifying({"general"})
           L == Looking(General)
<1> USE Constants
<1>0. /\ IsFiniteSet(L) /\ Cardinality(L) \in Nat /\ IsFiniteSet(N) /\ Cardinality(N) \in Nat
      /\ IsFiniteSet(L') /\ Cardinality(L') \in Nat /\ IsFiniteSet(N') /\ Cardinality(N') \in Nat
  BY Countable, CountableAfter
<1>00. Len(transfer) \in Nat /\ Len(transfer') \in Nat /\ Len(<<>>) = 0
  BY DEF TypeOK
<1>1. ASSUME NEW c \in Callers, NEW j \in Jobs, Submit(c, j)
      PROVE  Covered(General, transfer, {"general"})'
  <2>1. L' = L /\ Asleep(General)' = Asleep(General)
    BY <1>1 DEF Submit, Looking, Asleep
  <2>2. CASE j \in MetaJobs
    <3>1. N' = N /\ transfer' = transfer
      BY <1>1, <2>2 DEF Submit, Notifying, TypeOK
    <3> QED
      BY <2>1, <3>1 DEF Covered
  <2>3. CASE j \notin MetaJobs
    <3>1. c \notin N /\ N' = N \cup {c}
      BY <1>1, <2>3 DEF Submit, Notifying, TypeOK
    <3>2. Len(transfer') = Len(transfer) + 1
      BY <1>1, <2>3 DEF Submit, TypeOK
    <3>3. Cardinality(N') = Cardinality(N) + 1
      BY <1>0, <3>1, OneMore
    <3> QED
      BY <1>0, <1>00, <2>1, <3>2, <3>3 DEF Covered
  <2> QED
    BY <2>2, <2>3
<1>2. ASSUME NEW c \in Callers, NotifyReserved(c)
      PROVE  Covered(General, transfer, {"general"})'
  <2>1. L' = L /\ Asleep(General)' = Asleep(General)
    BY <1>2, OthersAsTheyWere DEF NotifyReserved, Workers
  <2>2. c \notin N /\ N' = N \cup {c} /\ transfer' = transfer
    BY <1>2 DEF NotifyReserved, Notifying, queues, TypeOK
  <2>3. Cardinality(N') = Cardinality(N) + 1
    BY <1>0, <2>2, OneMore
  <2> QED
    BY <1>0, <1>00, <2>1, <2>2, <2>3 DEF Covered
<1>3. ASSUME NEW c \in Callers, NotifyGeneral(c)
      PROVE  Covered(General, transfer, {"general"})'
  <2> SUFFICES ASSUME Asleep(General)' # {}
               PROVE  Cardinality(L') + Cardinality(N') >= Len(transfer')
    BY DEF Covered
  <2>1. c \in N /\ N' = N \ {c} /\ transfer' = transfer
    BY <1>3 DEF NotifyGeneral, Notifying, queues, TypeOK
  <2>2. Asleep(General) # {}
    BY <1>3 DEF NotifyGeneral, NotifyOne, Asleep
  <2>3. PICK v \in General : v \notin L /\ L' = L \cup {v}
    BY <1>3, Roused DEF NotifyGeneral
  <2>4. Cardinality(L') = Cardinality(L) + 1
    BY <1>0, <2>3, OneMore
  <2>5. Cardinality(N') = Cardinality(N) - 1
    BY <1>0, <2>1, OneLess
  <2> QED
    BY <1>0, <1>00, <2>1, <2>2, <2>4, <2>5 DEF Covered
<1>4. ASSUME NEW c \in Callers, NEW j \in Jobs, SubmitInline(c, j) \/ FinishInline(c, j)
      PROVE  Covered(General, transfer, {"general"})'
  <2>1. L' = L /\ Asleep(General)' = Asleep(General) /\ transfer' = transfer
    BY <1>4 DEF SubmitInline, FinishInline, Looking, Asleep, queues
  <2>2. N' = N
    BY <1>4 DEF SubmitInline, FinishInline, Notifying, TypeOK
  <2> QED
    BY <2>1, <2>2 DEF Covered
<1>5. ASSUME NEW w \in Workers, TakeTransfer(w)
      PROVE  Covered(General, transfer, {"general"})'
  <2>1. w \in L /\ L' = L \ {w} /\ Asleep(General)' = Asleep(General)
    BY <1>5, Picks DEF TakeTransfer, TakesTransfer, Looking
  <2>2. Len(transfer') = Len(transfer) - 1
    BY <1>5 DEF TakeTransfer, TakesTransfer, TypeOK
  <2>3. Cardinality(L') = Cardinality(L) - 1
    BY <1>0, <2>1, OneLess
  <2>4. N' = N
    BY <1>5 DEF TakeTransfer, Pick, Notifying
  <2> QED
    BY <1>0, <1>00, <2>1, <2>2, <2>3, <2>4 DEF Covered
<1>6. ASSUME NEW w \in Workers, TakeMeta(w)
      PROVE  Covered(General, transfer, {"general"})'
  <2>1. L' = L \ {w} /\ Asleep(General)' = Asleep(General)
    BY <1>6, Picks DEF TakeMeta
  <2>2. N' = N /\ transfer' = transfer
    BY <1>6 DEF TakeMeta, Pick, Notifying
  <2>3. CASE w \in General
    BY <1>0, <1>00, <1>6, <2>2, <2>3 DEF TakeMeta, TakesMeta, Covered
  <2>4. CASE w \notin General
    <3>1. L' = L
      BY <2>1, <2>4 DEF Looking
    <3> QED
      BY <2>1, <2>2, <3>1 DEF Covered
  <2> QED
    BY <2>3, <2>4
<1>7. ASSUME NEW w \in Workers, Sleep(w) \/ Leave(w)
      PROVE  Covered(General, transfer, {"general"})'
  <2>1. N' = N /\ transfer' = transfer
    BY <1>7, Sleeps DEF Notifying, queues
  <2>2. CASE w \in General
    BY <1>0, <1>00, <1>7, <2>2, Sleeps DEF Covered
  <2>3. CASE w \notin General
    <3>1. L' = L /\ Asleep(General)' = Asleep(General)
      BY <1>7, <2>3, Sleeps
    <3> QED
      BY <2>1, <3>1 DEF Covered
  <2> QED
    BY <2>2, <2>3
<1>8. ASSUME NEW w \in Workers, Finish(w)
      PROVE  Covered(General, transfer, {"general"})'
  <2>1. N' = N /\ transfer' = transfer
    BY <1>8 DEF Finish, Notifying, queues
  <2>2. Asleep(General)' = Asleep(General) /\ L \subseteq L'
    BY <1>8 DEF Finish, Asleep, Looking, Workers, TypeOK
  <2>3. Cardinality(L) <= Cardinality(L')
    BY <1>0, <2>2, FS_Subset
  <2> QED
    BY <1>0, <1>00, <2>1, <2>2, <2>3 DEF Covered
<1>9. CASE Close \/ Joined \/ GiveUp \/ UNCHANGED vars
  <2>1. UNCHANGED <<transfer, thread, caller>>
    BY <1>9 DEF Close, Joined, GiveUp, vars, queues
  <2>2. L' = L /\ N' = N /\ Asleep(General)' = Asleep(General)
    BY <2>1 DEF Looking, Notifying, Asleep
  <2> QED
    BY <2>1, <2>2 DEF Covered
<1>10. CASE RouseReserved
  <2>1. L' = L /\ N' = N /\ Asleep(General)' = Asleep(General) /\ transfer' = transfer
    BY <1>10 DEF RouseReserved, NotifyAll, Asleep, Looking, Notifying, Workers, queues
  <2> QED
    BY <2>1 DEF Covered
<1>11. CASE RouseGeneral
  <2>1. Asleep(General)' = {}
    BY <1>11 DEF RouseGeneral, NotifyAll, Asleep, Workers
  <2> QED
    BY <2>1 DEF Covered
<1> QED
  BY <1>1, <1>2, <1>3, <1>4, <1>5, <1>6, <1>7, <1>8, <1>9, <1>10, <1>11
     DEF Next, Notify, Thread, Stopping

(* The threads for metadata stay covered.                                  *)
LEMMA ReservedCovered ==
  ASSUME TypeOK, TypeOK', Covered(Reserved, meta, {"meta"}), [Next]_vars
  PROVE  Covered(Reserved, meta, {"meta"})'
<1> DEFINE N == Notifying({"meta"})
           L == Looking(Reserved)
<1> USE Constants
<1>0. /\ IsFiniteSet(L) /\ Cardinality(L) \in Nat /\ IsFiniteSet(N) /\ Cardinality(N) \in Nat
      /\ IsFiniteSet(L') /\ Cardinality(L') \in Nat /\ IsFiniteSet(N') /\ Cardinality(N') \in Nat
  BY Countable, CountableAfter
<1>00. Len(meta) \in Nat /\ Len(meta') \in Nat /\ Len(<<>>) = 0
  BY DEF TypeOK
<1>1. ASSUME NEW c \in Callers, NEW j \in Jobs, Submit(c, j)
      PROVE  Covered(Reserved, meta, {"meta"})'
  <2>1. L' = L /\ Asleep(Reserved)' = Asleep(Reserved)
    BY <1>1 DEF Submit, Looking, Asleep
  <2>2. CASE j \in MetaJobs
    <3>1. c \notin N /\ N' = N \cup {c}
      BY <1>1, <2>2 DEF Submit, Notifying, TypeOK
    <3>2. Len(meta') = Len(meta) + 1
      BY <1>1, <2>2 DEF Submit, TypeOK
    <3>3. Cardinality(N') = Cardinality(N) + 1
      BY <1>0, <3>1, OneMore
    <3> QED
      BY <1>0, <1>00, <2>1, <3>2, <3>3 DEF Covered
  <2>3. CASE j \notin MetaJobs
    <3>1. N' = N /\ meta' = meta
      BY <1>1, <2>3 DEF Submit, Notifying, TypeOK
    <3> QED
      BY <2>1, <3>1 DEF Covered
  <2> QED
    BY <2>2, <2>3
<1>2. ASSUME NEW c \in Callers, NotifyReserved(c)
      PROVE  Covered(Reserved, meta, {"meta"})'
  <2> SUFFICES ASSUME Asleep(Reserved)' # {}
               PROVE  Cardinality(L') + Cardinality(N') >= Len(meta')
    BY DEF Covered
  <2>1. c \in N /\ N' = N \ {c} /\ meta' = meta
    BY <1>2 DEF NotifyReserved, Notifying, queues, TypeOK
  <2>2. Asleep(Reserved) # {}
    BY <1>2 DEF NotifyReserved, NotifyOne, Asleep
  <2>3. PICK v \in Reserved : v \notin L /\ L' = L \cup {v}
    BY <1>2, Roused DEF NotifyReserved
  <2>4. Cardinality(L') = Cardinality(L) + 1
    BY <1>0, <2>3, OneMore
  <2>5. Cardinality(N') = Cardinality(N) - 1
    BY <1>0, <2>1, OneLess
  <2> QED
    BY <1>0, <1>00, <2>1, <2>2, <2>4, <2>5 DEF Covered
<1>3. ASSUME NEW c \in Callers, NotifyGeneral(c)
      PROVE  Covered(Reserved, meta, {"meta"})'
  <2>1. L' = L /\ Asleep(Reserved)' = Asleep(Reserved)
    BY <1>3, OthersAsTheyWere DEF NotifyGeneral, Workers
  <2>2. N' = N /\ meta' = meta
    BY <1>3 DEF NotifyGeneral, Notifying, queues, TypeOK
  <2> QED
    BY <2>1, <2>2 DEF Covered
<1>4. ASSUME NEW c \in Callers, NEW j \in Jobs, SubmitInline(c, j) \/ FinishInline(c, j)
      PROVE  Covered(Reserved, meta, {"meta"})'
  <2>1. L' = L /\ Asleep(Reserved)' = Asleep(Reserved) /\ meta' = meta
    BY <1>4 DEF SubmitInline, FinishInline, Looking, Asleep, queues
  <2>2. N' = N
    BY <1>4 DEF SubmitInline, FinishInline, Notifying, TypeOK
  <2> QED
    BY <2>1, <2>2 DEF Covered
<1>5. ASSUME NEW w \in Workers, TakeTransfer(w)
      PROVE  Covered(Reserved, meta, {"meta"})'
  <2>1. w \notin Reserved /\ L' = L \ {w} /\ Asleep(Reserved)' = Asleep(Reserved)
    BY <1>5, Picks DEF TakeTransfer, TakesTransfer
  <2>2. N' = N /\ meta' = meta
    BY <1>5 DEF TakeTransfer, Pick, Notifying
  <2>3. L' = L
    BY <2>1 DEF Looking
  <2> QED
    BY <2>1, <2>2, <2>3 DEF Covered
<1>6. ASSUME NEW w \in Workers, TakeMeta(w)
      PROVE  Covered(Reserved, meta, {"meta"})'
  <2>1. L' = L \ {w} /\ Asleep(Reserved)' = Asleep(Reserved)
    BY <1>6, Picks DEF TakeMeta
  <2>2. N' = N
    BY <1>6 DEF TakeMeta, Pick, Notifying
  <2>3. Len(meta') = Len(meta) - 1
    BY <1>6 DEF TakeMeta, TakesMeta, TypeOK
  <2>4. Cardinality(L') >= Cardinality(L) - 1
    BY <1>0, <2>1, FS_RemoveElement
  <2> QED
    BY <1>0, <1>00, <2>1, <2>2, <2>3, <2>4 DEF Covered
<1>7. ASSUME NEW w \in Workers, Sleep(w) \/ Leave(w)
      PROVE  Covered(Reserved, meta, {"meta"})'
  <2>1. N' = N /\ meta' = meta
    BY <1>7, Sleeps DEF Notifying, queues
  <2>2. CASE w \in Reserved
    BY <1>0, <1>00, <1>7, <2>2, Sleeps DEF Covered
  <2>3. CASE w \notin Reserved
    <3>1. L' = L /\ Asleep(Reserved)' = Asleep(Reserved)
      BY <1>7, <2>3, Sleeps
    <3> QED
      BY <2>1, <3>1 DEF Covered
  <2> QED
    BY <2>2, <2>3
<1>8. ASSUME NEW w \in Workers, Finish(w)
      PROVE  Covered(Reserved, meta, {"meta"})'
  <2>1. N' = N /\ meta' = meta
    BY <1>8 DEF Finish, Notifying, queues
  <2>2. Asleep(Reserved)' = Asleep(Reserved) /\ L \subseteq L'
    BY <1>8 DEF Finish, Asleep, Looking, Workers, TypeOK
  <2>3. Cardinality(L) <= Cardinality(L')
    BY <1>0, <2>2, FS_Subset
  <2> QED
    BY <1>0, <1>00, <2>1, <2>2, <2>3 DEF Covered
<1>9. CASE Close \/ Joined \/ GiveUp \/ UNCHANGED vars
  <2>1. UNCHANGED <<meta, thread, caller>>
    BY <1>9 DEF Close, Joined, GiveUp, vars, queues
  <2>2. L' = L /\ N' = N /\ Asleep(Reserved)' = Asleep(Reserved)
    BY <2>1 DEF Looking, Notifying, Asleep
  <2> QED
    BY <2>1, <2>2 DEF Covered
<1>10. CASE RouseGeneral
  <2>1. L' = L /\ N' = N /\ Asleep(Reserved)' = Asleep(Reserved) /\ meta' = meta
    BY <1>10 DEF RouseGeneral, NotifyAll, Asleep, Looking, Notifying, Workers, queues
  <2> QED
    BY <2>1 DEF Covered
<1>11. CASE RouseReserved
  <2>1. Asleep(Reserved)' = {}
    BY <1>11 DEF RouseReserved, NotifyAll, Asleep, Workers
  <2> QED
    BY <2>1 DEF Covered
<1> QED
  BY <1>1, <1>2, <1>3, <1>4, <1>5, <1>6, <1>7, <1>8, <1>9, <1>10, <1>11
     DEF Next, Notify, Thread, Stopping

-----------------------------------------------------------------------------

(* What Inv says of a stop: once a wait set was roused for good, none of   *)
(* its threads sleeps again.                                               *)
StopRouses ==
  /\ closed <=> stop # "no"
  /\ stop \in {"rousing", "joining", "stopped"} => Asleep(Reserved) = {}
  /\ stop \in {"joining", "stopped"} => Asleep(General) = {}

(* Every step keeps that.                                                  *)
LEMMA StopStep ==
  ASSUME TypeOK, StopRouses, [Next]_vars
  PROVE  StopRouses'
<1> USE DEF StopRouses, queues
<1>1. ASSUME NEW c \in Callers, NEW j \in Jobs, Submit(c, j) \/ SubmitInline(c, j) \/ FinishInline(c, j)
      PROVE  StopRouses'
  BY <1>1 DEF Submit, SubmitInline, FinishInline, Asleep
<1>2. ASSUME NEW c \in Callers, Notify(c) PROVE StopRouses'
  <2>1. Asleep(Reserved)' \subseteq Asleep(Reserved) /\ Asleep(General)' \subseteq Asleep(General)
    BY <1>2 DEF Notify, NotifyReserved, NotifyGeneral, NotifyOne, Asleep, Workers, TypeOK
  <2> QED
    BY <1>2, <2>1 DEF Notify, NotifyReserved, NotifyGeneral
<1>3. ASSUME NEW w \in Workers, Sleep(w) PROVE StopRouses'
  BY <1>3 DEF Sleep
<1>4. ASSUME NEW w \in Workers, TakeTransfer(w) \/ TakeMeta(w) \/ Leave(w) \/ Finish(w)
      PROVE  StopRouses'
  <2>1. Asleep(Reserved)' = Asleep(Reserved) /\ Asleep(General)' = Asleep(General)
    BY <1>4 DEF TakeTransfer, TakeMeta, Pick, Leave, Finish, Asleep, Workers, TypeOK
  <2> QED
    BY <1>4, <2>1 DEF TakeTransfer, TakeMeta, Pick, Leave, Finish
<1>5. CASE Close \/ Joined \/ GiveUp
  BY <1>5 DEF Close, Joined, GiveUp, Asleep
<1>6. CASE RouseReserved \/ RouseGeneral
  BY <1>6 DEF RouseReserved, RouseGeneral, NotifyAll, Asleep, Workers
<1>7. CASE UNCHANGED vars
  BY <1>7 DEF vars, Asleep
<1> QED
  BY <1>1, <1>2, <1>3, <1>4, <1>5, <1>6, <1>7 DEF Next, Thread, Stopping

-----------------------------------------------------------------------------

(* The queues, the wait sets and the stop stay in step: Inv is an          *)
(* invariant of the pool, with any number of threads, callers and jobs.    *)
THEOREM LanesInvariant == Spec => []Inv
<1>1. Inv /\ [Next]_vars => Inv'
  <2> SUFFICES ASSUME Inv, [Next]_vars PROVE Inv'
    OBVIOUS
  <2>1. TypeOK'
    BY TypeStep DEF Inv
  <2>2. Covered(General, transfer, {"general"})'
    BY <2>1, GeneralCovered DEF Inv
  <2>3. Covered(Reserved, meta, {"meta"})'
    BY <2>1, ReservedCovered DEF Inv
  <2>4. StopRouses'
    BY StopStep DEF Inv, StopRouses
  <2> QED
    BY <2>1, <2>2, <2>3, <2>4 DEF Inv, StopRouses
<1> QED
  BY <1>1, InitInv, PTL DEF Spec

(* No job waits beside a sleeping thread that may take it, unless one is   *)
(* awake or about to be roused (the two condition variables of Pool).      *)
THEOREM NoWakeupLost == Spec => []NoLostWakeup
<1>1. Inv => NoLostWakeup
  <2> SUFFICES ASSUME Inv PROVE NoLostWakeup
    OBVIOUS
  <2>1. /\ Len(transfer) \in Nat /\ (transfer # <<>> => Len(transfer) > 0)
        /\ Len(meta) \in Nat /\ (meta # <<>> => Len(meta) > 0)
    BY DEF Inv, TypeOK
  <2>2. Cardinality({}) = 0
    BY FS_EmptySet
  <2>3. transfer # <<>> /\ Asleep(General) # {} =>
          Looking(General) # {} \/ Notifying({"general"}) # {}
    BY <2>1, <2>2 DEF Inv, Covered
  <2>4. meta # <<>> /\ Asleep(Reserved) # {} =>
          Looking(Reserved) # {} \/ Notifying({"meta"}) # {}
    <3>1. Covered(Reserved, meta, {"meta"})
      BY DEF Inv
    <3>2. ASSUME meta # <<>>, Asleep(Reserved) # {},
                 Looking(Reserved) = {}, Notifying({"meta"}) = {}
          PROVE  FALSE
      <4>1. Cardinality(Looking(Reserved)) = 0 /\ Cardinality(Notifying({"meta"})) = 0
        BY <2>2, <3>2
      <4>2. 0 + 0 >= Len(meta)
        BY <3>1, <3>2, <4>1 DEF Covered
      <4> QED
        BY <2>1, <3>2, <4>2
    <3> QED
      BY <3>2
  <2> QED
    BY <2>3, <2>4 DEF NoLostWakeup
<1> QED
  BY <1>1, LanesInvariant, PTL
=============================================================================
