--------------------------- MODULE EventSyncProofs ---------------------------
(***************************************************************************)
(* A daemon that has caught up with the event feed lists the folder as     *)
(* Drive has it, and the echo of an upload does not cost the bytes it      *)
(* cached, for any files, changes, uploads and faults: Inv of EventSync is *)
(* inductive.                                                              *)
(***************************************************************************)
EXTENDS EventSync, FiniteSetTheorems, TLAPS

LEMMA Constants ==
  /\ MaxEvents \in Nat /\ MaxOwn \in Nat /\ MaxFault \in Nat
  /\ Present \subseteq Files
  /\ Revs \subseteq Int /\ \A r : r \in Revs <=> r \in Int /\ 0 <= r /\ r <= MaxEvents + 1
BY EventSyncAssumption DEF Revs

(* The states of an upload and of a listing.                               *)
LEMMA Shapes ==
  /\ Idle \in OwnStates /\ [at |-> "queued"] \in OwnStates
  /\ \A r \in Revs \ {0} : /\ [at |-> "sealed", rev |-> r] \in OwnStates
                          /\ \A h \in BOOLEAN : [at |-> "read", rev |-> r, here |-> h] \in OwnStates
  /\ Idle.at = "idle" /\ Idle # [at |-> "queued"]
  /\ \A r, h : /\ Idle # [at |-> "sealed", rev |-> r]
              /\ Idle # [at |-> "read", rev |-> r, here |-> h]
  /\ \A o \in OwnStates : /\ o.at \in {"idle", "queued", "sealed", "read"}
                          /\ (o = Idle <=> o.at = "idle")
                          /\ o.at \in {"sealed", "read"} => o.rev \in Revs \ {0}
                          /\ o.at = "read" => o.here \in BOOLEAN
  /\ NoDirty \in Dirty /\ NotListed \in Listings
  /\ Idle \notin Asked
BY DEF Idle, OwnStates, NoDirty, Dirty, NotListed, Listings, Asked

LEMMA Widen ==
  ASSUME NEW n \in Nat, NEW s \in Seq(1 .. n)
  PROVE  s \in Seq(1 .. n + 1)
<1>1. 1 .. n \subseteq 1 .. n + 1
  OBVIOUS
<1> QED
  BY <1>1

LEMMA Events ==
  ASSUME NEW e \in Event
  PROVE  /\ e.kind \in {"updated", "moved", "trashed", "deleted", "lost"}
         /\ e.kind # "lost" => e.file \in Files /\ e.mine \in BOOLEAN
BY DEF Event

(* The batch is read from its front.                                       *)
LEMMA Front ==
  ASSUME TypeOK, batch # <<>>
  PROVE  /\ Len(batch) \in Nat /\ Len(batch) >= 1
         /\ Head(batch) = batch[1] /\ Head(batch) \in 1 .. Len(log)
         /\ log[Head(batch)] \in Event
         /\ Tail(batch) \in Seq(1 .. Len(log)) /\ Len(Tail(batch)) = Len(batch) - 1
         /\ \A i \in 1 .. Len(batch) - 1 : Tail(batch)[i] = batch[i + 1]
<1>1. batch \in Seq(1 .. Len(log)) /\ log \in Seq(Event)
  BY DEF TypeOK
<1>2. Len(batch) \in Nat /\ Len(batch) >= 1 /\ Head(batch) = batch[1]
  BY <1>1
<1>3. batch[1] \in 1 .. Len(log)
  BY <1>1, <1>2
<1> QED
  BY <1>1, <1>2, <1>3

(* The last change of a file.                                              *)
LEMMA LastType ==
  ASSUME TypeOK, NEW f \in Files
  PROVE  /\ drive[f].in \in BOOLEAN /\ drive[f].rev \in Revs \ {0} /\ drive[f].rev \in Int
         /\ Last(f) \in Int
<1>1. drive[f] \in OnDrive
  BY DEF TypeOK
<1> QED
  BY <1>1, Constants DEF OnDrive, Last

(* What a change of Drive does to the log.                                 *)
LEMMA Changed ==
  ASSUME TypeOK, NEW f \in Files, NEW in \in BOOLEAN,
         NEW kind \in {"updated", "moved", "trashed", "deleted"}, NEW mine \in BOOLEAN,
         Change(f, in, kind, mine)
  PROVE  /\ drive' \in [Files -> OnDrive] /\ log' \in Seq(Event)
         /\ Len(log') = Len(log) + 1 /\ Len(log') <= MaxEvents /\ Len(log) \in Nat
         /\ \A i \in 1 .. Len(log) : log'[i] = log[i]
         /\ log'[Len(log) + 1].kind = kind /\ log'[Len(log) + 1].file = f
         /\ log'[Len(log) + 1].mine = mine
         /\ drive'[f].in = in /\ drive'[f].rev = Len(log) + 2 /\ Last(f)' = Len(log) + 1
         /\ \A g \in Files \ {f} : drive'[g] = drive[g]
         /\ ~Deleted(f)
<1>1. /\ Len(log) < MaxEvents /\ ~Deleted(f)
      /\ drive' = [drive EXCEPT ![f] = [in |-> in, rev |-> NextRev]]
      /\ log' = Append(log, [kind |-> kind, file |-> f, mine |-> mine])
  BY DEF Change
<1>2. log \in Seq(Event) /\ Len(log) \in Nat /\ drive \in [Files -> OnDrive]
  BY DEF TypeOK
<1>3. [kind |-> kind, file |-> f, mine |-> mine] \in Event
  BY DEF Event
<1>4. [in |-> in, rev |-> NextRev] \in OnDrive /\ NextRev = Len(log) + 2
  <2>1. NextRev = Len(log) + 2 /\ NextRev \in Revs \ {0}
    BY <1>1, <1>2, Constants DEF NextRev
  <2> QED
    BY <2>1 DEF OnDrive
<1>5. /\ log' \in Seq(Event) /\ Len(log') = Len(log) + 1
      /\ \A i \in 1 .. Len(log) : log'[i] = log[i]
      /\ log'[Len(log) + 1] = [kind |-> kind, file |-> f, mine |-> mine]
  BY <1>1, <1>2, <1>3
<1>6. drive' \in [Files -> OnDrive] /\ drive'[f] = [in |-> in, rev |-> NextRev]
      /\ \A g \in Files \ {f} : drive'[g] = drive[g]
  BY <1>1, <1>2, <1>4
<1>7. drive'[f].in = in /\ drive'[f].rev = Len(log) + 2 /\ Last(f)' = Len(log) + 1
  BY <1>2, <1>4, <1>6 DEF Last
<1>8. /\ log'[Len(log) + 1].kind = kind /\ log'[Len(log) + 1].file = f
      /\ log'[Len(log) + 1].mine = mine
  BY <1>5
<1>9. Len(log') <= MaxEvents
  BY <1>1, <1>2, <1>5, Constants
<1> QED
  BY <1>1, <1>2, <1>5, <1>6, <1>7, <1>8, <1>9

(* A revision of ours lands where the file is.                             *)
LEMMA SealChanges ==
  ASSUME TypeOK, NEW f \in Files, Seal(f)
  PROVE  \E in \in BOOLEAN, kind \in {"updated", "moved"} :
            /\ (in <=> kind = "updated") /\ in = drive[f].in
            /\ kind = "moved" => Elsewhere(f)
            /\ Change(f, in, kind, TRUE)
<1>1. drive[f].in \in BOOLEAN
  BY LastType
<1>2. CASE drive[f].in
  <2>1. drive[f].in = TRUE /\ Change(f, TRUE, "updated", TRUE)
    BY <1>1, <1>2 DEF Seal
  <2> QED
    BY <2>1
<1>3. CASE ~drive[f].in
  <2>1. drive[f].in = FALSE /\ Change(f, FALSE, "moved", TRUE) /\ Elsewhere(f)
    BY <1>1, <1>3 DEF Seal, Exists
  <2> QED
    BY <2>1
<1> QED
  BY <1>2, <1>3

LEMMA Lost ==
  ASSUME TypeOK, ContinuityLost
  PROVE  /\ log' \in Seq(Event) /\ Len(log) \in Nat
         /\ Len(log') = Len(log) + 1 /\ Len(log') <= MaxEvents
         /\ \A i \in 1 .. Len(log) : log'[i] = log[i]
         /\ log'[Len(log) + 1].kind = "lost"
<1>1. [kind |-> "lost"] \in Event
  BY DEF Event
<1>2. Len(log) < MaxEvents /\ log' = Append(log, [kind |-> "lost"]) /\ log \in Seq(Event)
  BY DEF TypeOK, ContinuityLost
<1> QED
  BY <1>1, <1>2, Constants

(***************************************************************************)
(* The polled batch                                                        *)
(***************************************************************************)
(* The batch s spans the events after the cursor up to k, in order but for *)
(* one place.                                                              *)
Spans(s, k) ==
  /\ s \in Seq(1 .. Len(log))
  /\ \A i \in 1 .. Len(s) : /\ cursor + 1 <= s[i] /\ s[i] <= k
                            /\ \A j \in i .. Len(s) : s[i] <= s[j] + 1 /\ (i + 1 < j => s[i] < s[j])
  /\ \A id \in cursor + 1 .. k : \E i \in 1 .. Len(s) : s[i] = id

LEMMA Batches ==
  ASSUME TypeOK, NEW k \in cursor + 1 .. Len(log)
  PROVE  /\ Spans(InOrder(k), k)
         /\ \A i \in 1 .. k - cursor : Spans(Twice(k, i), k)
         /\ \A i \in 1 .. k - cursor - 1 : Spans(Swapped(k, i), k)
<1>1. cursor \in Nat /\ Len(log) \in Nat /\ k \in Nat /\ cursor + 1 <= k /\ k <= Len(log)
  BY DEF TypeOK
<1> DEFINE n == k - cursor
<1>2. n \in Nat /\ n >= 1 /\ k = cursor + n /\ cursor + n <= Len(log)
  BY <1>1
<1> HIDE DEF n
<1>3. /\ InOrder(k) \in Seq(1 .. Len(log)) /\ Len(InOrder(k)) = n
      /\ \A i \in 1 .. n : InOrder(k)[i] = cursor + i
  <2>1. InOrder(k) = [i \in 1 .. n |-> cursor + i] /\ \A i \in 1 .. n : cursor + i \in 1 .. Len(log)
    BY <1>1, <1>2 DEF InOrder, n
  <2> QED
    BY <1>2, <2>1
<1>4. Spans(InOrder(k), k)
  <2> DEFINE s == InOrder(k)
  <2>1. ASSUME NEW id \in cursor + 1 .. k
        PROVE  \E i \in 1 .. n : s[i] = id
    <3>1. id - cursor \in 1 .. n /\ s[id - cursor] = id
      BY <1>1, <1>2, <1>3
    <3> QED
      BY <3>1
  <2>2. ASSUME NEW i \in 1 .. n
        PROVE  /\ cursor + 1 <= s[i] /\ s[i] <= k
               /\ \A j \in i .. n : s[i] <= s[j] + 1 /\ (i + 1 < j => s[i] < s[j])
    <3>1. \A j \in i .. n : j \in 1 .. n /\ i <= j
      BY <1>2
    <3> QED
      BY <1>1, <1>2, <1>3, <3>1
  <2> HIDE DEF s
  <2> QED
    BY <1>3, <2>1, <2>2 DEF Spans, s
<1>5. ASSUME NEW i \in 1 .. n
      PROVE  Spans(Twice(k, i), k)
  <2> DEFINE s == Twice(k, i)
  <2>1. /\ s = [j \in 1 .. n + 1 |-> IF j <= i THEN cursor + j ELSE cursor + j - 1]
        /\ \A j \in 1 .. n + 1 : (IF j <= i THEN cursor + j ELSE cursor + j - 1) \in 1 .. Len(log)
    BY <1>1, <1>2 DEF Twice, n
  <2>2. /\ s \in Seq(1 .. Len(log)) /\ Len(s) = n + 1
        /\ \A j \in 1 .. n + 1 : s[j] = IF j <= i THEN cursor + j ELSE cursor + j - 1
    BY <1>2, <2>1
  <2>3. ASSUME NEW id \in cursor + 1 .. k
        PROVE  \E j \in 1 .. n + 1 : s[j] = id
    <3>1. CASE id - cursor <= i
      <4>1. id - cursor \in 1 .. n + 1 /\ s[id - cursor] = id
        BY <1>1, <1>2, <2>2, <3>1
      <4> QED
        BY <4>1
    <3>2. CASE ~(id - cursor <= i)
      <4>1. id - cursor + 1 \in 1 .. n + 1 /\ s[id - cursor + 1] = id
        BY <1>1, <1>2, <2>2, <3>2
      <4> QED
        BY <4>1
    <3> QED
      BY <3>1, <3>2
  <2>4. ASSUME NEW j \in 1 .. n + 1
        PROVE  /\ cursor + 1 <= s[j] /\ s[j] <= k
               /\ \A l \in j .. n + 1 : s[j] <= s[l] + 1 /\ (j + 1 < l => s[j] < s[l])
    <3>1. /\ cursor + 1 <= s[j] /\ s[j] <= k
          /\ s[j] <= cursor + j /\ s[j] >= cursor + j - 1 /\ s[j] \in Int
      <4>1. s[j] = IF j <= i THEN cursor + j ELSE cursor + j - 1
        BY <2>2
      <4> HIDE DEF s
      <4> QED
        BY <1>1, <1>2, <4>1
    <3>2. ASSUME NEW l \in j .. n + 1
          PROVE  s[j] <= s[l] + 1 /\ (j + 1 < l => s[j] < s[l])
      <4>1. l \in 1 .. n + 1 /\ j <= l /\ l \in Int
        BY <1>2
      <4>2. s[l] >= cursor + l - 1 /\ s[l] \in Int
        BY <1>1, <1>2, <2>2, <4>1
      <4> HIDE DEF s
      <4> QED
        BY <1>1, <3>1, <4>1, <4>2
    <3> QED
      BY <3>1, <3>2
  <2> HIDE DEF s
  <2> QED
    BY <2>2, <2>3, <2>4 DEF Spans, s
<1>6. ASSUME NEW i \in 1 .. n - 1
      PROVE  Spans(Swapped(k, i), k)
  <2> DEFINE s == Swapped(k, i)
             val(j) == cursor + (CASE j = i -> i + 1 [] j = i + 1 -> i [] OTHER -> j)
  <2>1. s = [j \in 1 .. n |-> val(j)]
    BY DEF Swapped, n
  <2>2. ASSUME NEW j \in 1 .. n
        PROVE  /\ val(j) \in 1 .. Len(log) /\ val(j) \in Int /\ cursor + 1 <= val(j) /\ val(j) <= k
               /\ j = i => val(j) = cursor + i + 1
               /\ j = i + 1 => val(j) = cursor + i
               /\ j # i /\ j # i + 1 => val(j) = cursor + j
    BY <1>1, <1>2
  <2> HIDE DEF val
  <2> HIDE DEF s
  <2>3. s \in Seq(1 .. Len(log)) /\ Len(s) = n /\ \A j \in 1 .. n : s[j] = val(j)
    <3>1. \A j \in 1 .. n : val(j) \in 1 .. Len(log)
      BY <2>2
    <3> QED
      BY <1>2, <2>1, <3>1
  <2>4. ASSUME NEW id \in cursor + 1 .. k
        PROVE  \E j \in 1 .. n : s[j] = id
    <3>1. id - cursor \in 1 .. n /\ i \in 1 .. n /\ i + 1 \in 1 .. n /\ i # i + 1
      BY <1>1, <1>2
    <3>2. CASE id - cursor = i
      <4>1. val(i + 1) = id
        BY <1>1, <2>2, <3>1, <3>2
      <4> QED
        BY <2>3, <3>1, <4>1
    <3>3. CASE id - cursor = i + 1
      <4>1. val(i) = id
        BY <1>1, <2>2, <3>1, <3>3
      <4> QED
        BY <2>3, <3>1, <4>1
    <3>4. CASE id - cursor # i /\ id - cursor # i + 1
      <4>1. val(id - cursor) = id
        BY <1>1, <2>2, <3>1, <3>4
      <4> QED
        BY <2>3, <3>1, <4>1
    <3> QED
      BY <3>2, <3>3, <3>4
  <2>5. ASSUME NEW j \in 1 .. n, NEW l \in j .. n
        PROVE  s[j] <= s[l] + 1 /\ (j + 1 < l => s[j] < s[l])
    <3>1. l \in 1 .. n /\ j <= l
      BY <1>2
    <3>2. /\ val(j) <= cursor + j + 1 /\ (val(j) = cursor + j + 1 => j = i) /\ val(j) \in Int
          /\ val(l) >= cursor + l - 1 /\ (val(l) = cursor + l - 1 => l = i + 1) /\ val(l) \in Int
      BY <1>1, <2>2, <3>1
    <3>3. j = i /\ l = i => val(j) = val(l)
      OBVIOUS
    <3> QED
      BY <1>1, <1>2, <2>3, <3>1, <3>2, <3>3
  <2>6. \A j \in 1 .. n : cursor + 1 <= s[j] /\ s[j] <= k
    BY <2>2, <2>3
  <2> QED
    BY <2>3, <2>4, <2>5, <2>6 DEF Spans, s
<1> QED
  BY <1>4, <1>5, <1>6 DEF n

LEMMA Polled ==
  ASSUME TypeOK, Poll
  PROVE  \E k \in cursor + 1 .. Len(log) : Spans(batch', k)
<1> PICK k \in cursor + 1 .. Len(log) :
      \/ batch' = InOrder(k)
      \/ \E i \in 1 .. k - cursor : batch' = Twice(k, i)
      \/ \E i \in 1 .. k - cursor - 1 : batch' = Swapped(k, i)
  BY DEF Poll
<1> QED
  BY Batches

(***************************************************************************)
(* Types                                                                   *)
(***************************************************************************)
LEMMA Parts ==
  ASSUME TypeOK
  PROVE  /\ dirty.foreign \in BOOLEAN /\ dirty.ours \subseteq Files
         /\ listing.resident \in BOOLEAN /\ listing.files \subseteq Files
         /\ used.own \in 0 .. MaxOwn /\ used.fault \in 0 .. MaxFault
         /\ Shown \in [Files -> Revs]
         /\ lister # Idle => /\ lister \in Asked /\ lister.seen \in [Files -> Revs]
                             /\ lister.overtaken \in BOOLEAN
         /\ Overtaken \in Asked \cup {Idle} /\ (lister # Idle => Overtaken.overtaken)
         /\ (Overtaken = Idle <=> lister = Idle)
<1>1. dirty \in Dirty /\ listing \in Listings /\ used \in Used /\ lister \in Asked \cup {Idle}
  BY DEF TypeOK
<1>2. Shown \in [Files -> Revs]
  <2>1. \A f \in Files : drive[f].rev \in Revs
    BY LastType
  <2> QED
    BY <2>1, Constants DEF Shown
<1>3. ASSUME lister # Idle
      PROVE  /\ lister \in Asked /\ lister.seen \in [Files -> Revs] /\ lister.overtaken \in BOOLEAN
             /\ Overtaken \in Asked /\ Overtaken.overtaken /\ Overtaken # Idle
  BY <1>1, <1>3, Shapes DEF Asked, Overtaken
<1>4. lister = Idle => Overtaken = Idle
  BY DEF Overtaken
<1> QED
  BY <1>1, <1>2, <1>3, <1>4 DEF Dirty, Listings, Used

(* A fault is counted.                                                     *)
LEMMA FaultType ==
  ASSUME TypeOK, NEW kind, Fault(kind)
  PROVE  used' \in Used
<1>1. used \in Used /\ used.fault < MaxFault /\ used' = [used EXCEPT !.fault = @ + 1]
  BY DEF TypeOK, Fault
<1> QED
  BY <1>1, Constants DEF Used

LEMMA Gaps ==
  ASSUME TypeOK, NEW name \in GapNames, NEW c
  PROVE  Gap(name, c) \subseteq GapNames
BY DEF Gap

LEMMA LeftGaps ==
  ASSUME NEW e
  PROVE  LeftUndone(e) \subseteq GapNames
BY DEF LeftUndone, Gap, GapNames

(* What an applied event does to the tree, whatever becomes of the cursor. *)
LEMMA AppliedType ==
  ASSUME TypeOK, NEW e \in Event, ApplyEvent(e)
  PROVE  /\ dirty' \in Dirty /\ listing' \in Listings /\ listed' \in BOOLEAN
         /\ tree' \in [Files -> Revs] /\ rows' \in [Files -> Revs] /\ cache' \in [Files -> Revs]
         /\ echoes' \in [Files -> Nat] /\ lister' \in Asked \cup {Idle} /\ own' = own
<1>1. lister' = Overtaken /\ own' = own
  BY DEF ApplyEvent
<1>2. lister' \in Asked \cup {Idle}
  BY <1>1, Parts
<1>3. 0 \in Revs
  BY Constants
<1>4. /\ dirty \in Dirty /\ listing \in Listings /\ listed \in BOOLEAN
      /\ tree \in [Files -> Revs] /\ rows \in [Files -> Revs] /\ cache \in [Files -> Revs]
      /\ echoes \in [Files -> Nat]
  BY DEF TypeOK
<1>5. ASSUME NEW f \in Files
      PROVE  /\ Claimed(f) \in [Files -> Nat]
             /\ [cache EXCEPT ![f] = 0] \in [Files -> Revs] /\ Evicted(f) \in [Files -> Revs]
             /\ [tree EXCEPT ![f] = 0] \in [Files -> Revs]
             /\ [rows EXCEPT ![f] = 0] \in [Files -> Revs]
             /\ [listing EXCEPT !.files = @ \ {f}] \in Listings
             /\ [dirty EXCEPT !.ours = @ \cup {f}] \in Dirty
             /\ [dirty EXCEPT !.foreign = TRUE] \in Dirty
  <2>1. Claimed(f) \in [Files -> Nat]
    BY <1>4 DEF Claimed
  <2>2. [listing EXCEPT !.files = @ \ {f}] \in Listings
    BY <1>4 DEF Listings
  <2>3. [dirty EXCEPT !.ours = @ \cup {f}] \in Dirty /\ [dirty EXCEPT !.foreign = TRUE] \in Dirty
    BY <1>4 DEF Dirty
  <2> QED
    BY <1>3, <1>4, <2>1, <2>2, <2>3 DEF Evicted
<1>6. CASE ApplyUpdate(e)
  <2>1. e.file \in Files /\ e.kind \in {"updated", "moved"}
    BY <1>6, Events DEF ApplyUpdate
  <2>2. dirty' \in Dirty
    BY <1>4, <1>5, <1>6, <2>1 DEF ApplyUpdate
  <2>3. UNCHANGED <<tree, rows, listing, listed>> /\ echoes' = Claimed(e.file)
        /\ (cache' = cache \/ cache' = Evicted(e.file))
    BY <1>6 DEF ApplyUpdate, KeepListing
  <2> QED
    BY <1>1, <1>2, <1>4, <1>5, <2>1, <2>2, <2>3
<1>7. CASE ApplyTrash(e)
  <2>1. e.file \in Files
    BY <1>7, Events DEF ApplyTrash
  <2> QED
    BY <1>1, <1>2, <1>4, <1>5, <1>7, <2>1 DEF ApplyTrash, Forget
<1>8. CASE ApplyDelete(e)
  <2>1. e.file \in Files
    BY <1>8, Events DEF ApplyDelete
  <2> QED
    BY <1>1, <1>2, <1>4, <1>5, <1>8, <2>1 DEF ApplyDelete, Forget
<1>9. CASE ApplyLost(e)
  BY <1>1, <1>2, <1>4, <1>9, Shapes DEF ApplyLost, Drop, KeepListing
<1> QED
  BY <1>6, <1>7, <1>8, <1>9 DEF ApplyEvent

LEMMA DriveType == TypeOK /\ (OtherDevice \/ ContinuityLost) => TypeOK'
<1>1. ASSUME TypeOK, OtherDevice
      PROVE  TypeOK'
  <2>1. PICK f \in Files, in \in BOOLEAN, kind \in {"updated", "moved", "trashed", "deleted"} :
             Change(f, in, kind, FALSE) /\ foreign' = foreign \cup {f}
    BY <1>1 DEF OtherDevice
  <2>2. /\ drive' \in [Files -> OnDrive] /\ log' \in Seq(Event)
        /\ Len(log') = Len(log) + 1 /\ Len(log') <= MaxEvents /\ Len(log) \in Nat
    BY <1>1, <2>1, Changed
  <2>3. UNCHANGED <<feedVars, treeVars, ownVars, used, gaps>>
    BY <1>1 DEF OtherDevice
  <2>4. batch \in Seq(1 .. Len(log'))
    BY <1>1, <2>2, Widen DEF TypeOK
  <2>5. foreign' \subseteq Files
    BY <1>1, <2>1 DEF TypeOK
  <2> QED
    BY <1>1, <2>2, <2>3, <2>4, <2>5 DEF TypeOK, feedVars, treeVars, ownVars
<1>2. ASSUME TypeOK, ContinuityLost
      PROVE  TypeOK'
  <2>1. /\ log' \in Seq(Event) /\ Len(log) \in Nat
        /\ Len(log') = Len(log) + 1 /\ Len(log') <= MaxEvents
    BY <1>2, Lost
  <2>2. UNCHANGED <<drive, feedVars, treeVars, ownVars, ghosts>>
    BY <1>2 DEF ContinuityLost
  <2>3. batch \in Seq(1 .. Len(log'))
    BY <1>2, <2>1, Widen DEF TypeOK
  <2> QED
    BY <1>2, <2>1, <2>2, <2>3 DEF TypeOK, feedVars, treeVars, ownVars, ghosts
<1> QED
  BY <1>1, <1>2

LEMMA FeedType == TypeOK /\ EventTask => TypeOK'
<1> SUFFICES ASSUME TypeOK
             PROVE  EventTask => TypeOK'
  OBVIOUS
<1> USE DEF driveVars, treeVars, ownVars, ghosts
<1>1. ASSUME Poll
      PROVE  TypeOK'
  <2>1. batch' \in Seq(1 .. Len(log))
    BY <1>1, Polled DEF Spans
  <2>2. used' \in Used
    <3>1. used' = used \/ Fault("duplicate") \/ Fault("swap")
      BY <1>1 DEF Poll
    <3> QED
      BY <3>1, FaultType DEF TypeOK
  <2> QED
    BY <1>1, <2>1, <2>2, Shapes DEF TypeOK, Poll
<1>2. ASSUME SkipRepeat
      PROVE  TypeOK'
  <2>1. batch # <<>>
    BY <1>2 DEF SkipRepeat
  <2> QED
    BY <1>2, <2>1, Front DEF TypeOK, SkipRepeat
<1>3. ASSUME batch # <<>>
      PROVE  Recorded(Head(batch)) \subseteq 1 .. Len(log) /\ log[Head(batch)] \in Event
  BY <1>3, Front DEF TypeOK, Recorded
<1>4. ASSUME Apply
      PROVE  TypeOK'
  <2> DEFINE id == Head(batch)
  <2>1. batch # <<>> /\ ApplyEvent(log[id]) /\ recent' = Recorded(id)
    BY <1>4 DEF Apply
  <2>2. gaps' \subseteq GapNames
    BY <1>4, LeftGaps DEF Apply, TypeOK
  <2>3. saved' = id /\ cursor' = id /\ batch' = Tail(batch)
    BY <1>4 DEF Apply, Acknowledge
  <2>4. id \in 0 .. Len(log)
    BY <2>1, Front
  <2> HIDE DEF id
  <2> QED
    BY <1>3, <1>4, <2>1, <2>2, <2>3, <2>4, Front, AppliedType DEF TypeOK, Apply, id
<1>5. ASSUME AckFails
      PROVE  TypeOK'
  <2> DEFINE id == Head(batch)
  <2>1. batch # <<>> /\ ApplyEvent(log[id]) /\ recent' = Recorded(id) /\ batch' = <<>>
        /\ Fault("ack")
    BY <1>5 DEF AckFails
  <2>2. gaps' \subseteq GapNames
    BY <1>5, Gaps, LeftGaps DEF AckFails, TypeOK, GapNames
  <2>3. used' \in Used
    BY <2>1, FaultType
  <2>4. UNCHANGED <<driveVars, cursor, saved, phase, foreign>>
    BY <1>5 DEF AckFails
  <2> QED
    BY <1>3, <2>1, <2>2, <2>3, <2>4, AppliedType DEF TypeOK
<1>6. ASSUME SdkFails
      PROVE  TypeOK'
  <2>1. batch # <<>> /\ recent' = Recorded(Head(batch)) /\ batch' = <<>> /\ Fault("sdk")
    BY <1>6 DEF SdkFails
  <2>2. gaps' \subseteq GapNames
    BY <1>6, Gaps DEF SdkFails, TypeOK, GapNames
  <2>3. used' \in Used /\ lister' \in Asked \cup {Idle}
    BY <1>6, <2>1, FaultType, Parts DEF SdkFails
  <2> QED
    BY <1>3, <1>6, <2>1, <2>2, <2>3 DEF TypeOK, SdkFails
<1>7. ASSUME Flush
      PROVE  TypeOK'
  <2>1. lister' \in Asked \cup {Idle}
    BY <1>7, Parts DEF Flush, TypeOK
  <2>2. listing' \in Listings /\ listed' \in BOOLEAN
    BY <1>7, Shapes DEF Flush, Drop, KeepListing, TypeOK
  <2> QED
    BY <1>7, <2>1, <2>2, Shapes DEF TypeOK, Flush
<1> QED
  BY <1>1, <1>2, <1>4, <1>5, <1>6, <1>7 DEF EventTask

LEMMA ListingType == TypeOK /\ Listing => TypeOK'
<1> SUFFICES ASSUME TypeOK
             PROVE  Listing => TypeOK'
  OBVIOUS
<1> USE DEF driveVars, feedVars, ownVars, ghosts
<1>1. ASSUME ListAsk
      PROVE  TypeOK'
  <2>1. lister' \in Asked
    BY <1>1, Parts DEF ListAsk, Asked
  <2> QED
    BY <1>1, <2>1 DEF TypeOK, ListAsk
<1>2. ASSUME ListPublish
      PROVE  TypeOK'
  <2> DEFINE seen == lister.seen
  <2>1. seen \in [Files -> Revs]
    BY <1>2, Parts DEF ListPublish
  <2>2. Interned(seen, tree) \in [Files -> Revs] /\ Interned(seen, rows) \in [Files -> Revs]
    BY <2>1 DEF Interned, TypeOK
  <2>3. listing' \in Listings
    BY <1>2 DEF ListPublish, Listings
  <2>4. gaps' \subseteq GapNames
    <3>1. gaps' \subseteq gaps \cup {"overtaken"}
      BY <1>2 DEF ListPublish
    <3> QED
      BY <3>1 DEF TypeOK, GapNames
  <2> QED
    BY <1>2, <2>2, <2>3, <2>4 DEF TypeOK, ListPublish
<1> QED
  BY <1>1, <1>2 DEF Listing

LEMMA DrainType == TypeOK /\ Drain => TypeOK'
<1> SUFFICES ASSUME TypeOK, NEW f \in Files,
                    Queue(f) \/ Seal(f) \/ Divert(f) \/ ReadBack(f) \/ Place(f) \/ Expire(f)
             PROVE  TypeOK'
  BY DEF Drain
<1> USE DEF driveVars, feedVars, treeVars, ownVars, ghosts
<1>0. own[f] \in OwnStates /\ drive[f].rev \in Revs \ {0} /\ own \in [Files -> OwnStates]
  BY LastType DEF TypeOK
<1>1. CASE Queue(f)
  <2>1. own' \in [Files -> OwnStates]
    BY <1>0, <1>1, Shapes DEF Queue
  <2>2. used' \in Used
    <3>1. used \in Used /\ used.own < MaxOwn /\ used' = [used EXCEPT !.own = @ + 1]
      BY <1>1 DEF TypeOK, Queue
    <3> QED
      BY <3>1, Constants DEF Used
  <2> QED
    BY <1>1, <2>1, <2>2 DEF TypeOK, Queue
<1>2. CASE Seal(f)
  <2>1. /\ drive' \in [Files -> OnDrive] /\ log' \in Seq(Event)
        /\ Len(log') = Len(log) + 1 /\ Len(log') <= MaxEvents /\ Len(log) \in Nat
    BY <1>2, Changed, SealChanges
  <2>2. own' \in [Files -> OwnStates]
    <3>1. NextRev \in Revs \ {0}
      BY <2>1, Constants DEF NextRev
    <3> QED
      BY <1>0, <1>2, <3>1, Shapes DEF Seal
  <2>3. batch \in Seq(1 .. Len(log'))
    BY <2>1, Widen DEF TypeOK
  <2>4. UNCHANGED <<feedVars, treeVars, cache, echoes, ghosts>>
    BY <1>2 DEF Seal
  <2> QED
    BY <2>1, <2>2, <2>3, <2>4 DEF TypeOK
<1>3. CASE Divert(f)
  <2>1. own' \in [Files -> OwnStates] /\ cache' \in [Files -> Revs] /\ foreign' \subseteq Files
    <3>1. own' = [own EXCEPT ![f] = Idle] /\ cache' = [cache EXCEPT ![f] = 0]
          /\ foreign' = foreign \cup {f}
      BY <1>3 DEF Divert
    <3>2. Idle \in OwnStates /\ 0 \in Revs
      BY Shapes, Constants
    <3> QED
      BY <1>0, <3>1, <3>2 DEF TypeOK
  <2>2. listing' \in Listings /\ listed' \in BOOLEAN /\ lister' \in Asked \cup {Idle}
    BY <1>3, Shapes, Parts DEF Divert, Drop
  <2> QED
    BY <1>3, <2>1, <2>2 DEF TypeOK, Divert
<1>4. CASE ReadBack(f)
  <2>1. own' \in [Files -> OwnStates]
    <3>1. drive[f].in \in BOOLEAN
      BY LastType
    <3>2. [at |-> "read", rev |-> drive[f].rev, here |-> drive[f].in] \in OwnStates /\ Idle \in OwnStates
      BY <1>0, <3>1, Shapes
    <3>3. \/ own' = [own EXCEPT ![f] = [at |-> "read", rev |-> drive[f].rev, here |-> drive[f].in]]
          \/ own' = [own EXCEPT ![f] = Idle]
      BY <1>4 DEF ReadBack
    <3> QED
      BY <1>0, <3>2, <3>3
  <2>2. cache' \in [Files -> Revs]
    BY <1>0, <1>4 DEF ReadBack, TypeOK
  <2>3. echoes' \in [Files -> Nat]
    BY <1>4 DEF ReadBack, TypeOK
  <2> QED
    BY <1>4, <2>1, <2>2, <2>3 DEF TypeOK, ReadBack
<1>5. CASE Place(f)
  <2>1. own' \in [Files -> OwnStates] /\ lister' \in Asked \cup {Idle}
    BY <1>0, <1>5, Shapes, Parts DEF Place
  <2>2. own[f].rev \in Revs
    BY <1>0, <1>5, Shapes DEF Place
  <2>3. tree' \in [Files -> Revs] /\ rows' \in [Files -> Revs]
    <3>1. tree \in [Files -> Revs] /\ rows \in [Files -> Revs]
      BY DEF TypeOK
    <3>0. 0 \in Revs
      BY Constants
    <3>2. tree' = tree \/ tree' = [tree EXCEPT ![f] = own[f].rev]
      BY <1>5 DEF Place
    <3>3. \/ rows' = rows \/ rows' = [rows EXCEPT ![f] = own[f].rev] \/ rows' = [rows EXCEPT ![f] = 0]
      BY <1>5 DEF Place
    <3> QED
      BY <2>2, <3>0, <3>1, <3>2, <3>3
  <2> QED
    BY <1>5, <2>1, <2>3 DEF TypeOK, Place
<1>6. CASE Expire(f)
  <2>1. used' \in Used
    BY <1>6, FaultType DEF Expire
  <2> QED
    BY <1>6, <2>1 DEF TypeOK, Expire
<1> QED
  BY <1>1, <1>2, <1>3, <1>4, <1>5, <1>6

LEMMA CrashType == TypeOK /\ Orderly /\ Crash => TypeOK'
<1> SUFFICES ASSUME TypeOK, Orderly, Crash
             PROVE  TypeOK'
  OBVIOUS
<1>1. used' \in Used
  BY FaultType DEF Crash
<1>2. listing' \in Listings
  BY DEF Crash, Hydrated, Listings, TypeOK
<1>3. own' \in [Files -> OwnStates]
  BY Shapes DEF Crash
<1>4. gaps' \subseteq GapNames
  BY Gaps DEF Crash, TypeOK, GapNames
<1>5. foreign' \subseteq Files
  <2>1. ASSUME NEW i \in recent
        PROVE  log[i].file \in Files
    <3>1. log[i] \in Event /\ log[i].kind \in NodeUpdates
      BY DEF TypeOK, Orderly
    <3> QED
      BY <3>1, Events DEF NodeUpdates
  <2> QED
    BY <2>1 DEF Crash, TypeOK
<1>6. echoes' \in [Files -> Nat] /\ batch' = <<>> /\ batch' \in Seq(1 .. Len(log))
  BY DEF Crash
<1> QED
  BY <1>1, <1>2, <1>3, <1>4, <1>5, <1>6, Shapes DEF TypeOK, Crash, driveVars

(***************************************************************************)
(* The log, and what memory and database have of the folder                *)
(***************************************************************************)
(* Drive changes by a logged event or not at all.                          *)
LEMMA DriveSteps ==
  ASSUME TypeOK, [Next]_vars
  PROVE  \/ drive' = drive /\ log' = log
         \/ ContinuityLost
         \/ \E f \in Files, in \in BOOLEAN, kind \in {"updated", "moved", "trashed", "deleted"},
               mine \in BOOLEAN :
               /\ (in <=> kind = "updated") /\ (mine => kind \in {"updated", "moved"})
               /\ Change(f, in, kind, mine)
<1>1. CASE OtherDevice
  BY <1>1 DEF OtherDevice
<1>2. CASE ContinuityLost
  BY <1>2
<1>3. CASE EventTask
  BY <1>3 DEF EventTask, Poll, SkipRepeat, Apply, AckFails, SdkFails, Flush, driveVars
<1>4. CASE Listing
  BY <1>4 DEF Listing, ListAsk, ListPublish, driveVars
<1>5. ASSUME NEW f \in Files,
             Queue(f) \/ Divert(f) \/ ReadBack(f) \/ Place(f) \/ Expire(f)
      PROVE  drive' = drive /\ log' = log
  BY <1>5 DEF Queue, Divert, ReadBack, Place, Expire, driveVars
<1>6. ASSUME NEW f \in Files, Seal(f)
      PROVE  \E in \in BOOLEAN, kind \in {"updated", "moved"} :
                (in <=> kind = "updated") /\ Change(f, in, kind, TRUE)
  BY <1>6, SealChanges
<1>7. CASE Crash
  BY <1>7 DEF Crash, driveVars
<1>8. CASE UNCHANGED vars
  BY <1>8 DEF vars, driveVars
<1> QED
  BY <1>1, <1>2, <1>3, <1>4, <1>5, <1>6, <1>7, <1>8 DEF Next, Drain

LEMMA LoggedNext ==
  ASSUME TypeOK, Logged, [Next]_vars
  PROVE  Logged'
<1>1. CASE drive' = drive /\ log' = log
  BY <1>1 DEF Logged, Last
<1>2. CASE ContinuityLost
  <2>1. /\ Len(log) \in Nat /\ Len(log') = Len(log) + 1
        /\ \A i \in 1 .. Len(log) : log'[i] = log[i]
        /\ log'[Len(log) + 1].kind = "lost" /\ drive' = drive
    BY <1>2, Lost DEF ContinuityLost
  <2>2. ASSUME NEW i \in 1 .. Len(log'), log'[i].kind # "lost"
        PROVE  i \in 1 .. Len(log) /\ log'[i] = log[i]
    BY <2>1, <2>2
  <2>3. ASSUME NEW f \in Files, Last(f) # 0
        PROVE  log'[Last(f)] = log[Last(f)]
    <3>1. Last(f) \in 1 .. Len(log)
      BY <2>1, <2>3 DEF Logged
    <3> QED
      BY <2>1, <3>1
  <2>4. \A f \in Files : Last(f) \in 0 .. Len(log')
    BY <2>1 DEF Logged
  <2> QED
    BY <2>1, <2>2, <2>3, <2>4 DEF Logged, Last
<1>3. ASSUME NEW f \in Files, NEW in \in BOOLEAN, NEW kind \in {"updated", "moved", "trashed", "deleted"},
             NEW mine \in BOOLEAN, in <=> kind = "updated", mine => kind \in {"updated", "moved"},
             Change(f, in, kind, mine)
      PROVE  Logged'
  <2>1. /\ Len(log') = Len(log) + 1 /\ Len(log) \in Nat
        /\ \A i \in 1 .. Len(log) : log'[i] = log[i]
        /\ log'[Len(log) + 1].kind = kind /\ log'[Len(log) + 1].file = f
        /\ log'[Len(log) + 1].mine = mine
        /\ drive'[f].in = in /\ Last(f)' = Len(log) + 1
        /\ \A g \in Files \ {f} : drive'[g] = drive[g]
        /\ ~Deleted(f)
    BY <1>3, Changed
  <2>2. ASSUME NEW g \in Files \ {f}
        PROVE  Last(g)' = Last(g) /\ drive'[g] = drive[g]
    BY <2>1 DEF Last
  <2>3. ASSUME NEW i \in 1 .. Len(log'), log'[i].kind # "lost"
        PROVE  /\ i <= drive'[log'[i].file].rev - 1
               /\ log'[i].kind = "deleted" => ~drive'[log'[i].file].in
               /\ log'[i].mine => log'[i].kind \in {"updated", "moved"}
    <3>1. CASE i = Len(log) + 1
      <4>1. log'[i].file = f /\ log'[i].kind = kind /\ log'[i].mine = mine
        BY <2>1, <3>1
      <4>2. i <= drive'[f].rev - 1
        BY <2>1, <3>1 DEF Last
      <4> QED
        BY <1>3, <2>1, <4>1, <4>2
    <3>2. CASE i \in 1 .. Len(log)
      <4>1. log'[i] = log[i] /\ log[i] \in Event
        BY <2>1, <3>2 DEF TypeOK
      <4>2. log[i].file \in Files
        BY <2>3, <4>1, Events
      <4>3. /\ i <= Last(log[i].file) /\ (log[i].kind = "deleted" => ~drive[log[i].file].in)
            /\ log[i].mine => log[i].kind \in {"updated", "moved"}
        BY <2>3, <3>2, <4>1 DEF Logged
      <4>4. CASE log[i].file = f
        <5>1. log[i].kind # "deleted"
          BY <2>1, <3>2, <4>4 DEF Deleted
        <5>2. i <= drive'[f].rev - 1
          BY <2>1, <3>2 DEF Last
        <5> QED
          BY <4>1, <4>3, <4>4, <5>1, <5>2
      <4>5. CASE log[i].file # f
        <5>1. drive'[log[i].file] = drive[log[i].file]
          BY <2>1, <4>2, <4>5
        <5> QED
          BY <4>1, <4>3, <5>1 DEF Last
      <4> QED
        BY <4>4, <4>5
    <3> QED
      BY <2>1, <3>1, <3>2
  <2>4. ASSUME NEW g \in Files
        PROVE  /\ Last(g)' \in 0 .. Len(log')
               /\ Last(g)' # 0 => /\ log'[Last(g)'].kind # "lost" /\ log'[Last(g)'].file = g
                                  /\ drive'[g].in <=> log'[Last(g)'].kind = "updated"
    <3>1. CASE g = f
      BY <1>3, <2>1, <3>1
    <3>2. CASE g # f
      <4>1. Last(g)' = Last(g) /\ drive'[g] = drive[g]
        BY <2>2, <3>2
      <4>2. Last(g) \in 0 .. Len(log)
        BY DEF Logged
      <4>3. Last(g) # 0 => log'[Last(g)] = log[Last(g)]
        BY <2>1, <4>2
      <4> QED
        BY <2>1, <4>1, <4>2, <4>3 DEF Logged
    <3> QED
      BY <3>1, <3>2
  <2> QED
    BY <2>3, <2>4 DEF Logged, Last
<1> QED
  BY <1>1, <1>2, <1>3, DriveSteps

(* Memory and database lose and gain entries together.                     *)
LEMMA ForgetMirrored ==
  ASSUME TypeOK, Mirrored, NEW f \in Files, Forget(f)
  PROVE  Mirrored'
<1>1. /\ listing \in Listings /\ rows \in [Files -> Revs] /\ tree \in [Files -> Revs]
      /\ listed = listing.resident /\ \A g \in Files : rows[g] # 0 => rows[g] = tree[g]
      /\ \A g \in listing.files : listing.resident /\ tree[g] # 0
  BY DEF TypeOK, Mirrored
<1>2. /\ listing'.resident = listing.resident /\ listing'.files = listing.files \ {f}
      /\ rows' = [rows EXCEPT ![f] = 0] /\ tree' = [tree EXCEPT ![f] = 0] /\ listed' = listed
  BY <1>1 DEF Forget, Listings
<1>3. listing.files \subseteq Files
  BY Parts
<1> QED
  BY <1>1, <1>2, <1>3 DEF Mirrored

LEMMA DropMirrored ==
  ASSUME Mirrored, Drop, rows' = rows, tree' = tree
  PROVE  Mirrored'
BY DEF Drop, NotListed, Mirrored

LEMMA AppliedMirrored ==
  ASSUME TypeOK, Mirrored, NEW e \in Event, ApplyEvent(e)
  PROVE  Mirrored'
<1>1. CASE ApplyUpdate(e)
  BY <1>1 DEF ApplyUpdate, KeepListing, Mirrored
<1>2. CASE ApplyTrash(e)
  BY <1>2, ForgetMirrored, Events DEF ApplyTrash
<1>3. CASE ApplyDelete(e)
  BY <1>3, ForgetMirrored, Events DEF ApplyDelete
<1>4. CASE ApplyLost(e)
  <2>1. CASE listing.resident
    BY <1>4, <2>1, DropMirrored DEF ApplyLost
  <2>2. CASE ~listing.resident
    BY <1>4, <2>2 DEF ApplyLost, KeepListing, Mirrored
  <2> QED
    BY <2>1, <2>2
<1> QED
  BY <1>1, <1>2, <1>3, <1>4 DEF ApplyEvent

LEMMA MirroredNext ==
  ASSUME TypeOK, Mirrored, [Next]_vars
  PROVE  Mirrored'
<1>1. CASE UNCHANGED <<listing, tree, rows, listed>>
  BY <1>1 DEF Mirrored
<1>2. CASE OtherDevice \/ ContinuityLost \/ UNCHANGED vars
  BY <1>1, <1>2 DEF OtherDevice, ContinuityLost, vars, treeVars
<1>3. CASE Poll \/ SkipRepeat \/ SdkFails
  BY <1>1, <1>3 DEF Poll, SkipRepeat, SdkFails, treeVars
<1>4. CASE Apply \/ AckFails
  <2>1. batch # <<>> /\ ApplyEvent(log[Head(batch)])
    BY <1>4 DEF Apply, AckFails
  <2> QED
    BY <2>1, Front, AppliedMirrored
<1>5. CASE Flush
  BY <1>1, <1>5, DropMirrored DEF Flush, KeepListing
<1>6. CASE ListAsk
  BY <1>1, <1>6 DEF ListAsk
<1>7. CASE ListPublish
  <2>1. /\ listing' = [resident |-> TRUE, files |-> {f \in Files : lister.seen[f] # 0}]
        /\ tree' = Interned(lister.seen, tree) /\ rows' = Interned(lister.seen, rows)
        /\ listed' = TRUE
    BY <1>7 DEF ListPublish
  <2>2. \A f \in Files : rows[f] # 0 => rows[f] = tree[f]
    BY DEF Mirrored
  <2>3. \A f \in Files : lister.seen[f] # 0 => tree'[f] # 0
    BY <2>1 DEF Interned
  <2>4. \A f \in Files : rows'[f] # 0 => rows'[f] = tree'[f]
    BY <2>1, <2>2 DEF Interned
  <2>5. listing'.resident = TRUE /\ listing'.files = {f \in Files : lister.seen[f] # 0}
    BY <2>1
  <2> QED
    BY <2>1, <2>3, <2>4, <2>5 DEF Mirrored
<1>8. ASSUME NEW f \in Files, Queue(f) \/ Seal(f) \/ ReadBack(f) \/ Expire(f)
      PROVE  Mirrored'
  BY <1>1, <1>8 DEF Queue, Seal, ReadBack, Expire, treeVars
<1>9. ASSUME NEW f \in Files, Divert(f)
      PROVE  Mirrored'
  BY <1>9, DropMirrored DEF Divert
<1>10. ASSUME NEW f \in Files, Place(f)
       PROVE  Mirrored'
  <2>1. CASE tree[f] = 0
    BY <1>1, <1>10, <2>1 DEF Place
  <2>2. CASE tree[f] # 0
    <3>1. own[f].rev # 0
      BY <1>10, Shapes DEF Place, TypeOK
    <3> QED
      <4>1. /\ tree' = [tree EXCEPT ![f] = own[f].rev]
            /\ rows' = [rows EXCEPT ![f] = IF own[f].here THEN own[f].rev ELSE 0]
            /\ listing' = listing /\ listed' = listed
        BY <1>10, <2>2 DEF Place
      <4>2. /\ rows \in [Files -> Revs] /\ tree \in [Files -> Revs] /\ listed = listing.resident
            /\ \A g \in Files : rows[g] # 0 => rows[g] = tree[g]
            /\ \A g \in listing.files : listing.resident /\ tree[g] # 0
        BY DEF TypeOK, Mirrored
      <4>3. \A g \in listing.files : tree'[g] # 0
        BY <3>1, <4>1, <4>2, Parts
      <4>4. \A g \in Files : rows'[g] # 0 => rows'[g] = tree'[g]
        BY <4>1, <4>2
      <4> QED
        BY <4>1, <4>2, <4>3, <4>4 DEF Mirrored
  <2> QED
    BY <2>1, <2>2
<1>11. CASE Crash
  <2>1. listing' = Hydrated /\ tree' = rows /\ rows' = rows /\ listed' = listed
    BY <1>11 DEF Crash
  <2> QED
    BY <2>1 DEF Hydrated, Mirrored
<1> QED
  BY <1>2, <1>3, <1>4, <1>5, <1>6, <1>7, <1>8, <1>9, <1>10, <1>11 DEF Next, EventTask, Listing, Drain

(***************************************************************************)
(* The batch and the cursors                                               *)
(***************************************************************************)
LEMMA BatchType ==
  ASSUME TypeOK
  PROVE  /\ Len(batch) \in Nat /\ Len(log) \in Nat /\ cursor \in Nat /\ saved \in Nat
         /\ cursor <= Len(log) /\ saved <= Len(log)
         /\ \A i \in 1 .. Len(batch) : /\ batch[i] \in Int /\ 1 <= batch[i]
                                       /\ batch[i] <= Len(log) /\ batch[i] \in 1 .. Len(log)
BY DEF TypeOK

LEMMA AdvanceOrderly ==
  ASSUME TypeOK, Orderly, batch # <<>>, batch' = Tail(batch), cursor' = Head(batch),
         saved' = saved \/ saved' = Head(batch), phase' = phase, phase = "applying", log' = log,
         recent' = recent \/ recent' = Recorded(Head(batch))
  PROVE  Orderly'
<1> DEFINE h == Head(batch)
<1>1. /\ Len(batch) \in Nat /\ Len(batch) >= 1 /\ h = batch[1] /\ 1 \in 1 .. Len(batch)
      /\ Len(batch') = Len(batch) - 1
      /\ \A i \in 1 .. Len(batch) - 1 : batch'[i] = batch[i + 1]
  BY Front
<1>2. \A i \in 1 .. Len(batch) :
         /\ saved <= batch[i] + 1 /\ h <= batch[i] + 1 /\ (2 < i => h < batch[i])
         /\ \A j \in i .. Len(batch) :
               batch[i] <= batch[j] + 1 /\ (i + 1 < j => batch[i] < batch[j])
  <2>1. \A i \in 1 .. Len(batch) : batch[1] <= batch[i] + 1 /\ (1 + 1 < i => batch[1] < batch[i])
    BY <1>1 DEF Orderly
  <2> QED
    BY <1>1, <2>1 DEF Orderly
<1>3. h \in Int /\ saved \in Int /\ \A i \in 1 .. Len(batch) : batch[i] \in Int
  BY <1>1, BatchType
<1> HIDE DEF h
<1>4. saved' <= cursor' + 1
  <2>1. saved <= h + 1
    BY <1>1, <1>2
  <2> QED
    BY <1>3, <2>1 DEF h
<1>5. ASSUME NEW i \in 1 .. Len(batch')
      PROVE  /\ saved' <= batch'[i] + 1 /\ cursor' <= batch'[i] + 1
             /\ i > 1 => cursor' < batch'[i]
             /\ \A j \in i .. Len(batch') :
                   batch'[i] <= batch'[j] + 1 /\ (i + 1 < j => batch'[i] < batch'[j])
  <2>1. i + 1 \in 1 .. Len(batch) /\ batch'[i] = batch[i + 1] /\ (i > 1 => 2 < i + 1)
    BY <1>1
  <2>2. /\ saved' <= batch'[i] + 1 /\ cursor' <= batch'[i] + 1
        /\ i > 1 => cursor' < batch'[i]
    BY <1>2, <2>1 DEF h
  <2>3. ASSUME NEW j \in i .. Len(batch')
        PROVE  batch'[i] <= batch'[j] + 1 /\ (i + 1 < j => batch'[i] < batch'[j])
    <3>1. j + 1 \in i + 1 .. Len(batch) /\ batch'[j] = batch[j + 1]
      BY <1>1
    <3> QED
      BY <1>2, <2>1, <3>1
  <2> QED
    BY <2>2, <2>3
<1>6. \A i \in recent' : log'[i].kind \in NodeUpdates
  BY DEF Recorded, Orderly
<1> QED
  BY <1>4, <1>5, <1>6 DEF Orderly

LEMMA OrderlyNext ==
  ASSUME TypeOK, Orderly, [Next]_vars
  PROVE  Orderly'
<1>1. CASE UNCHANGED <<log, phase, batch, dirty, recent, saved, cursor>>
  BY <1>1 DEF Orderly
<1>2. ASSUME UNCHANGED <<phase, batch, dirty, recent, saved, cursor>>,
             \A i \in 1 .. Len(log) : log'[i] = log[i]
      PROVE  Orderly'
  BY <1>2 DEF Orderly, TypeOK
<1>3. CASE OtherDevice
  <2>1. PICK f \in Files, in \in BOOLEAN, kind \in {"updated", "moved", "trashed", "deleted"} :
             Change(f, in, kind, FALSE)
    BY <1>3 DEF OtherDevice
  <2> QED
    BY <1>2, <1>3, <2>1, Changed DEF OtherDevice, feedVars
<1>4. CASE ContinuityLost
  BY <1>2, <1>4, Lost DEF ContinuityLost, feedVars
<1>5. CASE Poll
  <2>1. PICK k \in cursor + 1 .. Len(log) : Spans(batch', k)
    BY <1>5, Polled
  <2>2. UNCHANGED <<log, recent, saved, cursor>> /\ phase' = "applying"
    BY <1>5 DEF Poll, driveVars
  <2>3. ASSUME NEW i \in 1 .. Len(batch')
        PROVE  /\ saved <= batch'[i] + 1 /\ cursor <= batch'[i] + 1 /\ cursor < batch'[i]
               /\ \A j \in i .. Len(batch') :
                     batch'[i] <= batch'[j] + 1 /\ (i + 1 < j => batch'[i] < batch'[j])
    <3>1. /\ cursor + 1 <= batch'[i] /\ batch'[i] \in 1 .. Len(log)
          /\ \A j \in i .. Len(batch') :
                batch'[i] <= batch'[j] + 1 /\ (i + 1 < j => batch'[i] < batch'[j])
      BY <2>1 DEF Spans
    <3>2. saved <= cursor + 1
      BY DEF Orderly
    <3> QED
      BY <3>1, <3>2, BatchType
  <2> QED
    BY <2>2, <2>3 DEF Orderly
<1>6. CASE SkipRepeat
  BY <1>6, AdvanceOrderly DEF SkipRepeat, driveVars
<1>7. CASE Apply
  BY <1>7, AdvanceOrderly DEF Apply, Acknowledge, driveVars
<1>8. CASE AckFails \/ SdkFails
  <2>1. /\ batch' = <<>> /\ recent' = Recorded(Head(batch)) /\ phase = "applying"
        /\ UNCHANGED <<log, cursor, saved, phase>>
    BY <1>8 DEF AckFails, SdkFails, driveVars
  <2>2. \A i \in recent' : log'[i].kind \in NodeUpdates
    BY <2>1 DEF Recorded, Orderly
  <2> QED
    BY <2>1, <2>2 DEF Orderly
<1>9. CASE Flush
  BY <1>9 DEF Flush, Orderly, driveVars
<1>10. CASE Listing
  BY <1>1, <1>10 DEF Listing, ListAsk, ListPublish, driveVars, feedVars
<1>11. ASSUME NEW f \in Files, Queue(f) \/ Divert(f) \/ ReadBack(f) \/ Place(f) \/ Expire(f)
       PROVE  Orderly'
  BY <1>1, <1>11 DEF Queue, Divert, ReadBack, Place, Expire, driveVars, feedVars
<1>12. ASSUME NEW f \in Files, Seal(f)
       PROVE  Orderly'
  <2>1. \A i \in 1 .. Len(log) : log'[i] = log[i]
    BY <1>12, SealChanges, Changed
  <2> QED
    BY <1>2, <1>12, <2>1 DEF Seal, feedVars
<1>13. CASE Crash
  <2>1. batch' = <<>> /\ dirty' = NoDirty /\ recent' = {} /\ cursor' = saved /\ saved' = saved
    BY <1>13 DEF Crash
  <2> QED
    BY <2>1, BatchType DEF Orderly
<1>14. CASE UNCHANGED vars
  BY <1>1, <1>14 DEF vars, driveVars, feedVars
<1> QED
  BY <1>3, <1>4, <1>5, <1>6, <1>7, <1>8, <1>9, <1>10, <1>11, <1>12, <1>13, <1>14
     DEF Next, EventTask, Drain

(***************************************************************************)
(* Uploads                                                                 *)
(***************************************************************************)
(* The place of a changed file in the log is the last one.                 *)
LEMMA ReadRightNext ==
  ASSUME TypeOK, Logged, ReadRight, [Next]_vars
  PROVE  ReadRight'
<1>1. CASE UNCHANGED <<drive, log, own>>
  BY <1>1 DEF ReadRight, LastMine, Last
<1>2. ASSUME NEW f \in Files, NEW in \in BOOLEAN,
             NEW kind \in {"updated", "moved", "trashed", "deleted"},
             NEW mine \in BOOLEAN, Change(f, in, kind, mine),
             own'[f].at = "read" => own' = own /\ ~mine, \A g \in Files \ {f} : own'[g] = own[g]
      PROVE  ReadRight'
  <2>1. /\ \A i \in 1 .. Len(log) : log'[i] = log[i]
        /\ log'[Len(log) + 1].mine = mine
        /\ Last(f)' = Len(log) + 1 /\ drive'[f].rev = Len(log) + 2 /\ Len(log) \in Nat
        /\ \A g \in Files \ {f} : drive'[g] = drive[g]
    BY <1>2, Changed
  <2>2. ASSUME NEW g \in Files \ {f}
        PROVE  LastMine(g)' = LastMine(g)
    <3>1. Last(g) \in 0 .. Len(log)
      BY DEF Logged
    <3>2. Last(g)' = Last(g)
      BY <2>1 DEF Last
    <3>3. Last(g) # 0 => log'[Last(g)] = log[Last(g)]
      BY <2>1, <3>1
    <3> QED
      BY <3>2, <3>3 DEF LastMine
  <2>3. ASSUME own'[f].at = "read"
        PROVE  own'[f].rev < drive'[f].rev /\ ~LastMine(f)'
    <3>1. own'[f] = own[f] /\ own[f].rev <= drive[f].rev /\ ~mine
      BY <1>2, <2>3 DEF ReadRight
    <3>2. drive[f].rev <= Len(log) + 1 /\ drive[f].rev \in Int
      BY LastType DEF Logged, Last
    <3>3. own[f].rev \in Int
      BY <2>3, <3>1, Shapes, Constants DEF TypeOK
    <3>4. own'[f].rev < drive'[f].rev
      BY <2>1, <3>1, <3>2, <3>3
    <3>5. ~LastMine(f)'
      BY <2>1, <3>1 DEF LastMine
    <3> QED
      BY <3>4, <3>5
  <2>4. ASSUME NEW g \in Files, own'[g].at = "read"
        PROVE  /\ own'[g].rev <= drive'[g].rev
               /\ IF own'[g].rev = drive'[g].rev THEN own'[g].here = drive'[g].in ELSE ~LastMine(g)'
    <3>1. CASE g = f
      <4>1. own'[f].rev \in Int /\ drive'[f].rev \in Int
        <5>1. own'[f] = own[f]
          BY <1>2, <2>4, <3>1
        <5> QED
          BY <2>1, <2>4, <3>1, <5>1, Shapes, Constants DEF TypeOK
      <4> QED
        BY <2>3, <2>4, <3>1, <4>1
    <3>2. CASE g # f
      <4>1. own'[g] = own[g] /\ drive'[g] = drive[g] /\ LastMine(g)' = LastMine(g)
        BY <1>2, <2>1, <2>2, <3>2
      <4> QED
        BY <2>4, <4>1 DEF ReadRight
    <3> QED
      BY <3>1, <3>2
  <2> QED
    BY <2>4 DEF ReadRight
<1>3. CASE OtherDevice
  <2>1. PICK f \in Files, in \in BOOLEAN, kind \in {"updated", "moved", "trashed", "deleted"} :
             Change(f, in, kind, FALSE)
    BY <1>3 DEF OtherDevice
  <2> QED
    BY <1>2, <1>3, <2>1 DEF OtherDevice, ownVars
<1>4. CASE ContinuityLost
  <2>1. drive' = drive /\ own' = own /\ \A i \in 1 .. Len(log) : log'[i] = log[i]
    BY <1>4, Lost DEF ContinuityLost, ownVars
  <2>2. ASSUME NEW g \in Files
        PROVE  LastMine(g)' = LastMine(g)
    <3>1. Last(g) \in 0 .. Len(log) /\ Last(g)' = Last(g)
      BY <2>1 DEF Logged, Last
    <3> QED
      BY <2>1, <3>1 DEF LastMine
  <2> QED
    BY <2>1, <2>2 DEF ReadRight
<1>5. CASE EventTask
  BY <1>1, <1>5 DEF EventTask, Poll, SkipRepeat, Apply, AckFails, ApplyEvent, SdkFails, Flush,
                    driveVars, ownVars
<1>6. CASE Listing
  BY <1>1, <1>6 DEF Listing, ListAsk, ListPublish, driveVars, ownVars
<1>7. ASSUME NEW f \in Files, Seal(f)
      PROVE  ReadRight'
  <2>1. PICK in \in BOOLEAN, kind \in {"updated", "moved"} : Change(f, in, kind, TRUE)
    BY <1>7, SealChanges
  <2>2. own' = [own EXCEPT ![f] = [at |-> "sealed", rev |-> NextRev]]
    BY <1>7 DEF Seal
  <2>3. own'[f].at = "sealed" /\ \A g \in Files \ {f} : own'[g] = own[g]
    BY <2>2 DEF TypeOK
  <2> QED
    BY <1>2, <2>1, <2>3
<1>8. ASSUME drive' = drive, log' = log,
             \A g \in Files : \/ own'[g] = own[g] \/ own'[g].at # "read"
                              \/ own'[g].rev = drive[g].rev /\ own'[g].here = drive[g].in
      PROVE  ReadRight'
  <2>1. \A g \in Files : drive[g].rev <= drive[g].rev
    BY LastType
  <2> QED
    BY <1>8, <2>1 DEF ReadRight, LastMine, Last
<1>9. ASSUME NEW f \in Files, Queue(f) \/ Divert(f) \/ ReadBack(f) \/ Place(f) \/ Expire(f)
      PROVE  ReadRight'
  <2>1. drive' = drive /\ log' = log
    BY <1>9 DEF Queue, Divert, ReadBack, Place, Expire, driveVars
  <2>2. own' = own \/ own' = [own EXCEPT ![f] = [at |-> "queued"]] \/ own' = [own EXCEPT ![f] = Idle]
        \/ own' = [own EXCEPT ![f] = [at |-> "read", rev |-> drive[f].rev, here |-> drive[f].in]]
    BY <1>9 DEF Queue, Divert, ReadBack, Place, Expire, ownVars
  <2>3. own \in [Files -> OwnStates] /\ Idle.at = "idle"
    BY Shapes DEF TypeOK
  <2> QED
    BY <1>8, <2>1, <2>2, <2>3
<1>10. CASE Crash
  <2>1. drive' = drive /\ log' = log
        /\ own' = [f \in Files |-> IF Pending(f) THEN [at |-> "queued"] ELSE Idle]
    BY <1>10 DEF Crash, driveVars
  <2> QED
    BY <1>8, <2>1, Shapes
<1>11. CASE UNCHANGED vars
  BY <1>1, <1>11 DEF vars, driveVars, ownVars
<1> QED
  BY <1>3, <1>4, <1>5, <1>6, <1>7, <1>9, <1>10, <1>11 DEF Next, Drain

(***************************************************************************)
(* The last change of a file stays ahead until it is applied               *)
(***************************************************************************)
LEMMA AheadKept ==
  ASSUME NEW f \in Files, Ahead(f), drive'[f] = drive[f],
         UNCHANGED <<batch, cursor, saved, recent>>
  PROVE  Ahead(f)'
<1>1. Last(f)' = Last(f)
  BY DEF Last
<1> QED
  BY <1>1 DEF Ahead, Unmet, InBatch, PastBatch

LEMMA AheadNew ==
  ASSUME TypeOK, NEW f \in Files, Last(f)' = Len(log) + 1,
         UNCHANGED <<batch, cursor, saved, recent>>
  PROVE  Ahead(f)'
<1> DEFINE id == Len(log) + 1
<1>1. id \notin recent /\ id > cursor /\ id > saved /\ \A i \in 1 .. Len(batch) : batch[i] < id
  BY BatchType DEF TypeOK
<1> QED
  BY <1>1 DEF Ahead, Unmet, PastBatch

LEMMA AheadPoll ==
  ASSUME TypeOK, Orderly, NEW f \in Files, Ahead(f), Poll
  PROVE  Ahead(f)'
<1> DEFINE id == Last(f)
<1>1. batch = <<>> /\ UNCHANGED <<drive, log, cursor, saved, recent>>
  BY DEF Poll, Orderly, driveVars
<1>2. id \notin recent /\ id > cursor /\ id > saved /\ id # cursor /\ id # saved /\ id \in Int
  BY <1>1, BatchType, LastType DEF Ahead, Unmet, InBatch, PastBatch
<1>3. PICK k \in cursor + 1 .. Len(log) : Spans(batch', k)
  BY Polled
<1>4. Last(f)' = id
  BY <1>1 DEF Last
<1> HIDE DEF id
<1>5. CASE id <= k
  <2>1. id \in cursor + 1 .. k
    BY <1>2, <1>5, BatchType
  <2>2. \E i \in 1 .. Len(batch') : batch'[i] = id
    BY <1>3, <2>1 DEF Spans
  <2> QED
    BY <1>1, <1>2, <1>4, <2>2 DEF Ahead, Unmet, InBatch
<1>6. CASE ~(id <= k)
  <2>1. \A i \in 1 .. Len(batch') : batch'[i] \in 1 .. Len(log) /\ batch'[i] <= k
    BY <1>3 DEF Spans
  <2>2. \A i \in 1 .. Len(batch') : batch'[i] < id
    BY <1>2, <1>6, <2>1, BatchType
  <2> QED
    BY <1>1, <1>2, <1>4, <2>2 DEF Ahead, Unmet, PastBatch
<1> QED
  BY <1>5, <1>6

LEMMA AheadAdvance ==
  ASSUME TypeOK, NEW f \in Files, Ahead(f), Last(f) # Head(batch), drive' = drive,
         batch # <<>>, batch' = Tail(batch), cursor' = Head(batch),
         saved' = saved \/ saved' = Head(batch), recent' \subseteq recent \cup {Head(batch)}
  PROVE  Ahead(f)'
<1> DEFINE id == Last(f)
           h == Head(batch)
<1>1. /\ Len(batch) \in Nat /\ Len(batch) >= 1 /\ h = batch[1] /\ 1 \in 1 .. Len(batch)
      /\ Len(batch') = Len(batch) - 1
      /\ \A i \in 1 .. Len(batch) - 1 : batch'[i] = batch[i + 1]
  BY Front
<1>2. Last(f)' = id /\ id \in Int
  BY LastType DEF Last
<1>3. id \notin recent' /\ id # h
  BY DEF Ahead, Unmet
<1> HIDE DEF id, h
<1>4. CASE InBatch(id) /\ id # cursor /\ id # saved
  <2>1. PICK i \in 1 .. Len(batch) : batch[i] = id
    BY <1>4 DEF InBatch
  <2>2. i # 1
    BY <1>1, <1>3, <2>1
  <2>3. i - 1 \in 1 .. Len(batch') /\ batch'[i - 1] = id
    BY <1>1, <2>1, <2>2
  <2>4. id # cursor' /\ id # saved'
    BY <1>3, <1>4 DEF h
  <2> QED
    BY <1>2, <1>3, <2>3, <2>4 DEF Ahead, Unmet, InBatch
<1>5. CASE PastBatch(id)
  <2>1. id > saved /\ \A i \in 1 .. Len(batch) : batch[i] < id
    BY <1>5 DEF PastBatch
  <2>2. id > h
    BY <1>1, <1>2, <2>1, BatchType
  <2>3. \A i \in 1 .. Len(batch') : batch'[i] < id
    BY <1>1, <2>1
  <2>4. id > cursor' /\ id > saved'
    BY <2>1, <2>2 DEF h
  <2> QED
    BY <1>2, <1>3, <2>3, <2>4 DEF Ahead, Unmet, PastBatch
<1> QED
  BY <1>4, <1>5 DEF Ahead, Unmet, id

LEMMA AheadGivenUp ==
  ASSUME TypeOK, Orderly, NEW f \in Files, Ahead(f), drive' = drive,
         batch' = <<>>, UNCHANGED <<cursor, saved>>,
         ~LeftBehind(batch, cursor), Last(f) \notin recent'
  PROVE  Ahead(f)'
<1> DEFINE id == Last(f)
<1>1. Last(f)' = id /\ id \in Int /\ id \notin recent
  BY LastType DEF Last, Ahead, Unmet
<1> HIDE DEF id
<1>2. id > cursor /\ id > saved
  <2>1. CASE InBatch(id) /\ id # cursor /\ id # saved
    <3>1. ~(id < cursor)
      BY <1>1, <2>1 DEF InBatch, LeftBehind
    <3>2. saved <= cursor + 1
      BY DEF Orderly
    <3> QED
      BY <1>1, <2>1, <3>1, <3>2, BatchType
  <2>2. CASE PastBatch(id)
    BY <2>2 DEF PastBatch
  <2> QED
    BY <2>1, <2>2 DEF Ahead, Unmet, id
<1> QED
  BY <1>1, <1>2 DEF Ahead, Unmet, PastBatch, id

LEMMA AheadCrash ==
  ASSUME TypeOK, NEW f \in Files, Ahead(f), Crash, ~LeftBehind(batch, saved)
  PROVE  Ahead(f)'
<1> DEFINE id == Last(f)
<1>1. Last(f)' = id /\ id \in Int /\ id \notin recent
  BY LastType DEF Last, Ahead, Unmet, Crash, driveVars
<1>2. cursor' = saved /\ saved' = saved /\ batch' = <<>> /\ recent' = {}
  BY DEF Crash
<1> HIDE DEF id
<1>3. id > saved
  <2>1. CASE InBatch(id) /\ id # cursor /\ id # saved
    <3>1. ~(id < saved)
      BY <1>1, <2>1 DEF InBatch, LeftBehind
    <3> QED
      BY <1>1, <2>1, <3>1, BatchType
  <2>2. CASE PastBatch(id)
    BY <2>2 DEF PastBatch
  <2> QED
    BY <2>1, <2>2 DEF Ahead, Unmet, id
<1> QED
  BY <1>1, <1>2, <1>3 DEF Ahead, Unmet, PastBatch

(* Nothing is ahead of a feed that is read to its end.                     *)
LEMMA AheadEnds ==
  ASSUME TypeOK, Orderly, Logged, NEW f \in Files, CaughtUp
  PROVE  ~Ahead(f)
<1>1. batch = <<>> /\ cursor = Len(log)
  BY DEF CaughtUp, Orderly
<1>2. Last(f) \in 0 .. Len(log)
  BY DEF Logged
<1> QED
  BY <1>1, <1>2, BatchType DEF Ahead, Unmet, InBatch, PastBatch

LEMMA SameMine ==
  ASSUME TypeOK, Logged, NEW f \in Files, drive'[f] = drive[f],
         \A i \in 1 .. Len(log) : log'[i] = log[i]
  PROVE  LastMine(f)' = LastMine(f) /\ Last(f)' = Last(f) /\ Shown'[f] = Shown[f]
<1>1. Last(f)' = Last(f) /\ Last(f) \in 0 .. Len(log)
  BY DEF Last, Logged
<1>2. Last(f) # 0 => log'[Last(f)] = log[Last(f)]
  BY <1>1, BatchType
<1> QED
  BY <1>1, <1>2 DEF LastMine, Shown

(* A revision of ours is the last change only of a file that exists.      *)
LEMMA MineIsThere ==
  ASSUME TypeOK, Logged, NEW f \in Files, LastMine(f)
  PROVE  Exists(f)
<1>1. Last(f) \in 1 .. Len(log) /\ log[Last(f)].mine
  BY BatchType DEF LastMine, Logged
<1>2. /\ log[Last(f)].kind # "lost" /\ log[Last(f)].file = f
      /\ drive[f].in <=> log[Last(f)].kind = "updated"
  BY <1>1 DEF Logged
<1>3. log[Last(f)].kind \in {"updated", "moved"}
  BY <1>1, <1>2 DEF Logged
<1> QED
  BY <1>1, <1>2, <1>3 DEF Exists, Elsewhere

(***************************************************************************)
(* Listings                                                                *)
(***************************************************************************)
LEMMA OvertakenLister ==
  ASSUME TypeOK, lister' = Overtaken
  PROVE  ListerCurrent'
<1>1. lister' # Idle => lister'.overtaken
  BY Parts
<1> QED
  BY <1>1 DEF ListerCurrent

LEMMA QuietLister ==
  ASSUME TypeOK, Logged, ListerCurrent, lister' = lister, drive' = drive,
         \A i \in 1 .. Len(log) : log'[i] = log[i],
         \A f \in Files : Ahead(f) => Ahead(f)',
         \A f \in Files : LastMine(f) /\ own'[f] = Idle => own[f] = Idle
  PROVE  ListerCurrent'
<1> SUFFICES ASSUME lister' # Idle, ~lister'.overtaken, NEW f \in Files
             PROVE  Noticed(f)'
  BY DEF ListerCurrent
<1>1. Noticed(f)
  BY DEF ListerCurrent
<1>2. LastMine(f)' = LastMine(f) /\ Shown'[f] = Shown[f]
  BY SameMine
<1> QED
  BY <1>1, <1>2 DEF Noticed

LEMMA ChangedLister ==
  ASSUME TypeOK, Logged, ListerCurrent, lister' = lister,
         UNCHANGED <<batch, cursor, saved, recent>>,
         NEW f \in Files, NEW in \in BOOLEAN, NEW kind \in {"updated", "moved", "trashed", "deleted"},
         NEW mine \in BOOLEAN, Change(f, in, kind, mine), mine => own'[f] # Idle,
         \A g \in Files \ {f} : own'[g] = own[g]
  PROVE  ListerCurrent'
<1> SUFFICES ASSUME lister' # Idle, ~lister'.overtaken, NEW g \in Files
             PROVE  Noticed(g)'
  BY DEF ListerCurrent
<1>1. /\ \A i \in 1 .. Len(log) : log'[i] = log[i]
      /\ log'[Len(log) + 1].mine = mine
      /\ Last(f)' = Len(log) + 1
      /\ \A h \in Files \ {f} : drive'[h] = drive[h]
  BY Changed
<1>2. CASE g = f
  <2>1. Ahead(f)'
    BY <1>1, AheadNew
  <2>2. LastMine(f)' => own'[f] # Idle
    BY <1>1 DEF LastMine
  <2> QED
    BY <1>2, <2>1, <2>2 DEF Noticed
<1>3. CASE g # f
  <2>1. Noticed(g)
    BY DEF ListerCurrent
  <2>2. LastMine(g)' = LastMine(g) /\ Shown'[g] = Shown[g] /\ own'[g] = own[g]
    BY <1>1, <1>3, SameMine
  <2>3. Ahead(g) => Ahead(g)'
    BY <1>1, <1>3, AheadKept
  <2> QED
    BY <2>1, <2>2, <2>3 DEF Noticed
<1> QED
  BY <1>2, <1>3

LEMMA ListerNext ==
  ASSUME TypeOK, Logged, Orderly, ListerCurrent, [Next]_vars
  PROVE  ListerCurrent'
<1>1. ASSUME drive' = drive, UNCHANGED <<batch, cursor, saved, recent>>
      PROVE  \A f \in Files : Ahead(f) => Ahead(f)'
  BY <1>1, AheadKept
<1>2. CASE OtherDevice
  <2>1. PICK f \in Files, in \in BOOLEAN, kind \in {"updated", "moved", "trashed", "deleted"} :
             Change(f, in, kind, FALSE)
    BY <1>2 DEF OtherDevice
  <2>2. lister' = lister /\ own' = own /\ UNCHANGED <<batch, cursor, saved, recent>>
    BY <1>2 DEF OtherDevice, feedVars, treeVars, ownVars
  <2> QED
    BY <2>1, <2>2, ChangedLister
<1>3. CASE ContinuityLost
  <2>1. /\ lister' = lister /\ own' = own /\ drive' = drive
        /\ UNCHANGED <<batch, cursor, saved, recent>>
    BY <1>3 DEF ContinuityLost, feedVars, treeVars, ownVars
  <2> QED
    BY <1>1, <1>3, <2>1, QuietLister, Lost
<1>4. CASE Poll
  <2>1. lister' = lister /\ own' = own /\ drive' = drive /\ log' = log
    BY <1>4 DEF Poll, driveVars, treeVars, ownVars
  <2> QED
    BY <1>4, <2>1, QuietLister, AheadPoll
<1>5. CASE SkipRepeat
  <2>1. /\ lister' = lister /\ own' = own /\ drive' = drive /\ log' = log
        /\ batch # <<>> /\ batch' = Tail(batch) /\ cursor' = Head(batch)
        /\ saved' = saved /\ recent' = recent /\ Head(batch) \in recent
    BY <1>5 DEF SkipRepeat, Repeat, driveVars, treeVars, ownVars
  <2>2. \A f \in Files : Ahead(f) => Ahead(f)'
    <3>1. \A f \in Files : Ahead(f) => Last(f) # Head(batch)
      BY <2>1 DEF Ahead, Unmet
    <3> QED
      BY <2>1, <3>1, AheadAdvance
  <2> QED
    BY <2>1, <2>2, QuietLister
<1>6. CASE Apply \/ AckFails \/ SdkFails
  BY <1>6, OvertakenLister DEF Apply, AckFails, ApplyEvent, SdkFails
<1>7. CASE Flush
  <2>1. /\ own' = own /\ drive' = drive /\ log' = log
        /\ UNCHANGED <<batch, cursor, saved, recent>> /\ (lister' = lister \/ lister' = Overtaken)
    BY <1>7 DEF Flush, driveVars, ownVars
  <2> QED
    BY <1>1, <2>1, QuietLister, OvertakenLister
<1>8. CASE ListAsk
  <2>1. lister' = [at |-> "asked", seen |-> Shown, overtaken |-> FALSE] /\ drive' = drive
    BY <1>8 DEF ListAsk, driveVars
  <2>2. Shown' = Shown
    BY <2>1 DEF Shown
  <2> QED
    BY <2>1, <2>2 DEF ListerCurrent, Noticed
<1>9. CASE ListPublish \/ Crash
  BY <1>9 DEF ListPublish, Crash, ListerCurrent
<1>10. ASSUME NEW f \in Files, Queue(f) \/ ReadBack(f) \/ Expire(f)
       PROVE  ListerCurrent'
  <2>1. /\ lister' = lister /\ drive' = drive /\ log' = log
        /\ UNCHANGED <<batch, cursor, saved, recent>>
    BY <1>10 DEF Queue, ReadBack, Expire, driveVars, feedVars, treeVars
  <2>2. ASSUME NEW g \in Files, LastMine(g), own'[g] = Idle
        PROVE  own[g] = Idle
    <3>1. Exists(g)
      BY <2>2, MineIsThere
    <3>2. own \in [Files -> OwnStates] /\ Idle # [at |-> "queued"]
          /\ \A r, h : Idle # [at |-> "read", rev |-> r, here |-> h]
      BY Shapes DEF TypeOK
    <3> QED
      BY <1>10, <2>2, <3>1, <3>2 DEF Queue, ReadBack, Expire
  <2> QED
    BY <1>1, <2>1, <2>2, QuietLister
<1>11. ASSUME NEW f \in Files, Seal(f)
       PROVE  ListerCurrent'
  <2>1. /\ lister' = lister /\ own' = [own EXCEPT ![f] = [at |-> "sealed", rev |-> NextRev]]
        /\ UNCHANGED <<batch, cursor, saved, recent>>
    BY <1>11 DEF Seal, feedVars, treeVars
  <2>2. own'[f] # Idle /\ \A g \in Files \ {f} : own'[g] = own[g]
    BY <2>1, Shapes DEF TypeOK
  <2>3. PICK in \in BOOLEAN, kind \in {"updated", "moved"} : Change(f, in, kind, TRUE)
    BY <1>11, SealChanges
  <2> QED
    BY <2>1, <2>2, <2>3, ChangedLister
<1>12. ASSUME NEW f \in Files, Divert(f) \/ Place(f)
       PROVE  ListerCurrent'
  BY <1>12, OvertakenLister DEF Divert, Place
<1>13. CASE UNCHANGED vars
  <2>1. lister' = lister /\ own' = own /\ drive' = drive /\ log' = log
        /\ UNCHANGED <<batch, cursor, saved, recent>>
    BY <1>13 DEF vars, driveVars, feedVars, treeVars, ownVars
  <2> QED
    BY <1>1, <2>1, QuietLister
<1> QED
  BY <1>2, <1>3, <1>4, <1>5, <1>6, <1>7, <1>8, <1>9, <1>10, <1>11, <1>12, <1>13
     DEF Next, EventTask, Listing, Drain

(***************************************************************************)
(* The listing of a file                                                   *)
(***************************************************************************)
LEMMA OwnType ==
  ASSUME TypeOK, NEW f \in Files
  PROVE  /\ own[f] \in OwnStates /\ own[f].at \in {"idle", "queued", "sealed", "read"}
         /\ own[f] = Idle <=> own[f].at = "idle"
BY Shapes DEF TypeOK

(* Steps that leave the file and the folder alone.                         *)
LEMMA SameFile ==
  ASSUME TypeOK, Logged, NEW f \in Files, FileCurrent(f), drive'[f] = drive[f],
         \A i \in 1 .. Len(log) : log'[i] = log[i], own'[f] = own[f],
         UNCHANGED <<dirty, listing, tree, rows, listed>>, Ahead(f) => Ahead(f)'
  PROVE  FileCurrent(f)'
<1>1. LastMine(f)' = LastMine(f)
  BY SameMine
<1>2. Served(f) => Served(f)'
  BY DEF Served, Will
<1> QED
  BY <1>1, <1>2 DEF FileCurrent, Wanted

LEMMA ChangedFile ==
  ASSUME TypeOK, Logged, \A g \in Files : FileCurrent(g),
         UNCHANGED <<batch, cursor, saved, recent, dirty, listing, tree, rows, listed>>,
         NEW f \in Files, NEW in \in BOOLEAN, NEW kind \in {"updated", "moved", "trashed", "deleted"},
         NEW mine \in BOOLEAN, Change(f, in, kind, mine), mine => own'[f] # Idle,
         \A g \in Files \ {f} : own'[g] = own[g]
  PROVE  \A g \in Files : FileCurrent(g)'
<1> SUFFICES ASSUME NEW g \in Files
             PROVE  FileCurrent(g)'
  OBVIOUS
<1>1. /\ \A i \in 1 .. Len(log) : log'[i] = log[i]
      /\ log'[Len(log) + 1].mine = mine
      /\ Last(f)' = Len(log) + 1
      /\ \A h \in Files \ {f} : drive'[h] = drive[h]
  BY Changed
<1>2. CASE g = f
  <2>1. Ahead(f)'
    BY <1>1, AheadNew
  <2>2. LastMine(f)' => own'[f] # Idle
    BY <1>1 DEF LastMine
  <2> QED
    BY <1>2, <2>1, <2>2 DEF FileCurrent
<1>3. CASE g # f
  <2>1. Ahead(g) => Ahead(g)'
    BY <1>1, <1>3, AheadKept
  <2> QED
    BY <1>1, <1>3, <2>1, SameFile
<1> QED
  BY <1>2, <1>3

(* What a forgotten file leaves behind.                                    *)
LEMMA Forgotten ==
  ASSUME TypeOK, NEW f \in Files, Forget(f)
  PROVE  /\ f \notin listing'.files /\ rows'[f] = 0 /\ tree'[f] = 0 /\ listed' = listed
         /\ listing'.resident = listing.resident
         /\ \A g \in Files \ {f} : /\ rows'[g] = rows[g] /\ tree'[g] = tree[g]
                                   /\ g \in listing'.files <=> g \in listing.files
<1>1. listing \in Listings /\ rows \in [Files -> Revs] /\ tree \in [Files -> Revs]
  BY DEF TypeOK
<1> QED
  BY <1>1 DEF Forget, Listings

(* An event that is not taken wrongly for an echo is applied.              *)
LEMMA AppliedFile ==
  ASSUME TypeOK, Logged, Mirrored, ReadRight, \A g \in Files : FileCurrent(g),
         drive' = drive, log' = log, batch # <<>>, ApplyEvent(log[Head(batch)]),
         LeftUndone(log[Head(batch)]) = {},
         \A g \in Files : Ahead(g) /\ Last(g) # Head(batch) => Ahead(g)'
  PROVE  \A g \in Files : FileCurrent(g)'
<1> SUFFICES ASSUME NEW g \in Files
             PROVE  FileCurrent(g)'
  OBVIOUS
<1> DEFINE e == log[Head(batch)]
<1>1. e \in Event /\ own' = own /\ Head(batch) \in 1 .. Len(log)
  BY Front DEF ApplyEvent
<1>2. LastMine(g)' = LastMine(g) /\ Last(g)' = Last(g)
  BY SameMine
<1>3. ASSUME Last(g) = Head(batch)
      PROVE  /\ e.kind # "lost" /\ e.file = g /\ (drive[g].in <=> e.kind = "updated")
             /\ (LastMine(g) <=> e.mine)
  <2>1. Last(g) # 0
    BY <1>1, <1>3, BatchType
  <2>2. e.kind # "lost" /\ e.file = g /\ (drive[g].in <=> e.kind = "updated")
    BY <1>3, <2>1 DEF Logged
  <2>3. LastMine(g) <=> e.mine
    BY <1>3, <2>1 DEF LastMine
  <2> QED
    BY <2>2, <2>3
<1>0. /\ e.kind = "updated" => ~TakenForOurs(e)
      /\ e.kind = "moved" => tree[e.file] = 0
  BY DEF LeftUndone, Gap
<1>4. ASSUME Last(g) = Head(batch), drive[g].in, own[g] # Idle
      PROVE  LastMine(g)
  <2>1. e.kind = "updated" /\ e.file = g /\ (LastMine(g) <=> e.mine)
    BY <1>3, <1>4
  <2> QED
    BY <1>0, <1>4, <2>1 DEF TakenForOurs, Ours, Pending
<1>6. /\ rows'[g] = rows[g] \/ (rows'[g] = 0 /\ g \notin listing'.files)
      /\ listed' => listed
      /\ g \in listing'.files => g \in listing.files
      /\ tree'[g] # 0 => tree'[g] = tree[g]
      /\ e.kind \in {"trashed", "deleted"} /\ e.file = g => tree'[g] = 0
  <2>1. CASE ApplyUpdate(e)
    BY <2>1 DEF ApplyUpdate, KeepListing
  <2>2. CASE ApplyTrash(e) \/ ApplyDelete(e)
    <3>1. e.file \in Files /\ Forget(e.file)
      BY <1>1, <2>2, Events DEF ApplyTrash, ApplyDelete
    <3> QED
      BY <3>1, Forgotten
  <2>3. CASE ApplyLost(e)
    BY <2>3 DEF ApplyLost, Drop, KeepListing, NotListed
  <2> QED
    BY <2>1, <2>2, <2>3 DEF ApplyEvent
<1>5. ASSUME own'[g].at = "read", own'[g].rev # drive'[g].rev, Wanted(g)'
      PROVE  Ahead(g)'
  <2>1. own[g].at = "read" /\ own[g].rev # drive[g].rev /\ Wanted(g) /\ own[g] # Idle
    BY <1>1, <1>5, <1>6, OwnType DEF Wanted
  <2>2. Ahead(g) /\ ~LastMine(g)
    BY <2>1 DEF FileCurrent, ReadRight
  <2>3. CASE Last(g) # Head(batch)
    BY <2>2, <2>3
  <2>4. CASE Last(g) = Head(batch)
    <3>1. ~drive[g].in /\ e.file = g /\ e.kind \in {"moved", "trashed", "deleted"}
      BY <1>1, <1>3, <1>4, <2>1, <2>2, <2>4, Events
    <3>2. tree'[g] = 0
      BY <1>0, <1>6, <3>1
    <3> QED
      BY <1>5, <3>1, <3>2 DEF Wanted
  <2> QED
    BY <2>3, <2>4
<1>7. Served(g) \/ Last(g) = Head(batch) => Served(g)'
  <2>1. CASE ApplyUpdate(e)
    <3>1. listing' = listing /\ rows' = rows /\ tree' = tree /\ e.kind \in {"updated", "moved"}
      BY <2>1 DEF ApplyUpdate, KeepListing
    <3>2. /\ dirty \in Dirty
          /\ CASE e.kind = "moved" -> dirty' = dirty
               [] e.kind = "updated" /\ Ours(e) -> dirty' = [dirty EXCEPT !.ours = @ \cup {e.file}]
               [] OTHER -> dirty' = [dirty EXCEPT !.foreign = TRUE]
      BY <2>1 DEF TypeOK, ApplyUpdate
    <3>3. /\ dirty.foreign => dirty'.foreign
          /\ dirty.ours \subseteq dirty'.ours
          /\ e.kind = "updated" /\ Ours(e) => e.file \in dirty'.ours
          /\ e.kind = "updated" /\ ~Ours(e) => dirty'.foreign
      BY <3>1, <3>2 DEF Dirty
    <3>4. Served(g) => Served(g)'
      BY <1>1, <3>1, <3>3 DEF Served, Will
    <3>6. ASSUME Last(g) = Head(batch), e.kind = "moved"
          PROVE  Served(g)'
      <4>1. ~drive[g].in /\ tree[g] = 0
        BY <1>0, <1>3, <3>6
      <4>2. g \notin listing.files /\ rows[g] = 0
        BY <4>1 DEF Mirrored
      <4> QED
        BY <3>1, <4>1, <4>2 DEF Served
    <3>5. ASSUME Last(g) = Head(batch), e.kind = "updated"
          PROVE  Served(g)'
      <4>1. e.file = g /\ drive[g].in /\ (LastMine(g) <=> e.mine)
        BY <1>3, <3>5
      <4>2. CASE ~Ours(e)
        BY <3>3, <3>5, <4>1, <4>2 DEF Served
      <4>3. CASE Ours(e) /\ g \notin listing.files
        BY <3>1, <3>3, <3>5, <4>1, <4>3 DEF Served
      <4>4. CASE Ours(e) /\ g \in listing.files
        <5>1. LastMine(g)
          BY <1>0, <3>5, <4>1, <4>4 DEF TakenForOurs
        <5>2. listed
          BY <4>4 DEF Mirrored
        <5>3. own[g].at = "read" => own[g].rev = drive[g].rev
          BY <5>1 DEF ReadRight
        <5>4. own[g].at = "idle" => rows[g] = drive[g].rev
          BY <4>1, <4>4, <5>1, <5>2, OwnType DEF FileCurrent
        <5>5. Will(g)'
          BY <1>1, <3>1, <5>3, <5>4 DEF Will
        <5> QED
          BY <3>1, <4>1, <4>4, <5>5 DEF Served
      <4> QED
        BY <4>2, <4>3, <4>4
    <3> QED
      BY <3>1, <3>4, <3>5, <3>6
  <2>2. CASE ApplyTrash(e) \/ ApplyDelete(e)
    <3>1. /\ e.file \in Files /\ Forget(e.file) /\ e.kind \in {"trashed", "deleted"}
      BY <1>1, <2>2, Events DEF ApplyTrash, ApplyDelete
    <3>2. /\ dirty \in Dirty
          /\ IF e.kind = "trashed" THEN dirty' = [dirty EXCEPT !.foreign = TRUE] ELSE dirty' = dirty
      BY <2>2 DEF TypeOK, ApplyTrash, ApplyDelete
    <3>3. /\ dirty.foreign => dirty'.foreign
          /\ dirty.ours \subseteq dirty'.ours
          /\ e.kind = "trashed" => dirty'.foreign
      BY <3>2 DEF Dirty
    <3>4. CASE g = e.file
      <4>1. drive[g].in => e.kind = "trashed"
        BY <1>1, <3>1, <3>4 DEF Logged
      <4>2. g \notin listing'.files /\ rows'[g] = 0
        BY <3>1, <3>4, Forgotten
      <4> QED
        BY <3>3, <4>1, <4>2 DEF Served
    <3>5. CASE g # e.file
      <4>1. /\ rows'[g] = rows[g] /\ (g \in listing'.files <=> g \in listing.files)
            /\ listing'.resident = listing.resident
        BY <3>1, <3>5, Forgotten
      <4>2. Last(g) # Head(batch)
        BY <1>3, <3>5
      <4> QED
        BY <1>1, <3>3, <4>1, <4>2 DEF Served, Will
    <3> QED
      BY <3>4, <3>5
  <2>3. CASE ApplyLost(e)
    <3>1. Last(g) # Head(batch)
      BY <1>3, <2>3 DEF ApplyLost
    <3>2. rows' = rows /\ dirty' = dirty
      BY <2>3 DEF ApplyLost
    <3>3. CASE listing.resident
      <4>1. listing' = NotListed
        BY <2>3, <3>3 DEF ApplyLost, Drop
      <4> QED
        BY <3>1, <3>2, <4>1 DEF Served, NotListed
    <3>4. CASE ~listing.resident
      <4>1. listing' = listing
        BY <2>3, <3>4 DEF ApplyLost, KeepListing
      <4> QED
        BY <1>1, <3>1, <3>2, <4>1 DEF Served, Will
    <3> QED
      BY <3>3, <3>4
  <2> QED
    BY <2>1, <2>2, <2>3 DEF ApplyEvent
<1>8. Ahead(g)' \/ Served(g)'
  BY <1>7 DEF FileCurrent
<1>9. LastMine(g)' /\ drive'[g].in /\ own'[g] = Idle /\ listed' =>
         (g \in listing'.files \/ rows'[g] # 0 => rows'[g] = drive'[g].rev)
  BY <1>1, <1>2, <1>6 DEF FileCurrent
<1> QED
  BY <1>5, <1>8, <1>9 DEF FileCurrent

(* The listing is given up: what is there need not be listed.              *)
LEMMA DroppedFile ==
  ASSUME TypeOK, Logged, Mirrored, NEW f \in Files, FileCurrent(f), drive' = drive, log' = log, Drop,
         UNCHANGED <<tree, rows>>, own'[f] = own[f] \/ own'[f] = Idle,
         Ahead(f) => Ahead(f)'
  PROVE  FileCurrent(f)'
<1>1. listing' = NotListed /\ listed' = FALSE
  BY DEF Drop
<1>2. Served(f) => Served(f)'
  BY <1>1 DEF Served, NotListed
<1>3. own'[f].at = "read" => own[f].at = "read" /\ own'[f] = own[f]
  BY Shapes
<1> QED
  BY <1>1, <1>2, <1>3 DEF FileCurrent, Wanted

LEMMA PublishFile ==
  ASSUME TypeOK, Logged, ListerCurrent, ListPublish, gaps' = {},
         gaps = {} => \A g \in Files : FileCurrent(g)
  PROVE  \A g \in Files : FileCurrent(g)'
<1> SUFFICES ASSUME NEW g \in Files
             PROVE  FileCurrent(g)'
  OBVIOUS
<1>1. /\ lister # Idle /\ drive' = drive /\ log' = log /\ own' = own
      /\ UNCHANGED <<batch, cursor, saved, recent, dirty>>
      /\ listing' = [resident |-> TRUE, files |-> {f \in Files : lister.seen[f] # 0}]
      /\ rows' = Interned(lister.seen, rows) /\ tree' = Interned(lister.seen, tree)
      /\ listed' = TRUE
  BY DEF ListPublish, driveVars, feedVars, ownVars
<1>2. ~lister.overtaken
  <2>1. lister.overtaken => gaps' = gaps \cup {"overtaken"}
    BY DEF ListPublish
  <2>2. "overtaken" \notin gaps'
    OBVIOUS
  <2> QED
    BY <2>1, <2>2
<1>3. Noticed(g)
  BY <1>1, <1>2 DEF ListerCurrent
<1>4. Pending(g) \/ (rows[g] # 0 /\ lister.seen[g] = 0) => gaps = {}
  BY <1>2 DEF ListPublish
<1>5. Ahead(g) => Ahead(g)'
  BY <1>1, AheadKept
<1>6. LastMine(g)' = LastMine(g)
  BY <1>1, SameMine
<1>7. /\ g \in listing'.files <=> lister.seen[g] # 0
      /\ rows'[g] = IF lister.seen[g] # 0 THEN lister.seen[g] ELSE rows[g]
      /\ tree'[g] # 0 => lister.seen[g] # 0 \/ tree[g] # 0
  BY <1>1 DEF Interned
<1>8. drive[g].rev # 0 /\ Shown[g] = IF drive[g].in THEN drive[g].rev ELSE 0
  BY LastType DEF Shown
<1>9. own[g].at = "read" /\ own[g].rev # drive[g].rev /\ Wanted(g)' => Ahead(g)
  <2>1. own[g].at = "read" => gaps = {}
    BY <1>4, OwnType DEF Pending
  <2>2. Wanted(g)' => Wanted(g) \/ Ahead(g)
    <3>1. ~drive[g].in /\ lister.seen[g] # 0 => Ahead(g)
      BY <1>3, <1>8 DEF Noticed
    <3> QED
      BY <1>1, <1>7, <3>1 DEF Wanted
  <2> QED
    BY <2>1, <2>2 DEF FileCurrent
<1>10. Ahead(g)' \/ Served(g)'
  <2>1. CASE Ahead(g)
    BY <1>5, <2>1
  <2>2. CASE ~Ahead(g) /\ drive[g].in
    <3>1. lister.seen[g] = drive[g].rev
      BY <1>3, <1>8, <2>2 DEF Noticed
    <3>2. g \in listing'.files /\ rows'[g] = drive[g].rev
      BY <1>7, <1>8, <3>1
    <3>3. own[g].at = "read" => own[g].rev = drive[g].rev
      BY <1>1, <1>9, <2>2 DEF Wanted
    <3>4. Will(g)'
      BY <1>1, <3>2, <3>3 DEF Will
    <3> QED
      BY <1>1, <2>2, <3>2, <3>4 DEF Served
  <2>3. CASE ~Ahead(g) /\ ~drive[g].in
    <3>1. lister.seen[g] = 0
      BY <1>3, <1>8, <2>3 DEF Noticed
    <3>2. rows[g] # 0 => Served(g)
      BY <1>4, <2>3, <3>1 DEF FileCurrent
    <3>3. rows[g] = 0
      BY <2>3, <3>2 DEF Served
    <3> QED
      BY <1>1, <1>7, <2>3, <3>1, <3>3 DEF Served
  <2> QED
    BY <2>1, <2>2, <2>3
<1>11. ASSUME LastMine(g), drive[g].in, own[g] = Idle
       PROVE  rows'[g] = drive[g].rev
  <2>1. lister.seen[g] = Shown[g]
    BY <1>3, <1>11 DEF Noticed
  <2> QED
    BY <1>7, <1>8, <1>11, <2>1
<1> QED
  BY <1>1, <1>5, <1>6, <1>9, <1>10, <1>11 DEF FileCurrent

LEMMA DrainFile ==
  ASSUME TypeOK, Logged, Mirrored, ReadRight, \A g \in Files : FileCurrent(g), NEW f \in Files,
         Queue(f) \/ Divert(f) \/ ReadBack(f) \/ Place(f) \/ Expire(f)
  PROVE  \A g \in Files : FileCurrent(g)'
<1>0. drive' = drive /\ log' = log /\ UNCHANGED <<batch, cursor, saved, recent, dirty>>
  BY DEF Queue, Divert, ReadBack, Place, Expire, driveVars, feedVars
<1>1. \A g \in Files : Ahead(g) => Ahead(g)'
  BY <1>0, AheadKept
<1>2. \A g \in Files : LastMine(g)' = LastMine(g)
  BY <1>0, SameMine
<1>3. own \in [Files -> OwnStates] /\ rows \in [Files -> Revs] /\ tree \in [Files -> Revs]
  BY DEF TypeOK
<1>4. ASSUME UNCHANGED <<listing, tree, rows, listed>>, NEW g \in Files, own'[g] = own[g]
      PROVE  FileCurrent(g)'
  BY <1>0, <1>1, <1>4, SameFile
<1>5. CASE Queue(f)
  <2>1. UNCHANGED <<listing, tree, rows, listed>> /\ own' = [own EXCEPT ![f] = [at |-> "queued"]]
    BY <1>5 DEF Queue, treeVars
  <2>2. FileCurrent(f)'
    <3>1. own'[f].at = "queued" /\ own'[f] # Idle
      BY <1>3, <2>1, Shapes
    <3>2. Served(f) => Served(f)'
      BY <1>0, <2>1, <3>1 DEF Served
    <3> QED
      BY <1>1, <3>1, <3>2 DEF FileCurrent
  <2> QED
    BY <1>3, <1>4, <2>1, <2>2
<1>6. CASE Divert(f)
  <2>1. Drop /\ tree' = tree /\ rows' = rows /\ own' = [own EXCEPT ![f] = Idle]
    BY <1>6 DEF Divert
  <2> QED
    BY <1>0, <1>1, <1>3, <2>1, DroppedFile
<1>7. CASE ReadBack(f)
  <2>1. UNCHANGED <<listing, tree, rows, listed>> /\ own[f].at = "sealed"
    BY <1>7 DEF ReadBack, treeVars
  <2>2. CASE Exists(f)
    <3>1. own' = [own EXCEPT ![f] = [at |-> "read", rev |-> drive[f].rev, here |-> drive[f].in]]
      BY <1>7, <2>2 DEF ReadBack
    <3>2. own'[f].at = "read" /\ own'[f].rev = drive[f].rev /\ own'[f] # Idle
      BY <1>3, <3>1, Shapes
    <3>3. Will(f)'
      BY <1>0, <3>2 DEF Will
    <3>4. Served(f) => Served(f)'
      BY <1>0, <2>1, <3>3 DEF Served
    <3>5. FileCurrent(f)'
      BY <1>0, <1>1, <3>2, <3>4 DEF FileCurrent
    <3> QED
      BY <1>3, <1>4, <2>1, <3>1, <3>5
  <2>3. CASE ~Exists(f)
    <3>1. own' = [own EXCEPT ![f] = Idle] /\ ~drive[f].in
      BY <1>7, <2>3 DEF ReadBack, Exists
    <3>2. own'[f].at = "idle"
      BY <1>3, <3>1, Shapes
    <3>3. Served(f) => Served(f)'
      BY <1>0, <2>1, <3>1 DEF Served
    <3>4. FileCurrent(f)'
      BY <1>0, <1>1, <3>1, <3>2, <3>3 DEF FileCurrent
    <3> QED
      BY <1>3, <1>4, <2>1, <3>1, <3>4
  <2> QED
    BY <2>2, <2>3
<1>8. CASE Place(f)
  <2>1. /\ own' = [own EXCEPT ![f] = Idle] /\ listing' = listing /\ listed' = listed
        /\ own[f].at = "read"
        /\ IF tree[f] # 0
           THEN /\ tree' = [tree EXCEPT ![f] = own[f].rev]
                /\ rows' = [rows EXCEPT ![f] = IF own[f].here THEN own[f].rev ELSE 0]
           ELSE tree' = tree /\ rows' = rows
    BY <1>8 DEF Place
  <2>2. /\ own'[f].at = "idle" /\ own[f].at # "queued"
        /\ \A g \in Files \ {f} : own'[g] = own[g] /\ rows'[g] = rows[g] /\ tree'[g] = tree[g]
    BY <1>3, <2>1, Shapes
  <2>3. rows'[f] = IF tree[f] # 0 /\ own[f].here THEN own[f].rev ELSE 0
    <3>1. tree[f] = 0 => rows[f] = 0
      BY DEF Mirrored
    <3> QED
      BY <1>3, <2>1, <3>1
  <2>4. own[f].rev = drive[f].rev => own[f].here = drive[f].in
    BY <2>1 DEF ReadRight
  <2>5. Ahead(f) \/ Served(f)'
    <3>1. CASE ~drive[f].in
      <4>1. ~Ahead(f) => f \notin listing.files /\ ~(tree[f] # 0 /\ own[f].here)
        BY <2>1, <2>4, <3>1 DEF FileCurrent, Served, Wanted
      <4> QED
        BY <1>0, <2>1, <2>3, <3>1, <4>1 DEF Served
    <3>2. CASE drive[f].in
      <4>1. f \in listing.files => tree[f] # 0
        BY DEF Mirrored
      <4>2. f \in listing.files /\ Will(f) => Will(f)'
        BY <1>0, <2>1, <2>2, <2>3, <2>4, <3>2, <4>1 DEF Will
      <4> QED
        BY <1>0, <2>1, <2>2, <3>2, <4>2 DEF FileCurrent, Served
    <3> QED
      BY <3>1, <3>2
  <2>6. LastMine(f) /\ drive[f].in /\ (f \in listing.files \/ rows'[f] # 0) => rows'[f] = drive[f].rev
    <3>1. f \in listing.files => tree[f] # 0
      BY DEF Mirrored
    <3>2. LastMine(f) => own[f].rev = drive[f].rev
      BY <2>1 DEF ReadRight
    <3> QED
      BY <2>3, <2>4, <3>1, <3>2
  <2>7. FileCurrent(f)'
    BY <1>0, <1>1, <1>2, <2>1, <2>2, <2>5, <2>6 DEF FileCurrent
  <2>8. ASSUME NEW g \in Files \ {f}
        PROVE  FileCurrent(g)'
    <3>1. Served(g) => Served(g)'
      BY <1>0, <2>1, <2>2 DEF Served, Will
    <3> QED
      BY <1>0, <1>1, <1>2, <2>1, <2>2, <3>1 DEF FileCurrent, Wanted
  <2> QED
    BY <2>7, <2>8
<1>9. CASE Expire(f)
  BY <1>4, <1>9 DEF Expire, treeVars
<1> QED
  BY <1>5, <1>6, <1>7, <1>8, <1>9

LEMMA CrashFile ==
  ASSUME TypeOK, Logged, Mirrored, \A g \in Files : FileCurrent(g), Crash, gaps' = {}
  PROVE  \A g \in Files : FileCurrent(g)'
<1> SUFFICES ASSUME NEW g \in Files
             PROVE  FileCurrent(g)'
  OBVIOUS
<1>1. /\ drive' = drive /\ log' = log /\ rows' = rows /\ listed' = listed /\ listing' = Hydrated
      /\ own' = [f \in Files |-> IF Pending(f) THEN [at |-> "queued"] ELSE Idle]
      /\ dirty' = NoDirty
  BY DEF Crash, driveVars
<1>2. dirty = NoDirty /\ ~LeftBehind(batch, saved)
  BY DEF Crash, Gap
<1>3. Ahead(g) => Ahead(g)'
  BY <1>2, AheadCrash
<1>4. LastMine(g)' = LastMine(g)
  BY <1>1, SameMine
<1>5. /\ own'[g].at = "queued" \/ (own'[g].at = "idle" /\ own[g] = Idle)
      /\ own'[g] = Idle => own[g] = Idle
      /\ Pending(g) => own'[g].at = "queued"
  BY <1>1, Shapes DEF Pending
<1>6. Served(g) => Served(g)'
  <2>1. CASE drive[g].in
    <3>1. CASE Pending(g)
      BY <1>1, <1>5, <2>1, <3>1 DEF Served, Pending
    <3>2. CASE ~Pending(g)
      <4>1. own[g].at = "idle" /\ own'[g].at = "idle"
        BY <1>1, <1>5, <3>2, Shapes DEF Pending
      <4>2. listing.resident = listed /\ listing'.resident = listed
        BY <1>1 DEF Mirrored, Hydrated
      <4>3. Served(g) => ~listing.resident \/ rows[g] = drive[g].rev
        BY <1>2, <2>1, <4>1 DEF Served, NoDirty, Will
      <4>4. drive[g].rev # 0
        BY LastType
      <4>5. listed /\ rows[g] # 0 => g \in listing'.files
        BY <1>1 DEF Hydrated
      <4> QED
        BY <1>1, <2>1, <4>1, <4>2, <4>3, <4>4, <4>5 DEF Served, Will
    <3> QED
      BY <3>1, <3>2
  <2>2. CASE ~drive[g].in
    BY <1>1, <2>2 DEF Served, Hydrated
  <2> QED
    BY <2>1, <2>2
<1>7. listed' /\ g \in listing'.files => rows'[g] # 0
  BY <1>1 DEF Hydrated
<1> QED
  BY <1>1, <1>3, <1>4, <1>5, <1>6, <1>7 DEF FileCurrent

(* Unless a gap is noted, every file stays current.                        *)
LEMMA FileNext ==
  ASSUME TypeOK, Logged, Mirrored, Orderly, ReadRight, ListerCurrent,
         gaps = {} => \A f \in Files : FileCurrent(f), [Next]_vars, gaps' = {}
  PROVE  \A f \in Files : FileCurrent(f)'
<1>1. ASSUME gaps = {}, UNCHANGED <<drive, own, dirty, listing, tree, rows, listed>>,
             \A i \in 1 .. Len(log) : log'[i] = log[i], \A f \in Files : Ahead(f) => Ahead(f)'
      PROVE  \A f \in Files : FileCurrent(f)'
  BY <1>1, SameFile
<1>2. CASE OtherDevice
  <2>1. PICK f \in Files, in \in BOOLEAN, kind \in {"updated", "moved", "trashed", "deleted"} :
             Change(f, in, kind, FALSE)
    BY <1>2 DEF OtherDevice
  <2>2. gaps = {} /\ own' = own
        /\ UNCHANGED <<batch, cursor, saved, recent, dirty, listing, tree, rows, listed>>
    BY <1>2 DEF OtherDevice, feedVars, treeVars, ownVars
  <2> QED
    BY <2>1, <2>2, ChangedFile
<1>3. ASSUME UNCHANGED <<drive, batch, cursor, saved, recent>>
      PROVE  \A f \in Files : Ahead(f) => Ahead(f)'
  BY <1>3, AheadKept
<1>4. CASE ContinuityLost
  <2>1. gaps = {} /\ UNCHANGED <<drive, own, dirty, listing, tree, rows, listed, batch, cursor, saved, recent>>
    BY <1>4 DEF ContinuityLost, feedVars, treeVars, ownVars, ghosts
  <2> QED
    BY <1>1, <1>3, <1>4, <2>1, Lost
<1>5. CASE Poll
  <2>1. gaps = {} /\ UNCHANGED <<drive, log, own, dirty, listing, tree, rows, listed>>
    BY <1>5 DEF Poll, driveVars, treeVars, ownVars, Orderly
  <2> QED
    BY <1>1, <1>5, <2>1, AheadPoll
<1>6. CASE SkipRepeat
  <2>1. /\ gaps = {} /\ UNCHANGED <<drive, log, own, dirty, listing, tree, rows, listed>>
        /\ batch # <<>> /\ batch' = Tail(batch) /\ cursor' = Head(batch)
        /\ saved' = saved /\ recent' = recent /\ Head(batch) \in recent
    BY <1>6 DEF SkipRepeat, Repeat, driveVars, treeVars, ownVars, ghosts
  <2>2. \A f \in Files : Ahead(f) => Last(f) # Head(batch)
    BY <2>1 DEF Ahead, Unmet
  <2> QED
    BY <1>1, <2>1, <2>2, AheadAdvance
<1>7. CASE Apply
  <2>1. /\ drive' = drive /\ log' = log /\ batch # <<>> /\ ApplyEvent(log[Head(batch)])
        /\ batch' = Tail(batch) /\ cursor' = Head(batch) /\ saved' = Head(batch)
        /\ recent' = Recorded(Head(batch))
        /\ gaps' = gaps \cup LeftUndone(log[Head(batch)])
    BY <1>7 DEF Apply, Acknowledge, driveVars
  <2>2. gaps = {} /\ LeftUndone(log[Head(batch)]) = {}
    BY <2>1
  <2>3. recent' \subseteq recent \cup {Head(batch)}
    BY <2>1 DEF Recorded
  <2>4. \A f \in Files : Ahead(f) /\ Last(f) # Head(batch) => Ahead(f)'
    BY <2>1, <2>3, AheadAdvance
  <2> QED
    BY <2>1, <2>2, <2>4, AppliedFile
<1>8. CASE AckFails
  <2>1. /\ drive' = drive /\ log' = log /\ batch # <<>> /\ ApplyEvent(log[Head(batch)])
        /\ batch' = <<>> /\ cursor' = cursor /\ saved' = saved
        /\ recent' = Recorded(Head(batch))
        /\ gaps' = gaps \cup LeftUndone(log[Head(batch)]) \cup Gap("reordered", LeftBehind(batch, cursor))
    BY <1>8 DEF AckFails, driveVars
  <2>2. /\ gaps = {} /\ LeftUndone(log[Head(batch)]) = {} /\ ~LeftBehind(batch, cursor)
    BY <2>1 DEF Gap
  <2>3. recent' \subseteq recent \cup {Head(batch)}
    BY <2>1 DEF Recorded
  <2>4. \A f \in Files : Ahead(f) /\ Last(f) # Head(batch) => Last(f) \notin recent'
    BY <2>3 DEF Ahead, Unmet
  <2>5. \A f \in Files : Ahead(f) /\ Last(f) # Head(batch) => Ahead(f)'
    BY <2>1, <2>2, <2>4, AheadGivenUp
  <2> QED
    BY <2>1, <2>2, <2>5, AppliedFile
<1>9. CASE SdkFails
  <2>1. /\ UNCHANGED <<drive, log, own, dirty, listing, tree, rows, listed, cursor, saved>>
        /\ batch' = <<>> /\ recent' = Recorded(Head(batch))
        /\ gaps' = gaps \cup Gap("skipped", log[Head(batch)].kind \in NodeUpdates)
                        \cup Gap("reordered", LeftBehind(batch, cursor))
    BY <1>9 DEF SdkFails, driveVars, ownVars
  <2>2. gaps = {} /\ log[Head(batch)].kind \notin NodeUpdates /\ ~LeftBehind(batch, cursor)
    BY <2>1 DEF Gap
  <2>3. recent' = recent
    BY <2>1, <2>2 DEF Recorded
  <2>4. \A f \in Files : Ahead(f) => Last(f) \notin recent'
    BY <2>3 DEF Ahead, Unmet
  <2>5. \A f \in Files : Ahead(f) => Ahead(f)'
    BY <2>1, <2>2, <2>4, AheadGivenUp
  <2> QED
    BY <1>1, <2>1, <2>2, <2>5
<1>10. CASE Flush
  <2>1. /\ gaps = {} /\ UNCHANGED <<drive, log, own, tree, rows, batch, cursor, saved, recent>>
        /\ dirty' = NoDirty
    BY <1>10 DEF Flush, driveVars, ownVars, ghosts
  <2>2. CASE dirty.foreign \/ ~AccountsFor(dirty.ours)
    <3>1. Drop
      BY <1>10, <2>2 DEF Flush
    <3> QED
      BY <1>3, <2>1, <3>1, DroppedFile
  <2>3. CASE ~dirty.foreign /\ AccountsFor(dirty.ours)
    <3>1. listing' = listing /\ listed' = listed
      BY <1>10, <2>3 DEF Flush, KeepListing
    <3>2. ASSUME NEW f \in Files
          PROVE  FileCurrent(f)'
      <4>1. Served(f) => Served(f)'
        BY <2>1, <2>3, <3>1 DEF Served, Will, AccountsFor
      <4>2. LastMine(f)' = LastMine(f)
        BY <2>1, SameMine
      <4> QED
        BY <1>3, <2>1, <3>1, <4>1, <4>2 DEF FileCurrent, Wanted
    <3> QED
      BY <3>2
  <2> QED
    BY <2>2, <2>3
<1>11. CASE ListAsk
  <2>1. /\ gaps = {}
        /\ UNCHANGED <<drive, log, own, dirty, listing, tree, rows, listed, batch, cursor, saved, recent>>
    BY <1>11 DEF ListAsk, driveVars, feedVars, ownVars, ghosts
  <2> QED
    BY <1>1, <1>3, <2>1
<1>12. CASE ListPublish
  BY <1>12, PublishFile
<1>13. ASSUME NEW f \in Files, Seal(f)
       PROVE  \A g \in Files : FileCurrent(g)'
  <2>1. /\ gaps = {}
        /\ own' = [own EXCEPT ![f] = [at |-> "sealed", rev |-> NextRev]]
        /\ UNCHANGED <<batch, cursor, saved, recent, dirty, listing, tree, rows, listed>>
    BY <1>13 DEF Seal, feedVars, treeVars, ghosts
  <2>2. own'[f] # Idle /\ \A g \in Files \ {f} : own'[g] = own[g]
    BY <2>1, Shapes DEF TypeOK
  <2>3. PICK in \in BOOLEAN, kind \in {"updated", "moved"} : Change(f, in, kind, TRUE)
    BY <1>13, SealChanges
  <2> QED
    BY <2>1, <2>2, <2>3, ChangedFile
<1>14. ASSUME NEW f \in Files, Queue(f) \/ Divert(f) \/ ReadBack(f) \/ Place(f) \/ Expire(f)
       PROVE  \A g \in Files : FileCurrent(g)'
  <2>1. gaps = {}
    BY <1>14 DEF Queue, Divert, ReadBack, Place, Expire, ghosts
  <2> QED
    BY <1>14, <2>1, DrainFile
<1>15. CASE Crash
  <2>1. gaps = {}
    BY <1>15 DEF Crash
  <2> QED
    BY <1>15, <2>1, CrashFile
<1>16. CASE UNCHANGED vars
  <2>1. /\ gaps = {}
        /\ UNCHANGED <<drive, log, own, dirty, listing, tree, rows, listed, batch, cursor, saved, recent>>
    BY <1>16 DEF vars, driveVars, feedVars, treeVars, ownVars, ghosts
  <2> QED
    BY <1>1, <1>3, <2>1
<1> QED
  BY <1>2, <1>4, <1>5, <1>6, <1>7, <1>8, <1>9, <1>10, <1>11, <1>12, <1>13, <1>14, <1>15, <1>16
     DEF Next, EventTask, Listing, Drain

(***************************************************************************)
(* Echoes                                                                  *)
(***************************************************************************)
LEMMA OwedFinite ==
  ASSUME TypeOK, NEW f \in Files
  PROVE  IsFiniteSet(Owed(f)) /\ Cardinality(Owed(f)) \in Nat
<1>1. Owed(f) \subseteq 1 .. Len(log) /\ IsFiniteSet(1 .. Len(log))
  BY BatchType, FS_Interval DEF Owed
<1> QED
  BY <1>1, FS_Subset, FS_CardinalityType

LEMMA OwedShrinks ==
  ASSUME TypeOK, NEW f \in Files, Owed(f)' \subseteq Owed(f)
  PROVE  Cardinality(Owed(f)') <= Cardinality(Owed(f)) /\ Cardinality(Owed(f)') \in Nat
BY OwedFinite, FS_Subset, FS_CardinalityType

(* The next event of the batch is met.                                     *)
LEMMA AdvanceFollowed ==
  ASSUME TypeOK, Orderly, Followed, batch # <<>>, batch' = Tail(batch), cursor' = Head(batch),
         saved' = saved \/ saved' = Head(batch), log' = log, recent \subseteq recent',
         log[Head(batch)].kind = "updated" => Head(batch) \in recent'
  PROVE  /\ Followed'
         /\ \A id \in 1 .. Len(log) :
               log[id].kind = "updated" /\ id \notin recent' /\ (InBatch(id)' \/ id > cursor')
                  => InBatch(id) \/ id > cursor
<1> DEFINE h == Head(batch)
<1>1. /\ Len(batch) \in Nat /\ Len(batch) >= 1 /\ h = batch[1] /\ 1 \in 1 .. Len(batch)
      /\ Len(batch') = Len(batch) - 1
      /\ \A i \in 1 .. Len(batch) - 1 : batch'[i] = batch[i + 1]
  BY Front
<1>2. h \in Int /\ cursor \in Int /\ saved \in Int /\ Len(log) \in Nat /\ cursor <= h + 1
  BY <1>1, BatchType DEF Orderly
<1> HIDE DEF h
<1>3. ASSUME NEW id
      PROVE  InBatch(id) /\ id # h <=> InBatch(id)' /\ id # h
  <2>1. ASSUME InBatch(id), id # h
        PROVE  InBatch(id)'
    <3>1. PICK i \in 1 .. Len(batch) : batch[i] = id
      BY <2>1 DEF InBatch
    <3>2. i # 1
      BY <1>1, <2>1, <3>1
    <3>3. i - 1 \in 1 .. Len(batch') /\ batch'[i - 1] = id
      BY <1>1, <3>1, <3>2
    <3> QED
      BY <3>3 DEF InBatch
  <2>2. ASSUME InBatch(id)'
        PROVE  InBatch(id)
    <3>1. PICK i \in 1 .. Len(batch') : batch'[i] = id
      BY <2>2 DEF InBatch
    <3>2. i + 1 \in 1 .. Len(batch) /\ batch[i + 1] = id
      BY <1>1, <3>1
    <3> QED
      BY <3>2 DEF InBatch
  <2> QED
    BY <2>1, <2>2
<1>4. ASSUME NEW id \in 1 .. Len(log), log[id].kind = "updated", id \notin recent'
      PROVE  /\ id # h
             /\ saved < id /\ id <= cursor => InBatch(id)
             /\ cursor < id /\ id < h => InBatch(id)
             /\ ~(h < id /\ id <= cursor)
             /\ \A i \in 1 .. Len(batch) : cursor < id /\ id < batch[i] => InBatch(id)
  <2>1. id # h /\ id \notin recent
    BY <1>4 DEF h
  <2>2. /\ saved < id /\ id <= cursor => InBatch(id)
        /\ \A i \in 1 .. Len(batch) : /\ cursor < id /\ id < batch[i] => InBatch(id)
                                      /\ id = cursor => cursor <= batch[i]
    BY <1>4, <2>1 DEF Followed
  <2>3. id = cursor => cursor <= h
    BY <1>1, <2>2
  <2>4. ~(h < id /\ id <= cursor)
    BY <1>2, <2>3
  <2> QED
    BY <1>1, <2>1, <2>2, <2>4
<1>5. ASSUME NEW id \in 1 .. Len(log), log[id].kind = "updated", id \notin recent'
      PROVE  /\ saved' < id /\ id <= cursor' => InBatch(id)'
             /\ \A i \in 1 .. Len(batch') : /\ cursor' < id /\ id < batch'[i] => InBatch(id)'
                                            /\ id = cursor' => cursor' <= batch'[i]
             /\ InBatch(id)' \/ id > cursor' => InBatch(id) \/ id > cursor
  <2>1. id # h /\ cursor' = h /\ (InBatch(id) <=> InBatch(id)')
    BY <1>3, <1>4, <1>5 DEF h
  <2>2. saved' < id /\ id <= cursor' => InBatch(id)'
    <3>1. saved' = saved \/ saved' = h
      BY DEF h
    <3>2. ASSUME saved < id, id <= h
          PROVE  InBatch(id)
      BY <1>2, <1>4, <1>5, <2>1, <3>2
    <3>3. saved' = h => ~(saved' < id /\ id <= cursor')
      BY <1>2, <2>1
    <3> QED
      BY <2>1, <3>1, <3>2, <3>3
  <2>3. ASSUME NEW i \in 1 .. Len(batch'), cursor' < id, id < batch'[i]
        PROVE  InBatch(id)'
    <3>1. i + 1 \in 1 .. Len(batch) /\ batch'[i] = batch[i + 1]
      BY <1>1
    <3>2. cursor < id
      BY <1>2, <1>4, <1>5, <2>1, <2>3
    <3> QED
      BY <1>4, <1>5, <2>1, <2>3, <3>1, <3>2
  <2>4. id > cursor' => id > cursor
    BY <1>2, <1>4, <1>5, <2>1
  <2> QED
    BY <2>1, <2>2, <2>3, <2>4
<1>6. Followed'
  BY <1>5 DEF Followed
<1> QED
  BY <1>5, <1>6

LEMMA GivenUpFollowed ==
  ASSUME TypeOK, Orderly, Followed, batch # <<>>, batch' = <<>>, UNCHANGED <<cursor, saved, log>>,
         recent' = Recorded(Head(batch))
  PROVE  Followed'
<1> SUFFICES ASSUME NEW id \in 1 .. Len(log), log[id].kind = "updated", id \notin recent',
                    saved < id, id <= cursor
             PROVE  FALSE
  BY DEF Followed
<1>1. id \notin recent /\ id # Head(batch)
  BY DEF Recorded, NodeUpdates
<1>2. InBatch(id)
  BY <1>1 DEF Followed
<1>3. PICK i \in 1 .. Len(batch) : batch[i] = id
  BY <1>2 DEF InBatch
<1>4. i > 1
  BY <1>1, <1>3, Front
<1>5. cursor < batch[i]
  BY <1>4 DEF Orderly
<1> QED
  BY <1>3, <1>5, BatchType

LEMMA FollowedNext ==
  ASSUME TypeOK, Orderly, Followed, [Next]_vars
  PROVE  Followed'
<1>1. CASE UNCHANGED <<log, batch, recent, saved, cursor>>
  BY <1>1 DEF Followed, InBatch
<1>2. ASSUME UNCHANGED <<batch, recent, saved, cursor>>, Len(log') = Len(log) + 1,
             \A i \in 1 .. Len(log) : log'[i] = log[i]
      PROVE  Followed'
  <2> SUFFICES ASSUME NEW id \in 1 .. Len(log'), log'[id].kind = "updated", id \notin recent
               PROVE  /\ saved < id /\ id <= cursor => InBatch(id)
                      /\ \A i \in 1 .. Len(batch) : /\ cursor < id /\ id < batch[i] => InBatch(id)
                                                    /\ id = cursor => cursor <= batch[i]
    BY <1>2 DEF Followed, InBatch
  <2>1. CASE id \in 1 .. Len(log)
    BY <1>2, <2>1 DEF Followed
  <2>2. CASE id = Len(log) + 1
    <3>1. ~(id <= cursor) /\ id # cursor /\ \A i \in 1 .. Len(batch) : ~(id < batch[i])
      BY <2>2, BatchType
    <3> QED
      BY <3>1
  <2> QED
    BY <1>2, <2>1, <2>2, BatchType
<1>3. CASE OtherDevice
  <2>1. PICK f \in Files, in \in BOOLEAN, kind \in {"updated", "moved", "trashed", "deleted"} :
             Change(f, in, kind, FALSE)
    BY <1>3 DEF OtherDevice
  <2> QED
    BY <1>2, <1>3, <2>1, Changed DEF OtherDevice, feedVars
<1>4. CASE ContinuityLost
  BY <1>2, <1>4, Lost DEF ContinuityLost, feedVars
<1>5. CASE Poll
  <2>1. PICK k \in cursor + 1 .. Len(log) : Spans(batch', k)
    BY <1>5, Polled
  <2>2. UNCHANGED <<log, recent, saved, cursor>> /\ batch = <<>>
    BY <1>5 DEF Poll, driveVars, Orderly
  <2>3. ASSUME NEW i \in 1 .. Len(batch')
        PROVE  /\ cursor < batch'[i] /\ batch'[i] <= k /\ cursor <= batch'[i]
               /\ batch'[i] \in Int
    <3>1. cursor + 1 <= batch'[i] /\ batch'[i] <= k /\ batch'[i] \in 1 .. Len(log)
      BY <2>1 DEF Spans
    <3> QED
      BY <3>1, BatchType
  <2>4. ASSUME NEW id \in 1 .. Len(log), cursor < id, NEW i \in 1 .. Len(batch'), id < batch'[i]
        PROVE  InBatch(id)'
    <3>1. id \in cursor + 1 .. k
      BY <2>3, <2>4, BatchType
    <3> QED
      BY <2>1, <3>1 DEF Spans, InBatch
  <2>5. ASSUME NEW id \in 1 .. Len(log), log[id].kind = "updated", id \notin recent
        PROVE  ~(saved < id /\ id <= cursor)
    BY <2>2, <2>5 DEF Followed, InBatch
  <2> QED
    BY <2>2, <2>3, <2>4, <2>5 DEF Followed
<1>6. CASE SkipRepeat
  <2>1. /\ log' = log /\ batch # <<>> /\ batch' = Tail(batch) /\ cursor' = Head(batch)
        /\ saved' = saved /\ recent' = recent /\ Head(batch) \in recent
    BY <1>6 DEF SkipRepeat, Repeat, driveVars
  <2> QED
    BY <2>1, AdvanceFollowed
<1>7. CASE Apply
  <2>1. /\ log' = log /\ batch # <<>> /\ batch' = Tail(batch) /\ cursor' = Head(batch)
        /\ saved' = Head(batch) /\ recent' = Recorded(Head(batch))
    BY <1>7 DEF Apply, Acknowledge, driveVars
  <2>2. recent \subseteq recent' /\ (log[Head(batch)].kind = "updated" => Head(batch) \in recent')
    BY <2>1 DEF Recorded, NodeUpdates
  <2> QED
    BY <2>1, <2>2, AdvanceFollowed
<1>8. CASE AckFails \/ SdkFails
  <2>1. /\ batch # <<>> /\ batch' = <<>> /\ recent' = Recorded(Head(batch))
        /\ UNCHANGED <<log, cursor, saved>>
    BY <1>8 DEF AckFails, SdkFails, driveVars
  <2> QED
    BY <2>1, GivenUpFollowed
<1>9. CASE Flush \/ Listing
  BY <1>1, <1>9 DEF Flush, Listing, ListAsk, ListPublish, driveVars, feedVars
<1>10. ASSUME NEW f \in Files, Queue(f) \/ Divert(f) \/ ReadBack(f) \/ Place(f) \/ Expire(f)
       PROVE  Followed'
  BY <1>1, <1>10 DEF Queue, Divert, ReadBack, Place, Expire, driveVars, feedVars
<1>11. ASSUME NEW f \in Files, Seal(f)
       PROVE  Followed'
  <2>1. Len(log') = Len(log) + 1 /\ \A i \in 1 .. Len(log) : log'[i] = log[i]
    BY <1>11, SealChanges, Changed
  <2> QED
    BY <1>2, <1>11, <2>1 DEF Seal, feedVars
<1>12. CASE Crash
  <2>1. batch' = <<>> /\ cursor' = saved /\ saved' = saved
    BY <1>12 DEF Crash
  <2>2. \A id \in 1 .. Len(log') : ~(saved' < id /\ id <= cursor')
    BY <1>12, <2>1, BatchType DEF Crash, driveVars
  <2> QED
    BY <2>1, <2>2 DEF Followed
<1>13. CASE UNCHANGED vars
  BY <1>1, <1>13 DEF vars, driveVars, feedVars
<1> QED
  BY <1>3, <1>4, <1>5, <1>6, <1>7, <1>8, <1>9, <1>10, <1>11, <1>12, <1>13
     DEF Next, EventTask, Drain

LEMMA EchoedKept ==
  ASSUME TypeOK, NEW f \in Files, Echoed(f), Owed(f)' \subseteq Owed(f), echoes'[f] = echoes[f],
         own'[f] = own[f], drive'[f] = drive[f]
  PROVE  Echoed(f)'
<1>1. Cardinality(Owed(f)') <= Cardinality(Owed(f)) /\ Cardinality(Owed(f)') \in Nat
      /\ Cardinality(Owed(f)) \in Nat
  BY OwedShrinks, OwedFinite
<1>2. Uploading(f)' = Uploading(f) /\ Uploading(f) \in Nat /\ echoes[f] \in Nat
  BY DEF Uploading, TypeOK
<1> QED
  BY <1>1, <1>2 DEF Echoed

(* An event is applied, and with it the echo of a change of ours.          *)
LEMMA AppliedEchoed ==
  ASSUME TypeOK, Logged, EchoesExpected, drive' = drive, log' = log, foreign' = foreign,
         batch # <<>>, ApplyEvent(log[Head(batch)]), ~Repeat(Head(batch)),
         recent' = Recorded(Head(batch)),
         \A id \in 1 .. Len(log) :
            log[id].kind = "updated" /\ id \notin recent' /\ (InBatch(id)' \/ id > cursor')
               => InBatch(id) \/ id > cursor
  PROVE  EchoesExpected'
<1> DEFINE h == Head(batch)
           e == log[h]
<1>1. h \in 1 .. Len(log) /\ e \in Event /\ own' = own
  BY Front DEF ApplyEvent
<1>2. ASSUME NEW f \in Files
      PROVE  /\ Owed(f)' \subseteq Owed(f)
             /\ e.kind = "updated" /\ e.file = f => h \in Owed(f) /\ h \notin Owed(f)'
  <2>1. Owed(f)' \subseteq Owed(f)
    BY DEF Owed, Recorded
  <2>2. ASSUME e.kind = "updated", e.file = f
        PROVE  h \in Owed(f) /\ h \notin Owed(f)'
    <3>1. h \notin recent /\ h \in recent'
      BY <2>2 DEF Repeat, Recorded, NodeUpdates
    <3>2. InBatch(h)
      BY Front DEF InBatch
    <3> QED
      BY <1>1, <2>2, <3>1, <3>2 DEF Owed
  <2> QED
    BY <2>1, <2>2
<1>3. ASSUME NEW f \in Files \ foreign
      PROVE  Echoed(f)'
  <2>1. Echoed(f)
    BY DEF EchoesExpected
  <2>2. echoes \in [Files -> Nat]
    BY DEF TypeOK
  <2>3. CASE ~(e.kind = "updated" /\ e.file = f)
    <3>1. echoes'[f] = echoes[f]
      <4>1. CASE e.kind \in {"updated", "moved", "trashed"}
        <5>1. e.file # f
          BY <1>1, <1>3, <2>3, <4>1 DEF Logged, EchoesExpected
        <5>2. echoes' = Claimed(e.file)
          BY <4>1 DEF ApplyEvent, ApplyUpdate, ApplyTrash, ApplyDelete, ApplyLost
        <5> QED
          BY <2>2, <5>1, <5>2 DEF Claimed
      <4>2. CASE e.kind \notin {"updated", "moved", "trashed"}
        BY <4>2 DEF ApplyEvent, ApplyUpdate, ApplyTrash, ApplyDelete, ApplyLost
      <4> QED
        BY <4>1, <4>2
    <3> QED
      BY <1>1, <1>2, <2>1, <3>1, EchoedKept
  <2>4. CASE e.kind = "updated" /\ e.file = f
    <3>1. echoes'[f] = IF echoes[f] > 0 THEN echoes[f] - 1 ELSE 0
      <4>1. echoes' = Claimed(f)
        BY <2>4 DEF ApplyEvent, ApplyUpdate, ApplyTrash, ApplyDelete, ApplyLost
      <4> QED
        BY <2>2, <4>1 DEF Claimed
    <3>2. h \in Owed(f) /\ Owed(f)' \subseteq Owed(f) \ {h}
      BY <1>2, <2>4
    <3>3. /\ Cardinality(Owed(f)') <= Cardinality(Owed(f)) - 1
          /\ Cardinality(Owed(f)') \in Nat /\ Cardinality(Owed(f)) \in Nat
      <4>1. IsFiniteSet(Owed(f)) /\ Cardinality(Owed(f)) \in Nat
        BY OwedFinite
      <4>2. IsFiniteSet(Owed(f) \ {h}) /\ Cardinality(Owed(f) \ {h}) = Cardinality(Owed(f)) - 1
        BY <3>2, <4>1, FS_RemoveElement
      <4>3. /\ Cardinality(Owed(f)') <= Cardinality(Owed(f) \ {h})
            /\ IsFiniteSet(Owed(f)')
        BY <3>2, <4>2, FS_Subset
      <4> QED
        BY <4>1, <4>2, <4>3, FS_CardinalityType
    <3>4. Uploading(f)' = Uploading(f) /\ Uploading(f) \in {0, 1} /\ echoes[f] \in Nat
      BY <1>1, <2>2 DEF Uploading
    <3>5. Cardinality(Owed(f)) <= echoes[f] + Uploading(f)
      BY <2>1 DEF Echoed
    <3>6. Cardinality(Owed(f)') <= echoes'[f] + Uploading(f)'
      BY <3>1, <3>3, <3>4, <3>5
    <3> QED
      BY <1>1, <2>1, <3>6 DEF Echoed
  <2> QED
    BY <2>3, <2>4
<1> QED
  BY <1>3 DEF EchoesExpected

LEMMA EchoesNext ==
  ASSUME TypeOK, Logged, Orderly, Followed, EchoesExpected, [Next]_vars
  PROVE  EchoesExpected'
<1>1. ASSUME foreign \subseteq foreign', log' = log,
             \A f \in Files \ foreign' : Echoed(f) => Echoed(f)'
      PROVE  EchoesExpected'
  BY <1>1 DEF EchoesExpected
<1>2. ASSUME UNCHANGED <<log, batch, recent, cursor>>, NEW f \in Files
      PROVE  Owed(f)' = Owed(f)
  BY <1>2 DEF Owed, InBatch
<1>3. ASSUME foreign' = foreign,  UNCHANGED <<drive, log, batch, recent, cursor, echoes, own>>
      PROVE  EchoesExpected'
  BY <1>1, <1>2, <1>3, EchoedKept
<1>4. ASSUME UNCHANGED <<batch, recent, cursor>>, Len(log') = Len(log) + 1,
             \A i \in 1 .. Len(log) : log'[i] = log[i], NEW f \in Files
      PROVE  /\ Owed(f)' \subseteq Owed(f) \cup {Len(log) + 1}
             /\ log'[Len(log) + 1].kind = "updated" => log'[Len(log) + 1].file = f
                \/ Owed(f)' \subseteq Owed(f)
             /\ log'[Len(log) + 1].kind # "updated" => Owed(f)' \subseteq Owed(f)
  <2>1. \A i \in 1 .. Len(log') : i = Len(log) + 1 \/ i \in 1 .. Len(log)
    BY <1>4, BatchType
  <2> QED
    BY <1>4, <2>1 DEF Owed, InBatch
<1>5. CASE OtherDevice
  <2>1. PICK f \in Files, in \in BOOLEAN, kind \in {"updated", "moved", "trashed", "deleted"} :
             Change(f, in, kind, FALSE) /\ foreign' = foreign \cup {f}
    BY <1>5 DEF OtherDevice
  <2>2. /\ Len(log') = Len(log) + 1
        /\ \A i \in 1 .. Len(log) : log'[i] = log[i]
        /\ log'[Len(log) + 1].kind = kind /\ log'[Len(log) + 1].file = f
        /\ \A g \in Files \ {f} : drive'[g] = drive[g]
    <3>1. \E mine \in BOOLEAN : Change(f, in, kind, mine)
      BY <2>1
    <3> QED
      BY <3>1, Changed
  <2>3. UNCHANGED <<batch, recent, cursor, echoes, own>>
    BY <1>5 DEF OtherDevice, feedVars, ownVars
  <2>4. ASSUME NEW g \in Files \ foreign'
        PROVE  Echoed(g)'
    <3>1. g # f /\ g \in Files \ foreign
      BY <2>1, <2>4
    <3>2. Owed(g)' \subseteq Owed(g)
      BY <1>4, <2>2, <2>3, <3>1
    <3> QED
      BY <2>2, <2>3, <3>1, <3>2, EchoedKept DEF EchoesExpected
  <2>5. \A i \in 1 .. Len(log') :
           log'[i].kind = "moved" \/ (log'[i].kind # "lost" /\ ~log'[i].mine) => log'[i].file \in foreign'
    <3>1. \A i \in 1 .. Len(log') : i = Len(log) + 1 \/ i \in 1 .. Len(log)
      BY <2>2, BatchType
    <3> QED
      BY <2>1, <2>2, <3>1 DEF EchoesExpected
  <2> QED
    BY <2>4, <2>5 DEF EchoesExpected
<1>6. CASE ContinuityLost
  <2>1. /\ Len(log') = Len(log) + 1 /\ log'[Len(log) + 1].kind = "lost"
        /\ \A i \in 1 .. Len(log) : log'[i] = log[i]
    BY <1>6, Lost
  <2>2. UNCHANGED <<drive, batch, recent, cursor, echoes, own, foreign>>
    BY <1>6 DEF ContinuityLost, feedVars, ownVars, ghosts
  <2>3. ASSUME NEW g \in Files \ foreign
        PROVE  Echoed(g)'
    <3>1. Owed(g)' \subseteq Owed(g)
      BY <1>4, <2>1, <2>2
    <3> QED
      BY <2>2, <3>1, EchoedKept DEF EchoesExpected
  <2>4. \A i \in 1 .. Len(log') :
           log'[i].kind = "moved" \/ (log'[i].kind # "lost" /\ ~log'[i].mine) => log'[i].file \in foreign'
    <3>1. \A i \in 1 .. Len(log') : i = Len(log) + 1 \/ i \in 1 .. Len(log)
      BY <2>1, BatchType
    <3> QED
      BY <2>1, <2>2, <3>1 DEF EchoesExpected
  <2> QED
    BY <2>2, <2>3, <2>4 DEF EchoesExpected
<1>7. CASE Poll
  <2>1. PICK k \in cursor + 1 .. Len(log) : Spans(batch', k)
    BY <1>7, Polled
  <2>2. UNCHANGED <<drive, log, recent, cursor, echoes, own, foreign>>
    BY <1>7 DEF Poll, driveVars, ownVars
  <2>3. \A i \in 1 .. Len(batch') : batch'[i] > cursor
    <3>1. \A i \in 1 .. Len(batch') : cursor + 1 <= batch'[i] /\ batch'[i] \in 1 .. Len(log)
      BY <2>1 DEF Spans
    <3> QED
      BY <3>1, BatchType
  <2>4. \A f \in Files : Owed(f)' \subseteq Owed(f)
    BY <2>2, <2>3 DEF Owed, InBatch
  <2> QED
    BY <1>1, <2>2, <2>4, EchoedKept
<1>8. CASE SkipRepeat
  <2>1. /\ batch # <<>> /\ batch' = Tail(batch) /\ cursor' = Head(batch)
        /\ saved' = saved /\ recent' = recent /\ Head(batch) \in recent
        /\ UNCHANGED <<drive, log, echoes, own, foreign>>
    BY <1>8 DEF SkipRepeat, Repeat, driveVars, ownVars, ghosts
  <2>2. \A id \in 1 .. Len(log) :
           log[id].kind = "updated" /\ id \notin recent' /\ (InBatch(id)' \/ id > cursor')
              => InBatch(id) \/ id > cursor
    BY <2>1, AdvanceFollowed
  <2>3. \A f \in Files : Owed(f)' \subseteq Owed(f)
    BY <2>1, <2>2 DEF Owed
  <2> QED
    BY <1>1, <2>1, <2>3, EchoedKept
<1>9. CASE Apply
  <2>1. /\ batch # <<>> /\ batch' = Tail(batch) /\ cursor' = Head(batch)
        /\ saved' = Head(batch) /\ recent' = Recorded(Head(batch))
        /\ ApplyEvent(log[Head(batch)]) /\ ~Repeat(Head(batch))
        /\ UNCHANGED <<drive, log, foreign>>
    BY <1>9 DEF Apply, Acknowledge, driveVars
  <2>2. recent \subseteq recent' /\ (log[Head(batch)].kind = "updated" => Head(batch) \in recent')
    BY <2>1 DEF Recorded, NodeUpdates
  <2>3. \A id \in 1 .. Len(log) :
           log[id].kind = "updated" /\ id \notin recent' /\ (InBatch(id)' \/ id > cursor')
              => InBatch(id) \/ id > cursor
    BY <2>1, <2>2, AdvanceFollowed
  <2> QED
    BY <2>1, <2>3, AppliedEchoed
<1>10. CASE AckFails
  <2>1. /\ batch # <<>> /\ batch' = <<>> /\ cursor' = cursor /\ recent' = Recorded(Head(batch))
        /\ ApplyEvent(log[Head(batch)]) /\ ~Repeat(Head(batch))
        /\ UNCHANGED <<drive, log, foreign>>
    BY <1>10 DEF AckFails, driveVars
  <2>2. \A id \in 1 .. Len(log) : InBatch(id)' \/ id > cursor' => InBatch(id) \/ id > cursor
    BY <2>1 DEF InBatch
  <2> QED
    BY <2>1, <2>2, AppliedEchoed
<1>11. CASE SdkFails
  <2>1. /\ batch' = <<>> /\ cursor' = cursor /\ recent' = Recorded(Head(batch))
        /\ UNCHANGED <<drive, log, echoes, own, foreign>>
    BY <1>11 DEF SdkFails, driveVars, ownVars
  <2>2. \A f \in Files : Owed(f)' \subseteq Owed(f)
    BY <2>1 DEF Owed, InBatch, Recorded
  <2> QED
    BY <1>1, <2>1, <2>2, EchoedKept
<1>12. CASE Flush \/ Listing
  BY <1>3, <1>12 DEF Flush, Listing, ListAsk, ListPublish, driveVars, feedVars, ownVars, ghosts
<1>13. ASSUME NEW f \in Files, Queue(f) \/ Divert(f) \/ ReadBack(f) \/ Place(f) \/ Expire(f)
       PROVE  EchoesExpected'
  <2>1. UNCHANGED <<drive, log, batch, recent, cursor>>
    BY <1>13 DEF Queue, Divert, ReadBack, Place, Expire, driveVars, feedVars
  <2>2. foreign \subseteq foreign'
    BY <1>13 DEF Queue, Divert, ReadBack, Place, Expire, ghosts
  <2>3. own \in [Files -> OwnStates] /\ echoes \in [Files -> Nat]
    BY DEF TypeOK
  <2>4. ASSUME NEW g \in Files \ {f}
        PROVE  own'[g] = own[g] /\ echoes'[g] = echoes[g]
    BY <1>13, <2>3, <2>4 DEF Queue, Divert, ReadBack, Place, Expire
  <2>5. ASSUME f \notin foreign', Echoed(f)
        PROVE  Echoed(f)'
    <3>1. Queue(f) \/ ReadBack(f) \/ Place(f)
      BY <1>13, <2>5 DEF Divert, Expire
    <3>2. Owed(f)' = Owed(f) /\ Cardinality(Owed(f)) \in Nat
      BY <1>2, <2>1, OwedFinite
    <3>3. CASE Queue(f) \/ Place(f)
      <4>1. own[f].at # "sealed" /\ own'[f].at # "sealed" /\ echoes' = echoes
        BY <2>3, <3>3, Shapes DEF Queue, Place
      <4> QED
        BY <2>5, <3>2, <4>1 DEF Echoed, Uploading
    <3>4. CASE ReadBack(f)
      <4>1. own[f].at = "sealed" /\ drive[f].in
        BY <2>5, <3>4 DEF ReadBack, Echoed
      <4>2. own'[f].at = "read" /\ echoes'[f] = echoes[f] + 1
        BY <2>3, <3>4, <4>1 DEF ReadBack, Exists
      <4>3. Uploading(f) = 1 /\ Uploading(f)' = 0 /\ echoes[f] \in Nat
        BY <2>3, <4>1, <4>2 DEF Uploading
      <4> QED
        BY <2>5, <3>2, <4>2, <4>3 DEF Echoed
    <3> QED
      BY <3>1, <3>3, <3>4
  <2>6. ASSUME NEW g \in Files \ foreign', Echoed(g)
        PROVE  Echoed(g)'
    <3>1. CASE g = f
      BY <2>5, <2>6, <3>1
    <3>2. CASE g # f
      BY <1>2, <2>1, <2>4, <2>6, <3>2, EchoedKept
    <3> QED
      BY <3>1, <3>2
  <2> QED
    BY <1>1, <2>1, <2>2, <2>6
<1>14. ASSUME NEW f \in Files, Seal(f)
       PROVE  EchoesExpected'
  <2>0. PICK in \in BOOLEAN, kind \in {"updated", "moved"} :
            /\ Change(f, in, kind, TRUE) /\ (in <=> kind = "updated")
            /\ kind = "moved" => Elsewhere(f)
    BY <1>14, SealChanges
  <2>1. /\ own[f].at = "queued" /\ own' = [own EXCEPT ![f] = [at |-> "sealed", rev |-> NextRev]]
        /\ UNCHANGED <<batch, recent, cursor, echoes, foreign>>
    BY <1>14 DEF Seal, feedVars, ghosts
  <2>2. /\ Len(log') = Len(log) + 1
        /\ \A i \in 1 .. Len(log) : log'[i] = log[i]
        /\ log'[Len(log) + 1].kind = kind /\ log'[Len(log) + 1].file = f
        /\ log'[Len(log) + 1].mine = TRUE /\ drive'[f].in = in
        /\ \A g \in Files \ {f} : drive'[g] = drive[g]
    BY <2>0, Changed
  <2>7. kind = "moved" => f \in foreign
    <3>1. Elsewhere(f) => Last(f) \in 1 .. Len(log) /\ log[Last(f)].file = f /\ log[Last(f)].kind = "moved"
      BY BatchType DEF Elsewhere, Logged
    <3> QED
      BY <2>0, <3>1 DEF EchoesExpected
  <2>3. own'[f].at = "sealed" /\ \A g \in Files \ {f} : own'[g] = own[g]
    BY <2>1 DEF TypeOK
  <2>4. ASSUME f \notin foreign
        PROVE  Echoed(f)'
    <3>1. Owed(f)' \subseteq Owed(f) \cup {Len(log) + 1}
      BY <1>4, <2>1, <2>2
    <3>2. IsFiniteSet(Owed(f)) /\ Cardinality(Owed(f)) \in Nat
      BY OwedFinite
    <3>3. /\ IsFiniteSet(Owed(f) \cup {Len(log) + 1})
          /\ Cardinality(Owed(f) \cup {Len(log) + 1}) <= Cardinality(Owed(f)) + 1
          /\ Cardinality(Owed(f) \cup {Len(log) + 1}) \in Nat
      <4>1. /\ IsFiniteSet(Owed(f) \cup {Len(log) + 1})
            /\ Cardinality(Owed(f) \cup {Len(log) + 1})
                  = IF Len(log) + 1 \in Owed(f) THEN Cardinality(Owed(f)) ELSE Cardinality(Owed(f)) + 1
        BY <3>2, FS_AddElement
      <4>2. Cardinality(Owed(f) \cup {Len(log) + 1}) \in Nat
        BY <4>1, FS_CardinalityType
      <4> QED
        BY <3>2, <4>1, <4>2
    <3>4. /\ Cardinality(Owed(f)') <= Cardinality(Owed(f) \cup {Len(log) + 1})
          /\ Cardinality(Owed(f)') \in Nat
      BY <3>1, <3>3, FS_Subset, FS_CardinalityType
    <3>5. Cardinality(Owed(f)) <= echoes[f] + Uploading(f)
      BY <2>4 DEF EchoesExpected, Echoed
    <3>6. Uploading(f) = 0 /\ Uploading(f)' = 1 /\ echoes'[f] = echoes[f] /\ echoes[f] \in Nat
      BY <2>1, <2>3 DEF Uploading, TypeOK
    <3>7. Cardinality(Owed(f)') <= echoes'[f] + Uploading(f)'
      BY <3>2, <3>3, <3>4, <3>5, <3>6
    <3> QED
      BY <2>0, <2>2, <2>4, <2>7, <3>7 DEF Echoed
  <2>5. ASSUME NEW g \in Files \ foreign
        PROVE  Echoed(g)'
    <3>1. CASE g = f
      BY <2>4, <2>5, <3>1
    <3>2. CASE g # f
      <4>1. Owed(g)' \subseteq Owed(g)
        BY <1>4, <2>1, <2>2, <3>2
      <4> QED
        BY <2>1, <2>2, <2>3, <2>5, <3>2, <4>1, EchoedKept DEF EchoesExpected
    <3> QED
      BY <3>1, <3>2
  <2>6. \A i \in 1 .. Len(log') :
           log'[i].kind = "moved" \/ (log'[i].kind # "lost" /\ ~log'[i].mine) => log'[i].file \in foreign'
    <3>1. \A i \in 1 .. Len(log') : i = Len(log) + 1 \/ i \in 1 .. Len(log)
      BY <2>2, BatchType
    <3> QED
      BY <2>1, <2>2, <2>7, <3>1 DEF EchoesExpected
  <2> QED
    BY <2>1, <2>5, <2>6 DEF EchoesExpected
<1>15. CASE Crash
  <2>1. /\ log' = log /\ drive' = drive /\ batch' = <<>> /\ recent' = {} /\ cursor' = saved
        /\ echoes' = [f \in Files |-> 0]
        /\ own' = [f \in Files |-> IF Pending(f) THEN [at |-> "queued"] ELSE Idle]
        /\ foreign' = foreign \cup {f \in Files : own[f].at \in {"sealed", "read"} \/ echoes[f] > 0}
                              \cup {log[id].file : id \in {i \in recent : i > saved}}
    BY <1>15 DEF Crash, driveVars
  <2>2. ASSUME NEW f \in Files \ foreign', Echoed(f)
        PROVE  Echoed(f)'
    <3>1. own[f].at # "sealed" /\ echoes[f] = 0 /\ \A i \in recent : i > saved => log[i].file # f
      BY <2>1, <2>2 DEF TypeOK
    <3>2. Cardinality(Owed(f)) = 0
      BY <2>2, <3>1, OwedFinite DEF Echoed, Uploading
    <3>3. Owed(f) = {}
      BY <3>2, OwedFinite, FS_EmptySet
    <3>4. Owed(f)' = {}
      <4>1. SUFFICES ASSUME NEW id \in 1 .. Len(log), id > saved, log[id].kind = "updated",
                            log[id].file = f
                     PROVE  FALSE
        BY <2>1 DEF Owed, InBatch
      <4>2. id \notin recent
        BY <3>1, <4>1
      <4>3. ~InBatch(id) /\ ~(id > cursor)
        BY <3>3, <4>1, <4>2 DEF Owed
      <4> QED
        BY <4>1, <4>2, <4>3, BatchType DEF Followed
    <3>5. Cardinality(Owed(f)') = 0
      BY <3>4, FS_EmptySet
    <3>6. own'[f].at # "sealed" /\ echoes'[f] = 0
      BY <2>1, Shapes
    <3> QED
      BY <3>5, <3>6 DEF Echoed, Uploading
  <2> QED
    BY <1>1, <2>1, <2>2
<1>16. CASE UNCHANGED vars
  BY <1>3, <1>16 DEF vars, driveVars, feedVars, ownVars, ghosts
<1> QED
  BY <1>5, <1>6, <1>7, <1>8, <1>9, <1>10, <1>11, <1>12, <1>13, <1>14, <1>15, <1>16
     DEF Next, EventTask, Drain

-----------------------------------------------------------------------------
LEMMA InitInv == Init => Inv
<1> SUFFICES ASSUME Init
             PROVE  Inv
  OBVIOUS
<1>1. /\ log = <<>> /\ cursor = 0 /\ saved = 0 /\ batch = <<>> /\ phase = "idle"
      /\ recent = {} /\ dirty = NoDirty /\ lister = Idle /\ gaps = {} /\ foreign = {}
      /\ listed = TRUE /\ listing.resident = TRUE /\ listing.files = Present
      /\ rows = tree /\ tree = [f \in Files |-> IF f \in Present THEN 1 ELSE 0]
      /\ Len(log) = 0 /\ Len(batch) = 0
  BY DEF Init
<1>2. ASSUME NEW f \in Files
      PROVE  /\ drive[f].in <=> f \in Present
             /\ drive[f].rev = 1 /\ Last(f) = 0 /\ own[f] = Idle /\ echoes[f] = 0
  <2>1. drive[f] = [in |-> f \in Present, rev |-> 1] /\ own[f] = Idle /\ echoes[f] = 0
    BY DEF Init
  <2>2. drive[f].rev = 1 /\ Last(f) = 0
    BY <2>1 DEF Last
  <2>3. drive[f].in <=> f \in Present
    <3>1. CASE f \in Present
      <4>1. (f \in Present) = TRUE
        BY <3>1
      <4>2. drive[f] = [in |-> TRUE, rev |-> 1]
        BY <2>1, <4>1, Zenon
      <4> QED
        BY <3>1, <4>2
    <3>2. CASE f \notin Present
      <4>1. (f \in Present) = FALSE
        BY <3>2
      <4>2. drive[f] = [in |-> FALSE, rev |-> 1]
        BY <2>1, <4>1, Zenon
      <4> QED
        BY <3>2, <4>2
    <3> QED
      BY <3>1, <3>2
  <2> QED
    BY <2>1, <2>2, <2>3
<1>3. TypeOK
  <2>1. drive \in [Files -> OnDrive]
    BY Constants DEF Init, OnDrive
  <2>2. tree \in [Files -> Revs] /\ rows \in [Files -> Revs] /\ cache \in [Files -> Revs]
    BY Constants DEF Init
  <2>3. echoes \in [Files -> Nat] /\ own \in [Files -> OwnStates]
    BY Shapes DEF Init
  <2>4. used \in Used
    BY Constants DEF Init, Used
  <2>5. listing \in Listings
    BY Constants DEF Init, Listings
  <2>6. log \in Seq(Event) /\ batch \in Seq(1 .. Len(log)) /\ Len(log) <= MaxEvents
    BY <1>1, Constants
  <2> QED
    BY <1>1, <2>1, <2>2, <2>3, <2>4, <2>5, <2>6, Shapes DEF TypeOK
<1>4. Logged
  BY <1>1, <1>2 DEF Logged
<1>5. Mirrored
  <2>1. \A f \in Present : f \in Files /\ rows[f] = 1
    BY <1>1, Constants
  <2>2. listed = listing.resident
    BY <1>1
  <2> QED
    BY <1>1, <2>1, <2>2 DEF Mirrored
<1>6. Orderly
  BY <1>1 DEF Orderly
<1>7. Followed
  BY <1>1 DEF Followed
<1>8. ReadRight /\ ListerCurrent
  BY <1>1, <1>2, Shapes DEF ReadRight, ListerCurrent
<1>9. EchoesExpected
  <2>1. ASSUME NEW f \in Files
        PROVE  Echoed(f)
    <3>1. Owed(f) = {}
      BY <1>1 DEF Owed
    <3>2. Cardinality(Owed(f)) = 0
      BY <3>1, FS_EmptySet
    <3> QED
      BY <1>2, <3>2, Shapes DEF Echoed, Uploading
  <2> QED
    BY <1>1, <2>1 DEF EchoesExpected
<1>10. ASSUME NEW f \in Files
       PROVE  FileCurrent(f)
  <2>1. Served(f)
    BY <1>1, <1>2, Shapes DEF Served, Will
  <2> QED
    BY <1>2, <2>1, Shapes DEF FileCurrent, LastMine
<1> QED
  BY <1>3, <1>4, <1>5, <1>6, <1>7, <1>8, <1>9, <1>10 DEF Inv

LEMMA NextInv == Inv /\ [Next]_vars => Inv'
<1> SUFFICES ASSUME Inv, [Next]_vars
             PROVE  Inv'
  OBVIOUS
<1>1. TypeOK /\ Logged /\ Mirrored /\ Orderly /\ Followed /\ ReadRight /\ ListerCurrent /\ EchoesExpected
  BY DEF Inv
<1>2. TypeOK'
  <2>1. CASE UNCHANGED vars
    BY <1>1, <2>1 DEF vars, driveVars, feedVars, treeVars, ownVars, ghosts, TypeOK
  <2> QED
    BY <1>1, <2>1, DriveType, FeedType, ListingType, DrainType, CrashType DEF Next
<1>3. gaps' = {} => \A f \in Files : FileCurrent(f)'
  BY <1>1, FileNext DEF Inv
<1>4. Logged' /\ Mirrored' /\ Orderly' /\ Followed'
  BY <1>1, LoggedNext, MirroredNext, OrderlyNext, FollowedNext
<1>5. ReadRight' /\ ListerCurrent' /\ EchoesExpected'
  BY <1>1, ReadRightNext, ListerNext, EchoesNext
<1> QED
  BY <1>2, <1>3, <1>4, <1>5 DEF Inv

(* The invariant holds in every state, for any files and any bounds.       *)
THEOREM Invariance == Spec => []Inv
  BY InitInv, NextInv, PTL DEF Spec

(* A daemon that has caught up with the feed lists the folder as Drive has *)
(* it, after any batches, duplicates, swaps, failed acknowledgements,      *)
(* restarts and uploads, unless one of the named gaps is open              *)
(* (run_event_sync, apply_event, flush_dirty_parents, list_children).      *)
THEOREM ListsCurrent == Spec => []ListingCurrent
<1>1. Inv => ListingCurrent
  <2> SUFFICES ASSUME Inv, CaughtUp, gaps = {}, listing.resident,
                      NEW f \in Files, own[f] = Idle
               PROVE  ShowsDrive(f)
    BY DEF ListingCurrent, Current
  <2>1. ~Ahead(f) /\ FileCurrent(f)
    BY AheadEnds DEF Inv
  <2>2. Served(f)
    BY <2>1 DEF FileCurrent
  <2>3. /\ ~dirty.foreign /\ f \notin dirty.ours
        /\ rows[f] # 0 => rows[f] = tree[f]
    BY DEF Inv, Orderly, Mirrored, CaughtUp, NoDirty
  <2>4. drive[f].in \in BOOLEAN /\ drive[f].rev # 0 /\ own[f].at = "idle"
    BY LastType, Shapes DEF Inv
  <2> QED
    BY <2>2, <2>3, <2>4 DEF Served, Will, ShowsDrive
<1> QED
  BY <1>1, Invariance, PTL

(* An event that costs a file its bytes is about a file others touched.    *)
LEMMA AppliedBytes ==
  ASSUME Inv, batch # <<>>, ~Repeat(Head(batch)), ApplyEvent(log[Head(batch)]),
         NEW f \in Files, cache[f] # 0, cache'[f] = 0
  PROVE  f \in foreign
<1> DEFINE h == Head(batch)
           e == log[h]
<1>1. TypeOK /\ Logged /\ EchoesExpected /\ cache \in [Files -> Revs]
  BY DEF Inv, TypeOK
<1>2. h \in 1 .. Len(log) /\ e \in Event /\ InBatch(h)
  BY <1>1, Front DEF InBatch
<1>3. /\ e.file = f /\ e.kind \in {"updated", "moved", "trashed", "deleted"}
      /\ e.kind = "updated" => ~Ours(e)
  BY <1>1 DEF ApplyEvent, ApplyUpdate, ApplyTrash, ApplyDelete, ApplyLost, Evicted
<1>4. SUFFICES ASSUME f \notin foreign
               PROVE  FALSE
  OBVIOUS
<1>5. e.mine
  BY <1>1, <1>2, <1>3, <1>4 DEF EchoesExpected
<1>6. e.kind = "updated"
  BY <1>1, <1>2, <1>3, <1>4, <1>5 DEF Logged, EchoesExpected
<1>7. h \in Owed(f)
  BY <1>2, <1>3, <1>6 DEF Owed, Repeat, NodeUpdates
<1>8. Cardinality(Owed(f)) \in Nat /\ Cardinality(Owed(f)) # 0
  BY <1>1, <1>7, OwedFinite, FS_EmptySet
<1>9. Cardinality(Owed(f)) <= echoes[f] + Uploading(f)
  BY <1>1, <1>4 DEF EchoesExpected, Echoed
<1>10. ~(echoes[f] > 0) /\ own[f] = Idle
  BY <1>3, <1>6 DEF Ours, Pending
<1>11. echoes[f] \in Nat /\ Uploading(f) = 0
  BY <1>1, <1>10, Shapes DEF Uploading, TypeOK
<1> QED
  BY <1>8, <1>9, <1>10, <1>11

(* The feed's echo of an upload never costs the bytes just cached          *)
(* (apply_event, self_changes, refresh_after_upload).                      *)
THEOREM OwnBytesStay == Spec => OwnBytesKept
<1>1. Inv /\ [Next]_vars => [\A f \in Files : cache[f] # 0 /\ cache'[f] = 0 => f \in foreign']_vars
  <2> SUFFICES ASSUME Inv, Next, NEW f \in Files, cache[f] # 0, cache'[f] = 0
               PROVE  f \in foreign'
    BY DEF vars, ownVars
  <2>1. cache' # cache
    OBVIOUS
  <2>2. TypeOK /\ cache \in [Files -> Revs] /\ own \in [Files -> OwnStates]
    BY DEF Inv, TypeOK
  <2>3. CASE Apply \/ AckFails
    BY <2>3, AppliedBytes DEF Apply, AckFails
  <2>4. ASSUME NEW g \in Files, Divert(g)
        PROVE  f \in foreign'
    BY <2>2, <2>4 DEF Divert
  <2>5. ASSUME NEW g \in Files, ReadBack(g)
        PROVE  FALSE
    <3>1. own[g].rev # 0
      BY <2>2, <2>5, Shapes DEF ReadBack
    <3> QED
      BY <2>2, <2>5, <3>1 DEF ReadBack
  <2>6. ~(OtherDevice \/ ContinuityLost \/ Poll \/ SkipRepeat \/ SdkFails \/ Flush \/ Listing \/ Crash)
    BY <2>1 DEF OtherDevice, ContinuityLost, Poll, SkipRepeat, SdkFails, Flush, Listing, ListAsk,
                ListPublish, Crash, ownVars
  <2>7. ASSUME NEW g \in Files
        PROVE  ~(Queue(g) \/ Seal(g) \/ Place(g) \/ Expire(g))
    BY <2>1 DEF Queue, Seal, Place, Expire
  <2> QED
    BY <2>3, <2>4, <2>5, <2>6, <2>7 DEF Next, EventTask, Drain
<1> QED
  BY <1>1, Invariance, PTL DEF Spec, OwnBytesKept
=============================================================================
