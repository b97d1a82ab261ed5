--------------------------- MODULE ReadPathProofs ---------------------------
(***************************************************************************)
(* A read is never given bytes older than the version it reads, for any    *)
(* number of threads, blocks, revisions, reads and mishaps: Inv of         *)
(* ReadPath is inductive.                                                  *)
(***************************************************************************)
EXTENDS ReadPath, TLAPS

WF == INSTANCE WellFoundedInduction

(* The assumptions on the constants, together.                             *)
LEMMA Constants ==
  /\ Blocks \subseteq Nat /\ Sizes \subseteq Nat /\ Sizes # {}
  /\ Ranges \subseteq (SUBSET Blocks) \ {{}} /\ Caching \in BOOLEAN
  /\ MaxRev \in Nat \ {0} /\ MaxRead \in Nat /\ MaxMishap \in Nat
  /\ NoOne \notin Threads
BY ReadAssumption, NoOneAssumption

(* A set of numbers has a least one.                                       *)
LEMMA MinType ==
  ASSUME NEW S, S \subseteq Nat, S # {}
  PROVE  Min(S) \in S
<1>1. \E x \in S : \A y \in S : ~(<<y, x>> \in WF!OpToRel(<, Nat))
  BY WF!NatLessThanWellFounded, WF!WFMin
<1>2. \E x \in S : \A y \in S : x =< y
  <2>1. \A x, y \in S : <<y, x>> \in WF!OpToRel(<, Nat) <=> y < x
    BY DEF WF!OpToRel
  <2>2. PICK x \in S : \A y \in S : ~(y < x)
    BY <1>1, <2>1, Zenon
  <2> QED
    BY <2>2
<1> QED
  BY <1>2 DEF Min

(* The values with nothing in them have their types.                       *)
LEMMA Values ==
  /\ Nothing \in Rev /\ NoBlocks \in [Blocks -> Rev] /\ NoTasks \in [Blocks -> Fetches]
  /\ NoSlot \in Slots /\ NoRing \in Rings /\ Missing \in Files
  /\ Versions \subseteq Rev /\ Evicted \in Slots
BY Constants DEF Nothing, NoBlocks, NoTasks, NoSlot, NoRing, Missing, Rev, Slots, Rings, Files,
   Fetches, Versions, Evicted

(* A mishap is counted.                                                    *)
LEMMA MishapType ==
  ASSUME TypeOK, NEW kind, Mishap(kind)
  PROVE  used' \in Uses
<1>1. used \in Uses
  BY DEF TypeOK
<1> QED
  BY <1>1, Constants DEF Mishap, Uses

(* What the ring becomes with one block more.                              *)
LEMMA InsertType ==
  ASSUME TypeOK, NEW t \in Rev, NEW b \in Blocks, NEW rev \in Rev
  PROVE  Insert(t, b, rev) \in Rings
BY Values DEF TypeOK, Insert, Rings

(* A read that looks for a block looks for one of the file's.              *)
LEMMA LookedFor ==
  ASSUME TypeOK, ReadsKnown, NEW r \in Threads, pc[r] \in {"blob", "look", "peek"}
  PROVE  Min(todo[r]) \in todo[r] /\ todo[r] \subseteq Blocks
BY Constants, MinType DEF TypeOK, ReadsKnown

(* The invariant holds in the initial states.                               *)
LEMMA InitInv == Init => Inv
<1> SUFFICES ASSUME Init PROVE Inv
  OBVIOUS
<1> USE Constants
<1>1. /\ drive \in Versions /\ tree \in 1 .. drive
      /\ size \in [Versions -> Sizes] /\ mixed \subseteq Versions /\ used \in Uses
  BY DEF Init, Versions, Uses
<1>2. slot \in Slots /\ flight \in [Versions -> [Blocks -> Threads \cup {NoOne}]]
  BY Values DEF Init
<1>3. ring \in Rings /\ disk \in [Blocks -> Files] /\ whole \in Files
      /\ stores \subseteq Stores /\ adopts \subseteq Adopts
  BY Values DEF Init
<1>4. /\ pc \in [Threads -> Places] /\ tag \in [Threads -> Rev] /\ reader \in [Threads -> Rev]
      /\ todo \in [Threads -> SUBSET Blocks] /\ want \in [Threads -> SUBSET Blocks]
  BY Values DEF Init, Places
<1>5. /\ got \in [Threads -> [Blocks -> Rev]] /\ leader \in [Threads -> Threads \cup {NoOne}]
      /\ task \in [Threads -> [Blocks -> Fetches]] /\ retried \in [Threads -> BOOLEAN]
  BY Values DEF Init
<1>6. TypeOK
  BY <1>1, <1>2, <1>3, <1>4, <1>5 DEF TypeOK
<1>7. ReadsKnown /\ TasksFetch /\ NeverOlder
  BY DEF Init, ReadsKnown, TasksFetch, NeverOlder, Nothing, NoBlocks
<1>8. ReadersCurrent /\ CachesCurrent
  BY DEF Init, ReadersCurrent, CachesCurrent, Stored, NoSlot, NoRing, NoBlocks, Missing, Nothing
<1> QED
  BY <1>6, <1>7, <1>8 DEF Inv

-----------------------------------------------------------------------------
(* Who does what to the variables: a step leaves the revisions, the slot,    *)
(* the caches and the other threads' reads alone but for the ones named      *)
(* here.                                                                    *)
LEMMA TypeDrive ==
  ASSUME TypeOK, DriveChanges \/ Hear \/ Refresh \/ Pressure \/ Evict
  PROVE  TypeOK'
<1> USE Constants, Values DEF driveVars, cacheVars, readVars
<1>1. CASE DriveChanges
  BY <1>1 DEF TypeOK, DriveChanges, Versions
<1>2. CASE Hear
  BY <1>2 DEF TypeOK, Hear, Versions
<1>3. CASE Refresh
  BY <1>3 DEF TypeOK, Refresh, Versions
<1>4. CASE Pressure
  <2>1. used' \in Uses
    BY <1>4, MishapType DEF Pressure
  <2>2. slot' \in {slot, NoSlot} /\ whole' \in {whole, Missing}
        /\ (disk' = disk \/ \E b \in Blocks : disk' = [disk EXCEPT ![b] = Missing])
    BY <1>4 DEF Pressure
  <2>4. slot' \in Slots /\ disk' \in [Blocks -> Files] /\ whole' \in Files
    BY <2>2 DEF TypeOK
  <2>3. ring' \in Rings
    <3>1. \A b \in Blocks : [ring EXCEPT !.has[b] = Nothing] \in Rings
      BY DEF TypeOK, Rings
    <3>2. ring' \in {ring, NoRing} \/ \E b \in Blocks : ring' = [ring EXCEPT !.has[b] = Nothing]
      BY <1>4 DEF Pressure
    <3>3. ring \in Rings /\ NoRing \in Rings
      BY DEF TypeOK
    <3> QED
      BY <3>1, <3>2, <3>3, Zenon
  <2> QED
    BY <1>4, <2>1, <2>4, <2>3 DEF Pressure, TypeOK
<1>5. CASE Evict
  BY <1>5, MishapType DEF TypeOK, Evict
<1> QED
  BY <1>1, <1>2, <1>3, <1>4, <1>5

LEMMA TypeStore ==
  ASSUME TypeOK, NEW s \in stores, StoreRename(s) \/ StoreMeta(s)
  PROVE  TypeOK'
<1> USE Constants, Values DEF driveVars, cacheVars, readVars
<1>1. s \in Stores /\ s.block \in Blocks /\ s.tag \in Rev /\ s.rev \in Rev
  BY DEF TypeOK, Stores
<1>2. stores' \subseteq Stores
  <2>1. [s EXCEPT !.step = "meta"] \in Stores
    BY <1>1 DEF Stores
  <2> QED
    BY <2>1 DEF TypeOK, StoreRename, StoreMeta
<1>3. disk' \in [Blocks -> Files]
  <2>1. disk[s.block] \in Files
    BY <1>1 DEF TypeOK
  <2>2. CASE StoreRename(s)
    <3>1. [[disk[s.block] EXCEPT !.by = s.tag] EXCEPT !.rev = s.rev] \in Files
      BY <1>1, <2>1 DEF Files
    <3>2. disk' = [disk EXCEPT ![s.block] = [[disk[s.block] EXCEPT !.by = s.tag] EXCEPT !.rev = s.rev]]
      BY <1>1, <2>2 DEF StoreRename, TypeOK
    <3> QED
      BY <3>1, <3>2 DEF TypeOK
  <2>3. CASE StoreMeta(s)
    <3>1. [disk[s.block] EXCEPT !.tag = s.tag] \in Files
      BY <1>1, <2>1 DEF Files
    <3> QED
      BY <2>3, <3>1 DEF StoreMeta, TypeOK
  <2> QED
    BY <2>2, <2>3
<1> QED
  BY <1>2, <1>3 DEF TypeOK, StoreRename, StoreMeta

LEMMA TypeAdopt ==
  ASSUME TypeOK, CachesCurrent,
         Seal \/ FetchContent \/ \E s \in adopts : ReadBack(s) \/ AdoptRename(s) \/ AdoptMeta(s)
  PROVE  TypeOK'
<1> USE Constants, Values DEF driveVars, readVars
<1>1. drive \in Versions /\ tree \in 1 .. drive /\ drive \in Rev /\ tree \in Rev
  BY DEF TypeOK, Versions, Rev
<1>2. CASE Seal
  <2>1. drive' \in Versions /\ tree \in 1 .. drive'
    BY <1>1, <1>2 DEF Seal, Versions
  <2>2. adopts' \subseteq Adopts
    BY <1>2, <2>1 DEF Seal, Adopt, Adopts, TypeOK
  <2> QED
    BY <1>2, <2>1, <2>2 DEF Seal, TypeOK
<1>3. CASE FetchContent
  <2>1. adopts' \subseteq Adopts
    <3>1. PICK t \in 1 .. tree : adopts' = adopts \cup {Adopt(t, drive, "rename", NoOne)}
      BY <1>3 DEF FetchContent
    <3>2. t \in Rev
      BY <1>1 DEF Rev, Versions
    <3> QED
      BY <1>1, <3>1, <3>2 DEF Adopt, Adopts, TypeOK
  <2>2. used' \in Uses
    <3>1. used \in Uses /\ used.reads < MaxRead /\ used' = [used EXCEPT !.reads = @ + 1]
      BY <1>3 DEF FetchContent, TypeOK
    <3> QED
      BY <3>1 DEF Uses
  <2> QED
    BY <1>3, <2>1, <2>2 DEF FetchContent, TypeOK
<1>4. ASSUME NEW s \in adopts, ReadBack(s) \/ AdoptRename(s) \/ AdoptMeta(s) PROVE TypeOK'
  <2>1. s \in Adopts /\ s.rev \in Versions /\ s.tag \in Rev /\ s.rev \in Rev /\ s.rev <= drive /\ s.tag <= drive
    BY DEF TypeOK, Adopts, CachesCurrent
  <2>2. ASSUME NEW t \in Rev, NEW step \in {"rename", "meta"}, Passes(s, t, step)
        PROVE  adopts' \subseteq Adopts
    <3>1. [s EXCEPT !.tag = t, !.step = step] \in Adopts
      BY <2>1 DEF Adopts
    <3> QED
      BY <2>2, <3>1 DEF Passes, TypeOK
  <2>3. CASE ReadBack(s)
    <3>1. PICK t \in {drive, s.rev} :
            \/ /\ Passes(s, t, "rename") /\ tree' = tree
               /\ mixed' = mixed \/ mixed' = mixed \cup {t}
            \/ Done(s) /\ Placed(t) /\ mixed' = mixed
      BY <2>3 DEF ReadBack
    <3>2. t \in Versions /\ t \in Rev /\ t \in 1 .. drive
      BY <1>1, <2>1, <3>1 DEF Versions
    <3>3. adopts' \subseteq Adopts
      BY <2>2, <3>1, <3>2 DEF Done, TypeOK
    <3>4. tree' \in 1 .. drive /\ mixed' \subseteq Versions
      BY <1>1, <3>1, <3>2 DEF Placed, TypeOK
    <3> QED
      BY <2>3, <3>3, <3>4 DEF ReadBack, TypeOK
  <2>4. CASE AdoptRename(s)
    <3>1. adopts' \subseteq Adopts
      BY <2>1, <2>2, <2>4 DEF AdoptRename
    <3>2. whole' \in Files
      BY <2>1, <2>4 DEF AdoptRename, TypeOK, Files
    <3> QED
      BY <2>4, <3>1, <3>2 DEF AdoptRename, TypeOK
  <2>5. CASE AdoptMeta(s)
    <3>1. adopts' \subseteq Adopts
      BY <2>5 DEF AdoptMeta, Done, TypeOK
    <3>2. whole' \in Files
      BY <2>1, <2>5 DEF AdoptMeta, TypeOK, Files
    <3>3. tree' \in 1 .. drive
      <4>1. s.tag \in 1 .. drive
        BY <1>1, <2>1, <2>5 DEF AdoptMeta, CachesCurrent, Nothing, Rev, Versions
      <4> QED
        BY <1>1, <2>5, <4>1 DEF AdoptMeta, Placed
    <3>4. task' \in [Threads -> [Blocks -> Fetches]]
      BY <2>5 DEF AdoptMeta, TypeOK, Fetches
    <3> QED
      BY <2>5, <3>1, <3>2, <3>3, <3>4 DEF AdoptMeta, TypeOK
  <2> QED
    BY <1>4, <2>3, <2>4, <2>5
<1> QED
  BY <1>2, <1>3, <1>4

(* A read that is under way reads a version.                                *)
LEMMA TagType ==
  ASSUME TypeOK, ReadsKnown, NEW r \in Threads, pc[r] # "idle"
  PROVE  tag[r] \in Versions
BY Constants DEF TypeOK, ReadsKnown, Rev, Versions, Nothing

(* Whoever's file it was that a read was given, the versions stay versions.  *)
LEMMA ServedType ==
  ASSUME TypeOK, NEW t \in Versions, NEW by, Served(t, by)
  PROVE  mixed' \subseteq Versions /\ mixed \subseteq mixed'
BY DEF Served, TypeOK

LEMMA TypeLook ==
  ASSUME TypeOK, ReadsKnown, NEW r \in Threads, Start(r) \/ Blob(r) \/ Look(r) \/ Peek(r)
  PROVE  TypeOK'
<1> USE Constants, Values DEF driveVars, cacheVars, readVars
<1>1. CASE Start(r)
  <2>1. PICK bs \in Ranges :
          /\ tag' = [tag EXCEPT ![r] = tree] /\ want' = [want EXCEPT ![r] = bs]
          /\ retried' = [retried EXCEPT ![r] = FALSE] /\ todo' = [todo EXCEPT ![r] = bs]
          /\ pc' = [pc EXCEPT ![r] = "blob"] \/ pc' = [pc EXCEPT ![r] = "look"]
    BY <1>1 DEF Start, Goto
  <2>2. used' \in Uses
    <3>1. used \in Uses /\ used.reads < MaxRead /\ used' = [used EXCEPT !.reads = @ + 1]
      BY <1>1 DEF Start, TypeOK
    <3> QED
      BY <3>1 DEF Uses
  <2>3. tree \in Rev
    BY DEF TypeOK, Rev, Versions
  <2>4. bs \in SUBSET Blocks /\ bs # {}
    BY <2>1
  <2>5. /\ tag' \in [Threads -> Rev] /\ want' \in [Threads -> SUBSET Blocks]
        /\ todo' \in [Threads -> SUBSET Blocks] /\ retried' \in [Threads -> BOOLEAN]
    BY <2>1, <2>3, <2>4 DEF TypeOK
  <2>6. pc' \in [Threads -> Places]
    BY <2>1 DEF TypeOK, Places
  <2> QED
    BY <1>1, <2>2, <2>5, <2>6 DEF Start, TypeOK
<1>2. ASSUME NEW b \in Blocks, NEW g \in [Blocks -> Rev], Looked(r, b, g)
      PROVE  /\ got' \in [Threads -> [Blocks -> Rev]] /\ todo' \in [Threads -> SUBSET Blocks]
             /\ pc' \in [Threads -> Places]
  BY <1>2 DEF Looked, TypeOK, Goto, Places
<1>3. pc[r] \in {"look", "peek"} => Min(todo[r]) \in Blocks
  BY LookedFor
<1>4. \A b \in Blocks : ring.has[b] \in Rev /\ disk[b].rev \in Rev
  BY DEF TypeOK, Rings, Files
<1>5. \A b \in Blocks, rev \in Rev : [got[r] EXCEPT ![b] = rev] \in [Blocks -> Rev]
  BY DEF TypeOK
<1>6. got[r] \in [Blocks -> Rev] /\ tag[r] \in Rev
  BY DEF TypeOK
<1>7. CASE Look(r)
  <2>1. /\ got' \in [Threads -> [Blocks -> Rev]] /\ todo' \in [Threads -> SUBSET Blocks]
        /\ pc' \in [Threads -> Places]
    <3> DEFINE b == Min(todo[r])
    <3>1. b \in Blocks
      BY <1>3, <1>7 DEF Look
    <3>2. CASE Looked(r, b, [got[r] EXCEPT ![b] = ring.has[b]]) \/ Looked(r, b, got[r])
      BY <1>2, <1>4, <1>5, <1>6, <3>1, <3>2
    <3>3. CASE Goto(r, "peek") /\ UNCHANGED <<todo, got>>
      BY <3>3 DEF Goto, TypeOK, Places
    <3> QED
      BY <1>7, <3>2, <3>3 DEF Look, Found
  <2>2. ring' = ring
    BY <1>7 DEF Look
  <2> QED
    BY <1>7, <2>1, <2>2 DEF Look, TypeOK
<1>8. CASE Peek(r)
  <2>1. Min(todo[r]) \in Blocks
    BY <1>3, <1>8 DEF Peek
  <2>2. /\ got' \in [Threads -> [Blocks -> Rev]] /\ todo' \in [Threads -> SUBSET Blocks]
        /\ pc' \in [Threads -> Places]
    BY <1>2, <1>4, <1>5, <1>8, <2>1 DEF Peek, Found
  <2>3. ring' \in Rings
    BY <1>4, <1>6, <1>8, <2>1, InsertType DEF Peek, TypeOK
  <2>4. mixed' \subseteq Versions
    BY <1>8, TagType, ServedType DEF Peek
  <2> QED
    BY <1>8, <2>2, <2>3, <2>4 DEF Peek, TypeOK
<1>9. CASE Blob(r)
  <2>1. tag[r] \in Versions
    BY <1>9, TagType DEF Blob
  <2>2. mixed' \subseteq Versions
    BY <1>9, <2>1, ServedType DEF Blob, TypeOK
  <2>3. got' \in [Threads -> [Blocks -> Rev]]
    <3>1. [b \in Blocks |-> IF b \in want[r] THEN whole.rev ELSE Nothing] \in [Blocks -> Rev]
      BY DEF TypeOK, Files
    <3> QED
      BY <1>9, <3>1 DEF Blob, TypeOK
  <2>4. pc' \in [Threads -> Places]
    BY <1>9 DEF Blob, Goto, TypeOK, Places
  <2> QED
    BY <1>9, <2>2, <2>3, <2>4 DEF Blob, TypeOK
<1> QED
  BY <1>1, <1>7, <1>8, <1>9

LEMMA TypeReader ==
  ASSUME TypeOK, NEW r \in Threads, Hit(r) \/ Join(r) \/ Lead(r) \/ Open(r) \/ OpenFails(r)
  PROVE  TypeOK'
<1> USE Constants, Values DEF driveVars, cacheVars, readVars
<1>1. slot.rev \in Rev /\ slot.by \in Threads \cup {NoOne} /\ tag[r] \in Rev /\ drive \in Rev
  BY DEF TypeOK, Slots
<1>2. \A q \in Threads : Fetching(q) \in [Blocks -> Fetches]
  BY DEF Fetching, Fetches
<1>3. CASE Hit(r)
  BY <1>1, <1>2, <1>3 DEF Hit, Goto, TypeOK, Places
<1>4. CASE Join(r)
  BY <1>1, <1>4 DEF Join, Goto, TypeOK, Places
<1>5. CASE Lead(r)
  <2>1. slot' \in Slots
    BY <1>1, <1>5 DEF Lead, Slots
  <2> QED
    BY <1>5, <2>1 DEF Lead, Goto, TypeOK, Places
<1>6. CASE Open(r)
  <2>1. slot' \in Slots
    BY <1>1, <1>6 DEF Open, TypeOK, Slots
  <2>2. /\ reader' \in [Threads -> Rev] /\ pc' \in [Threads -> Places]
        /\ leader' \in [Threads -> Threads \cup {NoOne}]
    BY <1>1, <1>6 DEF Open, TypeOK, Places
  <2>3. task' \in [Threads -> [Blocks -> Fetches]]
    BY <1>2, <1>6 DEF Open, TypeOK
  <2> QED
    BY <1>6, <2>1, <2>2, <2>3 DEF Open, TypeOK
<1>7. CASE OpenFails(r)
  <2>1. slot' \in Slots /\ used' \in Uses
    BY <1>7, MishapType DEF OpenFails, TypeOK
  <2>2. pc' \in [Threads -> Places] /\ leader' \in [Threads -> Threads \cup {NoOne}]
    BY <1>7 DEF OpenFails, TypeOK, Places
  <2> QED
    BY <1>7, <2>1, <2>2 DEF OpenFails, TypeOK
<1> QED
  BY <1>3, <1>4, <1>5, <1>6, <1>7

(* What a block that is there does to the reads, the claims and the caches. *)
LEMMA LandedType ==
  ASSUME TypeOK, ReadsKnown, NEW r \in Threads, NEW b \in Blocks, NEW rev \in Versions, pc[r] = "fetch",
         Landed(r, b, rev), Keep(r, b, rev)
  PROVE  /\ got' \in [Threads -> [Blocks -> Rev]] /\ task' \in [Threads -> [Blocks -> Fetches]]
         /\ flight' \in [Versions -> [Blocks -> Threads \cup {NoOne}]]
         /\ ring' \in Rings /\ stores' \subseteq Stores
<1> USE Constants, Values
<1>1. tag[r] \in Versions /\ rev \in Rev /\ tag[r] \in Rev
  BY TagType
<1>2. got' \in [Threads -> [Blocks -> Rev]]
  BY <1>1 DEF TypeOK, Landed
<1>3. task' \in [Threads -> [Blocks -> Fetches]]
  BY DEF TypeOK, Landed, Outcome, Fetches
<1>4. flight' \in [Versions -> [Blocks -> Threads \cup {NoOne}]]
  BY <1>1 DEF TypeOK, Landed, Outcome
<1>5. ring' \in Rings
  BY <1>1, InsertType DEF Keep
<1>6. stores' \subseteq Stores
  BY <1>1 DEF TypeOK, Keep, Stores
<1> QED
  BY <1>2, <1>3, <1>4, <1>5, <1>6

(* The steps of the fetch of one block.                                     *)
BlockStep(r, b) ==
    \/ Claim(r, b) \/ ReadBlock(r, b) \/ Short(r, b) \/ NoBlock(r, b)
    \/ RepairHit(r, b) \/ Download(r, b) \/ RepairRead(r, b) \/ Repaired(r, b)

LEMMA TypeFetch ==
  ASSUME TypeOK, ReadsKnown, ReadersCurrent, CachesCurrent, NEW r \in Threads, NEW b \in Blocks,
         BlockStep(r, b)
  PROVE  TypeOK'
<1> USE Constants, Values DEF driveVars, cacheVars, readVars
<1>1. tag[r] \in Versions /\ pc[r] = "fetch"
  BY TagType DEF BlockStep, Claim, ReadBlock, Short, NoBlock, RepairHit, Download, NoBlob, RepairRead, Repaired,
     MayRead
<1>2. reader[r] \in Versions
  BY <1>1 DEF TypeOK, ReadersCurrent, Rev, Versions
<1>3. CASE Claim(r, b)
  <2>1. flight' \in [Versions -> [Blocks -> Threads \cup {NoOne}]]
    <3>1. flight' = flight \/ flight' = [flight EXCEPT ![tag[r]][b] = r]
      BY <1>3 DEF Claim
    <3>2. [flight[tag[r]] EXCEPT ![b] = r] \in [Blocks -> Threads \cup {NoOne}]
      BY <1>1 DEF TypeOK
    <3>3. flight' = flight \/ flight' = [flight EXCEPT ![tag[r]] = [flight[tag[r]] EXCEPT ![b] = r]]
      BY <1>1, <3>1 DEF TypeOK
    <3>4. flight \in [Versions -> [Blocks -> Threads \cup {NoOne}]]
      BY DEF TypeOK
    <3> QED
      BY ONLY <3>2, <3>3, <3>4
  <2>2. task' \in [Threads -> [Blocks -> Fetches]]
    <3>1. \E f \in Fetches : task' = [task EXCEPT ![r][b] = f]
      BY <1>3 DEF Claim, Fetches
    <3> QED
      BY <3>1 DEF TypeOK
  <2> QED
    BY <1>3, <2>1, <2>2 DEF Claim, TypeOK
<1>4. CASE ReadBlock(r, b)
  <2>1. /\ got' \in [Threads -> [Blocks -> Rev]] /\ task' \in [Threads -> [Blocks -> Fetches]]
        /\ flight' \in [Versions -> [Blocks -> Threads \cup {NoOne}]]
        /\ ring' \in Rings /\ stores' \subseteq Stores
    BY <1>1, <1>2, <1>4, LandedType DEF ReadBlock
  <2> QED
    BY <1>4, <2>1 DEF ReadBlock, TypeOK
<1>5. ASSUME NEW state \in Fetches, Becomes(r, b, state) PROVE task' \in [Threads -> [Blocks -> Fetches]]
  BY <1>5 DEF Becomes, TypeOK
<1>6. CASE Short(r, b)
  <2>1. used' \in Uses
    BY <1>6, MishapType DEF Short, TypeOK
  <2> QED
    BY <1>5, <1>6, <2>1 DEF Short, TypeOK, Fetches
<1>7. CASE RepairHit(r, b)
  BY <1>5, <1>7 DEF RepairHit, TypeOK, Fetches
<1>8. CASE RepairRead(r, b)
  BY <1>5, <1>8 DEF RepairRead, TypeOK, Fetches
<1>9. CASE Download(r, b)
  <2>1. adopts' \subseteq Adopts
    BY <1>1, <1>9 DEF Download, Adopt, Adopts, TypeOK
  <2>2. task' \in [Threads -> [Blocks -> Fetches]]
    BY <1>5, <1>9 DEF Download, Fetches
  <2> QED
    BY <1>9, <2>1, <2>2 DEF Download, TypeOK
<1>10. CASE Repaired(r, b)
  <2>1. whole.rev \in Versions
    BY <1>10 DEF Repaired, BlobThere, TypeOK, Files, Rev, Versions, Nothing
  <2>2. /\ got' \in [Threads -> [Blocks -> Rev]] /\ task' \in [Threads -> [Blocks -> Fetches]]
        /\ flight' \in [Versions -> [Blocks -> Threads \cup {NoOne}]]
        /\ ring' \in Rings /\ stores' \subseteq Stores
    BY <1>1, <1>10, <2>1, LandedType DEF Repaired
  <2>3. mixed' \subseteq Versions
    BY <1>1, <1>10, ServedType DEF Repaired
  <2> QED
    BY <1>10, <2>2, <2>3 DEF Repaired, TypeOK
<1>11. CASE NoBlock(r, b)
  <2>1. used' \in Uses
    BY <1>11, MishapType DEF NoBlock, TypeOK
  <2>2. flight' \in [Versions -> [Blocks -> Threads \cup {NoOne}]]
    BY <1>1, <1>11 DEF NoBlock, Outcome, TypeOK
  <2>3. task' \in [Threads -> [Blocks -> Fetches]]
    BY <1>11 DEF NoBlock, Outcome, TypeOK, Fetches
  <2> QED
    BY <1>11, <2>1, <2>2, <2>3 DEF NoBlock, TypeOK
<1> QED
  BY <1>3, <1>4, <1>6, <1>7, <1>8, <1>9, <1>10, <1>11 DEF BlockStep

LEMMA TypeEnd ==
  ASSUME TypeOK, NEW r \in Threads,
         \/ Fetched(r) \/ FetchFails(r) \/ Retry(r) \/ GiveUp(r) \/ Offline(r) \/ Answer(r)
         \/ Deadline(r) \/ EvictReader(r)
  PROVE  TypeOK'
<1> USE Constants, Values DEF driveVars, cacheVars, readVars
<1>1. ASSUME Abort(r)
      PROVE  /\ flight' \in [Versions -> [Blocks -> Threads \cup {NoOne}]]
             /\ task' \in [Threads -> [Blocks -> Fetches]]
  BY <1>1 DEF Abort, TypeOK, Fetches
<1>2. ASSUME Over(r)
      PROVE  /\ tag' \in [Threads -> Rev] /\ want' \in [Threads -> SUBSET Blocks]
             /\ got' \in [Threads -> [Blocks -> Rev]] /\ reader' \in [Threads -> Rev]
             /\ todo' \in [Threads -> SUBSET Blocks]
             /\ leader' = leader /\ retried' = retried
  BY <1>2 DEF Over, TypeOK
<1>3. ASSUME NEW step \in Places, Goto(r, step) PROVE pc' \in [Threads -> Places]
  BY <1>3 DEF Goto, TypeOK
<1>4. CASE Fetched(r)
  BY <1>4 DEF Fetched, Goto, TypeOK, Places
<1>5. CASE FetchFails(r)
  <2>1. got' \in [Threads -> [Blocks -> Rev]]
    BY <1>5 DEF FetchFails, TypeOK
  <2>2. pc' \in [Threads -> Places]
    BY <1>3, <1>5 DEF FetchFails, Places
  <2> QED
    BY <1>1, <1>5, <2>1, <2>2 DEF FetchFails, TypeOK
<1>6. CASE Retry(r)
  <2>1. pc' \in [Threads -> Places] /\ retried' \in [Threads -> BOOLEAN]
    BY <1>6 DEF Retry, Goto, TypeOK, Places
  <2> QED
    BY <1>6, <2>1 DEF Retry, TypeOK
<1>7. CASE GiveUp(r) \/ Answer(r)
  <2>1. pc' \in [Threads -> Places]
    BY <1>3, <1>7 DEF GiveUp, Answer, Places
  <2> QED
    BY <1>2, <1>7, <2>1 DEF GiveUp, Answer, TypeOK
<1>8. CASE Offline(r)
  <2>1. pc' \in [Threads -> Places]
    BY <1>3, <1>8 DEF Offline, Places
  <2> QED
    BY <1>2, <1>8, <2>1, MishapType DEF Offline, TypeOK
<1>9. CASE Deadline(r)
  <2>1. pc' \in [Threads -> Places] /\ leader' \in [Threads -> Threads \cup {NoOne}]
    BY <1>9 DEF Deadline, Drop, TypeOK, Places
  <2> QED
    BY <1>1, <1>9, <2>1, MishapType DEF Deadline, Drop, TypeOK
<1>10. CASE EvictReader(r)
  <2>1. pc' \in [Threads -> Places]
    BY <1>3, <1>10 DEF EvictReader, Places
  <2> QED
    BY <1>2, <1>10, <2>1 DEF EvictReader, TypeOK
<1> QED
  BY <1>4, <1>5, <1>6, <1>7, <1>8, <1>9, <1>10

(* A step keeps the types.                                                  *)
LEMMA TypeStep ==
  ASSUME TypeOK, ReadsKnown, ReadersCurrent, CachesCurrent, [Next]_vars
  PROVE  TypeOK'
<1>1. CASE UNCHANGED vars
  BY <1>1 DEF TypeOK, vars, driveVars, cacheVars, readVars
<1> QED
  BY <1>1, TypeDrive, TypeStore, TypeAdopt, TypeLook, TypeReader, TypeFetch, TypeEnd DEF Next, Step, BlockStep

-----------------------------------------------------------------------------
(* Only a read that fetches follows the fetch of another.                   *)
LEMMA FollowersFetch ==
  ASSUME TypeOK, TasksFetch, NEW r \in Threads, NEW b \in Blocks, NEW q \in Followers(r, b)
  PROVE  q \in Threads /\ pc[q] = "fetch" /\ tag[q] = tag[r]
BY DEF Followers, TasksFetch, NoTasks

(* The tasks of a read that stops fetching are gone.                        *)
LEMMA TasksStep ==
  ASSUME TypeOK, TasksFetch, [Next]_vars
  PROVE  TasksFetch'
<1> USE DEF readVars
<1> SUFFICES ASSUME NEW r \in Threads, pc'[r] # "fetch" PROVE task'[r] = NoTasks
  BY DEF TasksFetch
<1>1. CASE pc'[r] = pc[r] /\ task'[r] = task[r]
  BY <1>1 DEF TasksFetch
<1>2. ASSUME NEW q \in Threads, NEW b \in Blocks, BlockStep(q, b)
      PROVE  pc'[r] = pc[r] /\ task'[r] = task[r]
  <2>1. pc' = pc /\ pc[q] = "fetch"
    BY <1>2 DEF BlockStep, Claim, ReadBlock, Short, NoBlock, RepairHit, Download, NoBlob, RepairRead, Repaired, MayRead
  <2>2. r # q /\ r \notin Followers(q, b)
    BY <2>1, FollowersFetch
  <2>3. CASE \E state : Outcome(q, b, state)
    BY <2>1, <2>2, <2>3 DEF Outcome, TypeOK
  <2>4. CASE \E state : task' = [task EXCEPT ![q][b] = state]
    BY <2>1, <2>2, <2>4 DEF TypeOK
  <2> QED
    BY <1>2, <2>3, <2>4 DEF BlockStep, Claim, ReadBlock, Short, NoBlock, RepairHit, Download, RepairRead, Repaired,
       Landed, Becomes
<1>3. ASSUME NEW q \in Threads, Fetched(q) PROVE task'[r] = NoTasks
  <2>1. pc' = [pc EXCEPT ![q] = "done"] /\ task' = task
    BY <1>3 DEF Fetched, Goto
  <2>2. CASE q = r
    BY <1>3, <2>1, <2>2 DEF Fetched, NoTasks, TypeOK
  <2>3. CASE q # r
    BY <1>1, <2>1, <2>3 DEF TypeOK
  <2> QED
    BY <2>2, <2>3
<1>4. ASSUME NEW q \in Threads, FetchFails(q) \/ Deadline(q) PROVE task'[r] = NoTasks
  <2>1. Abort(q) /\ (r # q /\ pc'[r] # "fetch" => pc[r] # "fetch")
    BY <1>4 DEF FetchFails, Deadline, Drop, Goto, Joined, TypeOK
  <2>2. CASE q = r
    BY <2>1, <2>2 DEF Abort
  <2>3. CASE q # r
    <3>1. pc[r] # "fetch" /\ task[r] = NoTasks
      BY <2>1, <2>3 DEF TasksFetch
    <3>2. \A b \in Blocks : r \notin Followers(q, b)
      BY <3>1, FollowersFetch
    <3> QED
      BY <2>1, <2>3, <3>1, <3>2 DEF Abort, NoTasks
  <2> QED
    BY <2>2, <2>3
<1>5. ASSUME NEW q \in Threads, Hit(q) PROVE pc'[r] = pc[r] /\ task'[r] = task[r]
  BY <1>5 DEF Hit, Goto, TypeOK
<1>6. ASSUME NEW q \in Threads, Open(q) PROVE pc'[r] = pc[r] /\ task'[r] = task[r]
  BY <1>6 DEF Open, TypeOK
<1>7. ASSUME NEW q \in Threads,
             \/ Start(q) \/ Blob(q) \/ Look(q) \/ Peek(q) \/ Join(q) \/ Lead(q) \/ OpenFails(q) \/ Retry(q) \/ GiveUp(q)
             \/ Offline(q) \/ Answer(q) \/ EvictReader(q)
      PROVE  task'[r] = NoTasks
  <2>1. task' = task
    BY <1>7 DEF Start, Blob, Look, Peek, Join, Lead, OpenFails, Retry, GiveUp, Offline, Answer, EvictReader
  <2>2. pc[r] # "fetch"
    <3>1. CASE Start(q) \/ Blob(q) \/ Look(q) \/ Peek(q)
      BY <3>1 DEF Start, Blob, Look, Peek, Goto, Looked, Found, TypeOK
    <3>2. CASE Join(q) \/ Lead(q) \/ OpenFails(q)
      BY <3>2 DEF Join, Lead, OpenFails, Goto, Joined, TypeOK
    <3>3. CASE Retry(q) \/ GiveUp(q) \/ Offline(q) \/ Answer(q) \/ EvictReader(q)
      BY <3>3 DEF Retry, GiveUp, Offline, Answer, EvictReader, Goto, TypeOK
    <3> QED
      BY <1>7, <3>1, <3>2, <3>3
  <2> QED
    BY <2>1, <2>2 DEF TasksFetch
<1>8. ASSUME UNCHANGED vars \/ DriveChanges \/ Hear \/ Refresh \/ Pressure \/ Evict
      PROVE  pc' = pc /\ task' = task
  BY <1>8 DEF vars, DriveChanges, Hear, Refresh, Pressure, Evict
<1>9. ASSUME NEW s \in stores, StoreRename(s) \/ StoreMeta(s) PROVE pc' = pc /\ task' = task
  BY <1>9 DEF StoreRename, StoreMeta
<1>10. ASSUME NEW s \in adopts, ReadBack(s) \/ AdoptRename(s) PROVE pc' = pc /\ task' = task
  BY <1>10 DEF ReadBack, AdoptRename
<1>11. ASSUME NEW s \in adopts, AdoptMeta(s) PROVE task'[r] = NoTasks
  <2>1. task[r] = NoTasks
    BY <1>11 DEF AdoptMeta, TasksFetch
  <2>2. task'[r] = [b \in Blocks |-> IF s.for = r /\ task[r][b] = "store" THEN "stored" ELSE task[r][b]]
    BY <1>11 DEF AdoptMeta
  <2> QED
    BY <2>1, <2>2 DEF NoTasks
<1>12. ASSUME Seal \/ FetchContent PROVE pc' = pc /\ task' = task
  BY <1>12 DEF Seal, FetchContent
<1> QED
  BY <1>1, <1>2, <1>3, <1>4, <1>5, <1>6, <1>7, <1>8, <1>9, <1>10, <1>11, <1>12 DEF Next, Step, BlockStep

-----------------------------------------------------------------------------
(* Drive does not go back to an earlier revision.                           *)
LEMMA DriveStep ==
  ASSUME TypeOK, [Next]_vars
  PROVE  drive \in Nat /\ drive' \in Nat /\ drive <= drive'
<1>1. drive \in Nat
  BY DEF TypeOK, Versions
<1>2. CASE DriveChanges \/ Seal
  BY <1>1, <1>2 DEF DriveChanges, Seal
<1>3. CASE drive' = drive
  BY <1>1, <1>3
<1>4. ASSUME Hear \/ Refresh \/ Pressure \/ Evict \/ UNCHANGED vars PROVE drive' = drive
  BY <1>4 DEF vars, driveVars, Hear, Refresh, Pressure, Evict
<1>5. ASSUME NEW s \in stores, StoreRename(s) \/ StoreMeta(s) PROVE drive' = drive
  BY <1>5 DEF driveVars, StoreRename, StoreMeta
<1>6. ASSUME NEW r \in Threads,
             Start(r) \/ Blob(r) \/ Look(r) \/ Peek(r) \/ Hit(r) \/ Join(r) \/ Lead(r) \/ Open(r) \/ OpenFails(r)
      PROVE  drive' = drive
  BY <1>6 DEF driveVars, Start, Blob, Look, Peek, Hit, Join, Lead, Open, OpenFails
<1>7. ASSUME NEW r \in Threads, NEW b \in Blocks, BlockStep(r, b) PROVE drive' = drive
  BY <1>7 DEF driveVars, BlockStep, Claim, ReadBlock, Short, NoBlock, RepairHit, Download, RepairRead, Repaired
<1>8. ASSUME NEW r \in Threads,
             \/ Fetched(r) \/ FetchFails(r) \/ Retry(r) \/ GiveUp(r) \/ Offline(r) \/ Answer(r) \/ Deadline(r)
             \/ EvictReader(r)
      PROVE  drive' = drive
  BY <1>8 DEF driveVars, Fetched, FetchFails, Retry, GiveUp, Offline, Answer, Deadline, EvictReader
<1>9. ASSUME FetchContent \/ \E s \in adopts : ReadBack(s) \/ AdoptRename(s) \/ AdoptMeta(s) PROVE drive' = drive
  BY <1>9 DEF driveVars, FetchContent, ReadBack, AdoptRename, AdoptMeta
<1> QED
  BY <1>2, <1>3, <1>4, <1>5, <1>6, <1>7, <1>8, <1>9 DEF Next, Step, BlockStep

(* The steps that no thread takes.                                          *)
Outside ==
    \/ DriveChanges \/ Hear \/ Refresh \/ Pressure \/ Evict
    \/ \E s \in stores : StoreRename(s) \/ StoreMeta(s)
    \/ Seal \/ FetchContent
    \/ \E s \in adopts : ReadBack(s) \/ AdoptRename(s) \/ AdoptMeta(s)

LEMMA OutsideFrame ==
  ASSUME Outside
  PROVE  UNCHANGED <<tag, todo, want, got, leader, reader, pc>> /\ mixed \subseteq mixed'
<1>1. CASE DriveChanges \/ Hear \/ Refresh \/ Pressure \/ Evict \/ Seal \/ FetchContent
  BY <1>1 DEF readVars, DriveChanges, Hear, Refresh, Pressure, Evict, Seal, FetchContent
<1>2. ASSUME NEW s \in stores, StoreRename(s) \/ StoreMeta(s)
      PROVE  UNCHANGED <<tag, todo, want, got, leader, reader, pc>> /\ mixed \subseteq mixed'
  BY <1>2 DEF readVars, StoreRename, StoreMeta
<1>3. ASSUME NEW s \in adopts, ReadBack(s) \/ AdoptRename(s) \/ AdoptMeta(s)
      PROVE  UNCHANGED <<tag, todo, want, got, leader, reader, pc>> /\ mixed \subseteq mixed'
  BY <1>3 DEF readVars, ReadBack, AdoptRename, AdoptMeta
<1> QED
  BY <1>1, <1>2, <1>3 DEF Outside

(* The steps of a read that is under way and goes on or fails: whom they     *)
(* move stays under way, and reads what it read.                            *)
Moves(r) ==
    \/ Hit(r) \/ Join(r) \/ Lead(r) \/ Open(r) \/ OpenFails(r) \/ Fetched(r) \/ FetchFails(r) \/ Retry(r)
    \/ Deadline(r)

LEMMA MovesFrame ==
  ASSUME TypeOK, NEW q \in Threads, Moves(q), NEW r \in Threads
  PROVE  /\ UNCHANGED <<tag, todo, want, mixed>>
         /\ pc'[r] = pc[r] \/ (pc[r] # "idle" /\ pc'[r] \notin {"idle", "blob", "look", "peek"})
         /\ got'[r] = got[r] \/ pc'[r] # "idle"
<1> USE DEF Moves, readVars
<1>1. UNCHANGED <<tag, todo, want, mixed>>
  BY DEF Hit, Join, Lead, Open, OpenFails, Fetched, FetchFails, Retry, Deadline
<1>2. CASE Hit(q) \/ Join(q) \/ Lead(q) \/ Fetched(q) \/ Retry(q)
  BY <1>1, <1>2 DEF Hit, Join, Lead, Fetched, Retry, Goto, TypeOK
<1>3. CASE Open(q) \/ OpenFails(q)
  BY <1>1, <1>3 DEF Open, OpenFails, Joined, TypeOK
<1>4. CASE FetchFails(q)
  BY <1>1, <1>4 DEF FetchFails, Goto, TypeOK
<1>5. CASE Deadline(q)
  BY <1>1, <1>5 DEF Deadline, Joined, TypeOK
<1> QED
  BY <1>2, <1>3, <1>4, <1>5

(* The steps that end a read.                                               *)
Ends(r) == GiveUp(r) \/ Offline(r) \/ Answer(r) \/ EvictReader(r)

LEMMA EndsFrame ==
  ASSUME TypeOK, NEW q \in Threads, Ends(q), NEW r \in Threads
  PROVE  /\ mixed' = mixed /\ task' = task
         /\ r = q => tag'[r] = Nothing /\ got'[r] = NoBlocks /\ pc'[r] = "idle"
         /\ r # q => /\ tag'[r] = tag[r] /\ got'[r] = got[r] /\ pc'[r] = pc[r] /\ todo'[r] = todo[r]
                     /\ reader'[r] = reader[r]
BY DEF Ends, GiveUp, Offline, Answer, EvictReader, Over, Goto, TypeOK

(* What a step of the fetch of one block does to the reads.                  *)
LEMMA FetchFrame ==
  ASSUME TypeOK, TasksFetch, NEW q \in Threads, NEW b \in Blocks, BlockStep(q, b), NEW r \in Threads
  PROVE  /\ UNCHANGED <<tag, todo, want, reader, pc>> /\ pc[q] = "fetch" /\ mixed \subseteq mixed'
         /\ got'[r] = got[r] \/ pc[r] = "fetch"
<1> USE DEF BlockStep, readVars
<1>1. UNCHANGED <<tag, todo, want, reader, pc>> /\ pc[q] = "fetch" /\ mixed \subseteq mixed'
  BY DEF Claim, ReadBlock, Short, NoBlock, RepairHit, Download, NoBlob, RepairRead, Repaired, Served, MayRead
<1>2. got' = got \/ \E rev : Landed(q, b, rev)
  BY DEF Claim, ReadBlock, Short, NoBlock, RepairHit, Download, RepairRead, Repaired
<1>3. got'[r] = got[r] \/ r = q \/ r \in Followers(q, b)
  BY <1>2 DEF Landed
<1> QED
  BY <1>1, <1>3, FollowersFetch

(* The steps of Next, in these groups.                                      *)
LEMMA NextGroups ==
  ASSUME [Next]_vars
  PROVE  \/ UNCHANGED vars \/ Outside
         \/ \E r \in Threads : \/ Start(r) \/ Blob(r) \/ Look(r) \/ Peek(r) \/ Moves(r) \/ Ends(r)
                               \/ \E b \in Blocks : BlockStep(r, b)
BY DEF Next, Step, Outside, Moves, Ends, BlockStep

(* What a step of looking for a block does to the reads.                    *)
LEMMA LookFrame ==
  ASSUME TypeOK, ReadsKnown, NEW q \in Threads, Blob(q) \/ Look(q) \/ Peek(q), NEW r \in Threads
  PROVE  /\ UNCHANGED <<tag, want, reader, task>> /\ pc[q] \in {"blob", "look", "peek"}
         /\ mixed \subseteq mixed'
         /\ r # q => got'[r] = got[r] /\ pc'[r] = pc[r] /\ todo'[r] = todo[r]
         /\ r = q => /\ pc'[r] \in {"look", "peek", "reader", "done"}
                     /\ pc'[r] \in {"look", "peek"} => todo'[r] # {}
<1>1. UNCHANGED <<tag, want, reader, task>> /\ pc[q] \in {"blob", "look", "peek"} /\ mixed \subseteq mixed'
  BY DEF Blob, Look, Peek, Served
<1>2. \/ \E b, g : Looked(q, b, g)
      \/ pc[q] = "look" /\ pc' = [pc EXCEPT ![q] = "peek"] /\ UNCHANGED <<todo, got>>
      \/ Blob(q)
  BY DEF Look, Peek, Found, Goto
<1>3. CASE \E b, g : Looked(q, b, g)
  BY <1>1, <1>3 DEF Looked, Goto, TypeOK
<1>4. CASE pc[q] = "look" /\ pc' = [pc EXCEPT ![q] = "peek"] /\ UNCHANGED <<todo, got>>
  BY <1>1, <1>4 DEF ReadsKnown, TypeOK
<1>5. CASE Blob(q)
  <2>1. todo[q] # {} /\ todo' = todo /\ pc' \in {[pc EXCEPT ![q] = "done"], [pc EXCEPT ![q] = "look"]}
    BY <1>5 DEF Blob, Goto, ReadsKnown
  <2>2. r # q => got'[r] = got[r]
    BY <1>5 DEF Blob, TypeOK
  <2> QED
    BY <1>1, <2>1, <2>2 DEF TypeOK
<1> QED
  BY <1>2, <1>3, <1>4, <1>5

(* A step keeps each read at a version Drive has had.                       *)
LEMMA KnownStep ==
  ASSUME TypeOK, ReadsKnown, TasksFetch, [Next]_vars
  PROVE  ReadsKnown'
<1> USE Constants
<1> SUFFICES ASSUME NEW r \in Threads
             PROVE  /\ tag'[r] <= drive' /\ (pc'[r] # "idle" => tag'[r] # Nothing)
                    /\ pc'[r] = "idle" => got'[r] = NoBlocks
                    /\ pc'[r] \in {"blob", "look", "peek"} => todo'[r] # {}
  BY DEF ReadsKnown, NoBlocks
<1>1. /\ tag[r] <= drive /\ (pc[r] # "idle" => tag[r] # Nothing)
      /\ pc[r] = "idle" => got[r] = NoBlocks
      /\ pc[r] \in {"blob", "look", "peek"} => todo[r] # {}
  BY DEF ReadsKnown
<1>2. tag[r] \in Nat
  BY DEF TypeOK, Rev
<1>3. tag[r] <= drive'
  BY <1>1, <1>2, DriveStep
<1>4. CASE UNCHANGED vars \/ Outside
  BY <1>1, <1>3, <1>4, OutsideFrame DEF vars, readVars
<1>5. ASSUME NEW q \in Threads, Start(q)
      PROVE  /\ tag'[r] <= drive' /\ (pc'[r] # "idle" => tag'[r] # Nothing)
             /\ pc'[r] = "idle" => got'[r] = NoBlocks
             /\ pc'[r] \in {"blob", "look", "peek"} => todo'[r] # {}
  <2>1. CASE q = r
    <3>1. tag'[r] = tree /\ pc'[r] \in {"blob", "look"}
      BY <1>5, <2>1 DEF Start, Goto, TypeOK
    <3>2. todo'[r] # {}
      BY <1>5, <2>1 DEF Start, Goto, TypeOK
    <3>3. tree \in Nat /\ tree # Nothing /\ tree <= drive
      BY DEF TypeOK, Versions, Nothing
    <3> QED
      BY <3>1, <3>2, <3>3, DriveStep
  <2>2. CASE q # r
    <3>1. tag'[r] = tag[r] /\ pc'[r] = pc[r] /\ got'[r] = got[r] /\ todo'[r] = todo[r]
      BY <1>5, <2>2 DEF Start, Goto, TypeOK
    <3> QED
      BY <1>1, <1>3, <3>1
  <2> QED
    BY <2>1, <2>2
<1>6. ASSUME NEW q \in Threads, Blob(q) \/ Look(q) \/ Peek(q)
      PROVE  /\ tag'[r] <= drive' /\ (pc'[r] # "idle" => tag'[r] # Nothing)
             /\ pc'[r] = "idle" => got'[r] = NoBlocks
             /\ pc'[r] \in {"blob", "look", "peek"} => todo'[r] # {}
  <2>1. CASE q = r
    BY <1>1, <1>3, <1>6, <2>1, LookFrame
  <2>2. CASE q # r
    BY <1>1, <1>3, <1>6, <2>2, LookFrame
  <2> QED
    BY <2>1, <2>2
<1>7. ASSUME NEW q \in Threads, Moves(q)
      PROVE  /\ tag'[r] <= drive' /\ (pc'[r] # "idle" => tag'[r] # Nothing)
             /\ pc'[r] = "idle" => got'[r] = NoBlocks
             /\ pc'[r] \in {"blob", "look", "peek"} => todo'[r] # {}
  BY <1>1, <1>3, <1>7, MovesFrame
<1>8. ASSUME NEW q \in Threads, Ends(q)
      PROVE  /\ tag'[r] <= drive' /\ (pc'[r] # "idle" => tag'[r] # Nothing)
             /\ pc'[r] = "idle" => got'[r] = NoBlocks
             /\ pc'[r] \in {"blob", "look", "peek"} => todo'[r] # {}
  BY <1>1, <1>3, <1>8, EndsFrame, DriveStep DEF Nothing
<1>9. ASSUME NEW q \in Threads, NEW b \in Blocks, BlockStep(q, b)
      PROVE  /\ tag'[r] <= drive' /\ (pc'[r] # "idle" => tag'[r] # Nothing)
             /\ pc'[r] = "idle" => got'[r] = NoBlocks
             /\ pc'[r] \in {"blob", "look", "peek"} => todo'[r] # {}
  BY <1>1, <1>3, <1>9, FetchFrame
<1> QED
  BY <1>4, <1>5, <1>6, <1>7, <1>8, <1>9, NextGroups

-----------------------------------------------------------------------------
(* A step keeps the reader in the slot as new as the version it is for.      *)
LEMMA SlotStep ==
  ASSUME TypeOK, ReadsKnown, ReadersCurrent, [Next]_vars
  PROVE  slot'.tag <= drive' /\ (slot'.kind = "ready" => slot'.tag <= slot'.rev)
<1>0. slot.tag \in Nat /\ slot.tag <= drive /\ (slot.kind = "ready" => slot.tag <= slot.rev)
  BY DEF TypeOK, ReadersCurrent, Slots, Rev
<1>1. CASE slot' = slot
  BY <1>0, <1>1, DriveStep
<1>2. CASE slot' = NoSlot
  BY <1>2, DriveStep DEF NoSlot, Nothing
<1>3. ASSUME NEW r \in Threads, Lead(r)
      PROVE  slot'.tag <= drive' /\ (slot'.kind = "ready" => slot'.tag <= slot'.rev)
  BY <1>3, DriveStep DEF Lead, ReadsKnown, TypeOK, Rev, driveVars
<1>4. ASSUME NEW r \in Threads, Open(r)
      PROVE  slot'.tag <= drive' /\ (slot'.kind = "ready" => slot'.tag <= slot'.rev)
  <2>1. drive' = drive
    BY <1>4 DEF Open, driveVars
  <2>2. CASE Ours(r)
    <3>1. slot' = [slot EXCEPT !.kind = "ready", !.rev = drive]
      BY <1>4, <2>2 DEF Open
    <3>2. slot'.tag = slot.tag /\ slot'.rev = drive
      BY <3>1 DEF TypeOK, Slots
    <3> QED
      BY <1>0, <2>1, <3>2
  <2>3. CASE ~Ours(r)
    BY <1>1, <1>4, <2>3 DEF Open
  <2> QED
    BY <2>2, <2>3
<1>5. ASSUME Outside \/ UNCHANGED vars PROVE slot' = slot \/ slot' = NoSlot
  BY <1>5 DEF Outside, vars, DriveChanges, Hear, Refresh, Pressure, Evict, Evicted, StoreRename, StoreMeta,
     Seal, FetchContent, ReadBack, AdoptRename, AdoptMeta
<1>6. ASSUME NEW r \in Threads, Start(r) \/ Blob(r) \/ Look(r) \/ Peek(r) \/ Ends(r)
      PROVE  slot' = slot \/ slot' = NoSlot
  BY <1>6 DEF Start, Blob, Look, Peek, Ends, GiveUp, Offline, Answer, EvictReader, Evicted
<1>7. ASSUME NEW r \in Threads, Moves(r)
      PROVE  slot' = slot \/ slot' = NoSlot \/ Lead(r) \/ Open(r)
  BY <1>7 DEF Moves, Hit, Join, OpenFails, Fetched, FetchFails, Retry, Deadline
<1>8. ASSUME NEW r \in Threads, NEW b \in Blocks, BlockStep(r, b) PROVE slot' = slot
  BY <1>8 DEF BlockStep, Claim, ReadBlock, Short, NoBlock, RepairHit, Download, RepairRead, Repaired
<1> QED
  BY <1>1, <1>2, <1>3, <1>4, <1>5, <1>6, <1>7, <1>8, NextGroups

(* A read that fetches has a reader as new as the version it reads, its own  *)
(* or that of the open it joined.                                           *)
LEMMA FetchingStep ==
  ASSUME TypeOK, ReadsKnown, TasksFetch, ReadersCurrent, [Next]_vars,
         NEW r \in Threads, pc'[r] = "fetch"
  PROVE  tag'[r] <= reader'[r]
<1>0. pc[r] = "fetch" => tag[r] <= reader[r]
  BY DEF ReadersCurrent
<1>1. CASE UNCHANGED vars \/ Outside
  BY <1>0, <1>1, OutsideFrame DEF vars, readVars
<1>2. ASSUME NEW q \in Threads, Start(q) PROVE tag'[r] <= reader'[r]
  BY <1>0, <1>2 DEF Start, Goto, TypeOK
<1>3. ASSUME NEW q \in Threads, Blob(q) \/ Look(q) \/ Peek(q) PROVE tag'[r] <= reader'[r]
  BY <1>0, <1>3, LookFrame
<1>4. ASSUME NEW q \in Threads, Ends(q) PROVE tag'[r] <= reader'[r]
  BY <1>0, <1>4, EndsFrame
<1>5. ASSUME NEW q \in Threads, NEW b \in Blocks, BlockStep(q, b) PROVE tag'[r] <= reader'[r]
  BY <1>0, <1>5, FetchFrame
<1>6. ASSUME NEW q \in Threads, Moves(q) PROVE tag'[r] <= reader'[r]
  <2>1. tag' = tag
    BY <1>6, MovesFrame
  <2>2. CASE Hit(q)
    <3>1. CASE q = r
      BY <2>1, <2>2, <3>1 DEF Hit, SlotFor, ReadersCurrent, TypeOK
    <3>2. CASE q # r
      BY <1>0, <2>1, <2>2, <3>2 DEF Hit, Goto, TypeOK
    <3> QED
      BY <3>1, <3>2
  <2>3. CASE Open(q)
    <3>1. CASE r \in {q} \cup Joined(q)
      BY <2>1, <2>3, <3>1 DEF Open, ReadsKnown, TypeOK
    <3>2. CASE r \notin {q} \cup Joined(q)
      BY <1>0, <2>1, <2>3, <3>2 DEF Open, TypeOK
    <3> QED
      BY <3>1, <3>2
  <2>4. CASE Moves(q) /\ ~Hit(q) /\ ~Open(q)
    <3>1. reader' = reader
      BY <2>4 DEF Moves, Join, Lead, OpenFails, Fetched, FetchFails, Retry, Deadline, readVars
    <3>2. pc[r] = "fetch"
      BY <2>4 DEF Moves, Join, Lead, OpenFails, Fetched, FetchFails, Retry, Deadline, Goto, Joined, TypeOK
    <3> QED
      BY <1>0, <2>1, <3>1, <3>2
  <2> QED
    BY <1>6, <2>2, <2>3, <2>4
<1> QED
  BY <1>1, <1>2, <1>3, <1>4, <1>5, <1>6, NextGroups

-----------------------------------------------------------------------------
(* What a file gives a read is as new as the version that is read, or that   *)
(* version is one of the mixed ones after.                                   *)
LEMMA ServedCurrent ==
  ASSUME NEW f, Stored(f), f.rev # Nothing, NEW t, Served(t, f.by)
  PROVE  t \in mixed' \/ t <= f.rev
BY DEF Stored, Served

(* One block more in the ring.                                              *)
LEMMA InsertCurrent ==
  ASSUME TypeOK, NEW more,
         ring.tag \in more \/ \A b \in Blocks : ring.has[b] # Nothing => ring.tag <= ring.has[b],
         NEW t \in Rev, NEW b \in Blocks, NEW rev \in Rev, t \in more \/ t <= rev
  PROVE  LET new == Insert(t, b, rev) IN
         new.tag \in more \/ \A c \in Blocks : new.has[c] # Nothing => new.tag <= new.has[c]
<1> DEFINE new == Insert(t, b, rev)
<1>1. CASE ring.tag # t
  <2>1. new.tag = t /\ \A c \in Blocks : new.has[c] = IF c = b THEN rev ELSE Nothing
    BY <1>1, Values DEF Insert, NoBlocks
  <2> HIDE DEF new
  <2>2. new.tag \in more \/ \A c \in Blocks : new.has[c] # Nothing => new.tag <= new.has[c]
    BY <2>1
  <2> QED
    BY <2>2 DEF new
<1>2. CASE ring.tag = t /\ ring.has[b] # Nothing
  BY <1>2 DEF Insert
<1>3. CASE ring.tag = t /\ ring.has[b] = Nothing
  <2>1. new.tag = t /\ \A c \in Blocks : new.has[c] = IF c = b THEN rev ELSE ring.has[c]
    BY <1>3 DEF Insert, TypeOK, Rings
  <2> HIDE DEF new
  <2>2. new.tag \in more \/ \A c \in Blocks : new.has[c] # Nothing => new.tag <= new.has[c]
    BY <1>3, <2>1
  <2> QED
    BY <2>2 DEF new
<1> QED
  BY <1>1, <1>2, <1>3

(* A block that a fetch lands is as new as the version the fetch is for, or   *)
(* that version is one of the mixed ones after; no fetch replaces a file.     *)
LEMMA LandsCurrent ==
  ASSUME Inv, NEW r \in Threads, NEW b \in Blocks, BlockStep(r, b)
  PROVE  /\ UNCHANGED <<disk, whole>>
         /\ \/ UNCHANGED <<got, ring, stores>>
            \/ \E rev \in Rev : (tag[r] \in mixed' \/ tag[r] <= rev) /\ Landed(r, b, rev) /\ Keep(r, b, rev)
<1> USE DEF Inv, cacheVars, readVars
<1>1. pc[r] = "fetch" /\ tag[r] <= reader[r] /\ reader[r] \in Rev
  BY FetchFrame DEF ReadersCurrent, TypeOK
<1>2. CASE Claim(r, b) \/ Short(r, b) \/ NoBlock(r, b) \/ RepairHit(r, b) \/ Download(r, b) \/ RepairRead(r, b)
  BY <1>2 DEF Claim, Short, NoBlock, RepairHit, Download, RepairRead
<1>3. CASE ReadBlock(r, b)
  BY <1>1, <1>3 DEF ReadBlock
<1>4. CASE Repaired(r, b)
  <2>1. whole.rev \in Rev /\ whole.rev # Nothing /\ Stored(whole)
    BY <1>4 DEF Repaired, BlobThere, CachesCurrent, TypeOK, Files
  <2>2. tag[r] \in mixed' \/ tag[r] <= whole.rev
    BY <1>4, <2>1, ServedCurrent DEF Repaired
  <2> QED
    BY <1>4, <2>1, <2>2 DEF Repaired
<1> QED
  BY <1>2, <1>3, <1>4 DEF BlockStep

(* A version that was mixed stays so.                                        *)
LEMMA MixedStep ==
  ASSUME Inv, [Next]_vars
  PROVE  mixed \subseteq mixed'
<1>1. ASSUME NEW q \in Threads, Start(q) PROVE mixed' = mixed
  BY <1>1 DEF Start
<1>2. ASSUME NEW q \in Threads, Blob(q) \/ Look(q) \/ Peek(q) PROVE mixed \subseteq mixed'
  BY <1>2, LookFrame DEF Inv
<1>3. ASSUME NEW q \in Threads, Moves(q) PROVE mixed' = mixed
  BY <1>3, MovesFrame DEF Inv
<1>4. ASSUME NEW q \in Threads, Ends(q) PROVE mixed' = mixed
  BY <1>4, EndsFrame DEF Inv
<1>5. ASSUME NEW q \in Threads, NEW b \in Blocks, BlockStep(q, b) PROVE mixed \subseteq mixed'
  BY <1>5, FetchFrame DEF Inv
<1>6. CASE UNCHANGED vars \/ Outside
  BY <1>6, OutsideFrame DEF vars
<1> QED
  BY <1>1, <1>2, <1>3, <1>4, <1>5, <1>6, NextGroups

(* A step keeps the ring's blocks as new as its tag.                         *)
LEMMA RingStep ==
  ASSUME Inv, [Next]_vars
  PROVE  ring'.tag \in mixed' \/ \A b \in Blocks : ring'.has[b] # Nothing => ring'.tag <= ring'.has[b]
<1> USE DEF Inv
<1> DEFINE Ok == ring'.tag \in mixed' \/ \A b \in Blocks : ring'.has[b] # Nothing => ring'.tag <= ring'.has[b]
<1>0. ring.tag \in mixed' \/ \A b \in Blocks : ring.has[b] # Nothing => ring.tag <= ring.has[b]
  BY MixedStep DEF CachesCurrent
<1>1. CASE ring' = ring
  BY <1>0, <1>1
<1>2. CASE ring' = NoRing
  BY <1>2 DEF NoRing, NoBlocks
<1>3. CASE Outside
  <2>1. CASE \E b \in Blocks : ring' = [ring EXCEPT !.has[b] = Nothing]
    <3>1. PICK b \in Blocks : ring' = [ring EXCEPT !.has[b] = Nothing]
      BY <2>1
    <3>2. ring'.tag = ring.tag /\ \A c \in Blocks : ring'.has[c] = IF c = b THEN Nothing ELSE ring.has[c]
      BY <3>1 DEF TypeOK, Rings
    <3> QED
      BY <1>0, <3>2
  <2> QED
    BY <1>1, <1>2, <1>3, <2>1 DEF Outside, DriveChanges, Hear, Refresh, Pressure, Evict, StoreRename, StoreMeta,
       Seal, FetchContent, ReadBack, AdoptRename, AdoptMeta, cacheVars
<1>4. ASSUME NEW r \in Threads, Peek(r) PROVE Ok
  <2> DEFINE b == Min(todo[r])
  <2>1. b \in Blocks /\ tag[r] \in Rev
    BY <1>4, LookedFor DEF Peek, TypeOK
  <2>2. disk[b].rev \in Rev /\ Stored(disk[b])
    BY <2>1 DEF TypeOK, Files, CachesCurrent
  <2>3. CASE disk[b].rev = Nothing
    BY <1>1, <1>4, <2>3 DEF Peek
  <2>4. CASE disk[b].rev # Nothing
    <3>1. ring' = Insert(tag[r], b, disk[b].rev) /\ Served(tag[r], disk[b].by)
      BY <1>4, <2>4 DEF Peek
    <3>2. tag[r] \in mixed' \/ tag[r] <= disk[b].rev
      BY <2>2, <2>4, <3>1, ServedCurrent
    <3> QED
      BY <1>0, <2>1, <2>2, <3>1, <3>2, InsertCurrent
  <2> QED
    BY <2>3, <2>4
<1>5. ASSUME NEW r \in Threads, NEW b \in Blocks, BlockStep(r, b) PROVE Ok
  <2>1. tag[r] \in Rev
    BY DEF TypeOK
  <2>2. ring' = ring \/ \E rev \in Rev : (tag[r] \in mixed' \/ tag[r] <= rev) /\ ring' = Insert(tag[r], b, rev)
    BY <1>5, LandsCurrent DEF Keep
  <2> QED
    BY <1>0, <1>1, <2>1, <2>2, InsertCurrent
<1>6. ASSUME NEW r \in Threads, Start(r) \/ Blob(r) \/ Look(r) PROVE ring' = ring
  BY <1>6 DEF Start, Blob, Look, cacheVars
<1>7. ASSUME NEW r \in Threads, Moves(r) PROVE ring' = ring
  BY <1>7 DEF Moves, Hit, Join, Lead, Open, OpenFails, Fetched, FetchFails, Retry, Deadline, cacheVars
<1>8. ASSUME NEW r \in Threads, Ends(r) PROVE ring' = ring \/ ring' = NoRing
  BY <1>8 DEF Ends, GiveUp, Offline, Answer, EvictReader, cacheVars
<1>9. CASE UNCHANGED vars
  BY <1>1, <1>9 DEF vars, cacheVars
<1> QED
  BY <1>1, <1>2, <1>3, <1>4, <1>5, <1>6, <1>7, <1>8, <1>9, NextGroups

(* The steps that write no file and start no store: all but the ones that    *)
(* are named.                                                                *)
LEMMA FilesFrame ==
  ASSUME [Next]_vars
  PROVE  \/ UNCHANGED <<disk, whole, stores, adopts>>
         \/ Hear \/ Pressure \/ Seal \/ FetchContent
         \/ \E s \in stores : StoreRename(s) \/ StoreMeta(s)
         \/ \E s \in adopts : ReadBack(s) \/ AdoptRename(s) \/ AdoptMeta(s)
         \/ \E r \in Threads, b \in Blocks : ReadBlock(r, b) \/ Repaired(r, b) \/ Download(r, b)
<1>1. ASSUME NEW r \in Threads, Start(r) \/ Blob(r) \/ Look(r) \/ Peek(r) \/ Moves(r) \/ Ends(r)
      PROVE  UNCHANGED <<disk, whole, stores, adopts>>
  BY <1>1 DEF Start, Blob, Look, Peek, Moves, Hit, Join, Lead, Open, OpenFails, Fetched, FetchFails, Retry,
     Deadline, Ends, GiveUp, Offline, Answer, EvictReader, cacheVars
<1>2. ASSUME NEW r \in Threads, NEW b \in Blocks, BlockStep(r, b)
      PROVE  UNCHANGED <<disk, whole, stores, adopts>> \/ ReadBlock(r, b) \/ Repaired(r, b) \/ Download(r, b)
  BY <1>2 DEF BlockStep, Claim, Short, NoBlock, RepairHit, RepairRead, cacheVars
<1>3. CASE DriveChanges \/ Refresh \/ Evict \/ UNCHANGED vars
  BY <1>3 DEF DriveChanges, Refresh, Evict, vars, cacheVars
<1> QED
  BY <1>1, <1>2, <1>3, NextGroups DEF Outside

(* A step keeps the block files, and what is to be stored in them, as new as  *)
(* the version they are for.                                                 *)
LEMMA BlocksStep ==
  ASSUME Inv, [Next]_vars
  PROVE  (\A b \in Blocks : Stored(disk[b])') /\ (\A s \in stores' : s.tag \in mixed' \/ s.tag <= s.rev)
<1> USE DEF Inv
<1> DEFINE Good(f) == (f.by \in mixed' \/ f.by <= f.rev) /\ (f.by = Nothing => f.rev = Nothing)
           Disk == \A b \in Blocks : Good(disk'[b])
           Tasks == \A s \in stores' : s.tag \in mixed' \/ s.tag <= s.rev
<1> SUFFICES Disk /\ Tasks
  BY DEF Stored
<1>1. (\A b \in Blocks : Good(disk[b])) /\ \A s \in stores : s.tag \in mixed' \/ s.tag <= s.rev
  BY MixedStep DEF CachesCurrent, Stored
<1>2. CASE UNCHANGED <<disk, stores>>
  BY <1>1, <1>2
<1>3. CASE Hear \/ Pressure
  <2>1. stores' = stores /\ \A b \in Blocks : disk'[b] = disk[b] \/ disk'[b] = Missing
    BY <1>3 DEF Hear, Pressure, TypeOK
  <2>2. Good(Missing)
    BY DEF Missing, Nothing
  <2> QED
    BY <1>1, <2>1, <2>2
<1>4. ASSUME NEW s \in stores, StoreRename(s) \/ StoreMeta(s) PROVE Disk /\ Tasks
  <2>1. s.block \in Blocks /\ s.tag \in Versions /\ s \in Stores
    BY DEF TypeOK, Stores
  <2>2. Tasks
    <3>1. [s EXCEPT !.step = "meta"].tag = s.tag /\ [s EXCEPT !.step = "meta"].rev = s.rev
      BY <2>1 DEF Stores
    <3> QED
      BY <1>1, <1>4, <3>1 DEF StoreRename, StoreMeta
  <2>3. Disk
    <3>1. ASSUME NEW b \in Blocks
          PROVE  \/ disk'[b].by = disk[b].by /\ disk'[b].rev = disk[b].rev
                 \/ disk'[b].by = s.tag /\ disk'[b].rev = s.rev
      <4>1. disk[b] \in Files /\ disk[s.block] \in Files
        BY <2>1 DEF TypeOK
      <4>2. CASE b # s.block
        BY <1>4, <2>1, <4>2 DEF StoreRename, StoreMeta, TypeOK
      <4>3. CASE b = s.block /\ StoreRename(s)
        <5>1. disk'[b] = [[disk[b] EXCEPT !.by = s.tag] EXCEPT !.rev = s.rev]
          BY <2>1, <4>3 DEF StoreRename, TypeOK
        <5> QED
          BY <4>1, <5>1 DEF Files
      <4>4. CASE b = s.block /\ StoreMeta(s)
        <5>1. disk'[b] = [disk[b] EXCEPT !.tag = s.tag]
          BY <2>1, <4>4 DEF StoreMeta, TypeOK
        <5> QED
          BY <4>1, <5>1 DEF Files
      <4> QED
        BY <1>4, <4>2, <4>3, <4>4
    <3>2. s.tag # Nothing
      BY <2>1 DEF Versions, Nothing
    <3> QED
      BY <1>1, <3>1, <3>2
  <2> QED
    BY <2>2, <2>3
<1>5. ASSUME NEW r \in Threads, NEW b \in Blocks, BlockStep(r, b) PROVE Disk /\ Tasks
  <2>1. \/ stores' = stores
        \/ \E rev \in Rev : (tag[r] \in mixed' \/ tag[r] <= rev) /\ Keep(r, b, rev)
    BY <1>5, LandsCurrent
  <2>2. disk' = disk
    BY <1>5, LandsCurrent
  <2>3. Tasks
    BY <1>1, <2>1 DEF Keep
  <2> QED
    BY <1>1, <2>2, <2>3
<1>6. CASE Seal \/ FetchContent \/ \E s \in adopts : ReadBack(s) \/ AdoptRename(s) \/ AdoptMeta(s)
  BY <1>2, <1>6 DEF Seal, FetchContent, ReadBack, AdoptRename, AdoptMeta
<1> HIDE DEF Disk, Tasks, Inv
<1> QED
  BY <1>2, <1>3, <1>4, <1>5, <1>6, FilesFrame DEF BlockStep

(* So is the blob of the whole file: what is renamed into place was stored    *)
(* for a version that its bytes are not older than.                          *)
LEMMA WholeStep ==
  ASSUME Inv, [Next]_vars
  PROVE  Stored(whole)'
<1> USE DEF Inv
<1> DEFINE Good(f) == (f.by \in mixed' \/ f.by <= f.rev) /\ (f.by = Nothing => f.rev = Nothing)
<1>1. Good(whole) /\ Good(Missing) /\ whole \in Files
  BY MixedStep DEF CachesCurrent, Stored, Missing, Nothing, TypeOK
<1>2. CASE whole' = whole \/ whole' = Missing
  BY <1>1, <1>2 DEF Stored
<1>3. ASSUME NEW s \in adopts, AdoptRename(s) PROVE Stored(whole)'
  <2>1. s.tag # Nothing /\ (s.tag \in mixed \/ s.tag <= s.rev)
    BY <1>3 DEF AdoptRename, CachesCurrent
  <2>2. whole'.by = s.tag /\ whole'.rev = s.rev
    BY <1>1, <1>3 DEF AdoptRename, Files
  <2> QED
    BY <2>1, <2>2, MixedStep DEF Stored
<1>4. ASSUME NEW s \in adopts, AdoptMeta(s) PROVE Stored(whole)'
  <2>1. whole'.by = whole.by /\ whole'.rev = whole.rev
    BY <1>1, <1>4 DEF AdoptMeta, Files
  <2> QED
    BY <1>1, <2>1 DEF Stored
<1>5. ASSUME NEW r \in Threads, NEW b \in Blocks, BlockStep(r, b) PROVE whole' = whole
  BY <1>5, LandsCurrent
<1>6. CASE Hear \/ Pressure \/ Seal \/ FetchContent
  BY <1>2, <1>6 DEF Hear, Pressure, Seal, FetchContent
<1>7. ASSUME NEW s \in stores, StoreRename(s) \/ StoreMeta(s) PROVE whole' = whole
  BY <1>7 DEF StoreRename, StoreMeta
<1>8. ASSUME NEW s \in adopts, ReadBack(s) PROVE whole' = whole
  BY <1>8 DEF ReadBack
<1> QED
  BY <1>2, <1>3, <1>4, <1>5, <1>6, <1>7, <1>8, FilesFrame DEF BlockStep

(* And what is on its way there is, once it has a version, a revision as new  *)
(* as that, or the version is one of the mixed ones.                         *)
LEMMA AdoptsStep ==
  ASSUME Inv, [Next]_vars
  PROVE  \A s \in adopts' :
           /\ s.rev <= drive' /\ s.tag <= drive'
           /\ s.step # "sealed" => s.tag # Nothing /\ (s.tag \in mixed' \/ s.tag <= s.rev)
<1> USE DEF Inv
<1> DEFINE Good(s) == /\ s.rev <= drive' /\ s.tag <= drive'
                      /\ s.step # "sealed" => s.tag # Nothing /\ (s.tag \in mixed' \/ s.tag <= s.rev)
<1>1. drive \in Nat /\ drive' \in Nat /\ drive <= drive' /\ drive # Nothing /\ tree \in Nat /\ 1 <= tree /\ tree <= drive
  BY DriveStep DEF TypeOK, Versions, Nothing
<1>2. \A s \in adopts : s \in Adopts /\ s.rev \in Versions /\ s.tag \in Rev /\ Good(s)
  BY <1>1, MixedStep DEF CachesCurrent, TypeOK, Adopts, Versions, Rev
<1>3. CASE adopts' \subseteq adopts
  BY <1>2, <1>3
<1>4. CASE Seal
  <2>1. Good(Adopt(Nothing, drive', "sealed", Drain))
    BY <1>1 DEF Adopt, Nothing
  <2> QED
    BY <1>2, <1>4, <2>1 DEF Seal
<1>5. CASE FetchContent
  <2>1. PICK t \in 1 .. tree : adopts' = adopts \cup {Adopt(t, drive, "rename", NoOne)}
    BY <1>5 DEF FetchContent
  <2>2. Good(Adopt(t, drive, "rename", NoOne))
    BY <1>1 DEF Adopt, Nothing
  <2> QED
    BY <1>2, <2>1, <2>2
<1>6. ASSUME NEW s \in adopts, NEW t, NEW step, Passes(s, t, step), step # "sealed",
             t \in Nat, t <= drive', t # Nothing, t \in mixed' \/ t <= s.rev
      PROVE  \A x \in adopts' : Good(x)
  <2> DEFINE new == [s EXCEPT !.tag = t, !.step = step]
  <2>1. new.tag = t /\ new.step = step /\ new.rev = s.rev
    BY <1>2 DEF Adopts
  <2>2. Good(new)
    BY <1>2, <1>6, <2>1
  <2>3. adopts' = (adopts \ {s}) \cup {new}
    BY <1>6 DEF Passes
  <2> QED
    BY <1>2, <2>2, <2>3
<1>7. ASSUME NEW s \in adopts, ReadBack(s) PROVE \A x \in adopts' : Good(x)
  <2>1. CASE \E t \in {drive, s.rev} : Passes(s, t, "rename") /\ mixed' = IF t = s.rev THEN mixed ELSE mixed \cup {t}
    <3>1. PICK t \in {drive, s.rev} : Passes(s, t, "rename") /\ mixed' = IF t = s.rev THEN mixed ELSE mixed \cup {t}
      BY <2>1
    <3>2. t \in Nat /\ t <= drive' /\ t # Nothing
      BY <1>1, <1>2 DEF Versions, Nothing
    <3>3. t \in mixed' \/ t <= s.rev
      BY <3>1, <3>2
    <3> QED
      BY <1>6, <3>1, <3>2, <3>3
  <2>2. CASE Done(s)
    BY <1>3, <2>2 DEF Done
  <2> QED
    BY <1>7, <2>1, <2>2 DEF ReadBack
<1>8. ASSUME NEW s \in adopts, AdoptRename(s) PROVE \A x \in adopts' : Good(x)
  <2>1. s.tag \in Nat /\ s.tag <= drive' /\ s.tag # Nothing /\ (s.tag \in mixed' \/ s.tag <= s.rev)
    BY <1>2, <1>8 DEF AdoptRename, Rev
  <2> QED
    BY <1>6, <1>8, <2>1 DEF AdoptRename
<1>9. ASSUME NEW s \in adopts, AdoptMeta(s) PROVE \A x \in adopts' : Good(x)
  BY <1>3, <1>9 DEF AdoptMeta, Done
<1>10. ASSUME NEW r \in Threads, NEW b \in Blocks, Download(r, b) PROVE \A x \in adopts' : Good(x)
  <2>1. tag[r] \in Nat /\ tag[r] <= drive /\ tag[r] # Nothing
    BY <1>10 DEF Download, NoBlob, ReadsKnown, TypeOK, Rev
  <2>2. Good(Adopt(tag[r], drive, "rename", r))
    BY <1>1, <2>1 DEF Adopt
  <2> QED
    BY <1>2, <1>10, <2>2 DEF Download
<1>11. ASSUME NEW r \in Threads, NEW b \in Blocks, ReadBlock(r, b) \/ Repaired(r, b) PROVE adopts' = adopts
  BY <1>11 DEF ReadBlock, Repaired
<1>12. CASE Hear \/ Pressure \/ \E s \in stores : StoreRename(s) \/ StoreMeta(s)
  BY <1>3, <1>12 DEF Hear, Pressure, StoreRename, StoreMeta
<1> QED
  BY <1>3, <1>4, <1>5, <1>7, <1>8, <1>9, <1>10, <1>11, <1>12, FilesFrame

-----------------------------------------------------------------------------
(* A step gives no read a block that is older than its version.               *)
LEMMA OlderStep ==
  ASSUME Inv, [Next]_vars
  PROVE  NeverOlder'
<1> USE DEF Inv
<1> SUFFICES ASSUME NEW r \in Threads, NEW b \in Blocks, got'[r][b] # Nothing, tag'[r] \notin mixed'
             PROVE  tag'[r] <= got'[r][b]
  <2>1. \A r \in Threads, b \in Blocks : tag'[r] \in Nat /\ got'[r][b] \in Nat
    BY TypeStep DEF TypeOK, Rev
  <2> QED
    BY <2>1 DEF NeverOlder
<1>0. got[r][b] # Nothing /\ tag[r] \notin mixed => tag[r] <= got[r][b]
  BY DEF NeverOlder, TypeOK, Rev
<1>1. CASE tag'[r] = tag[r] /\ got'[r][b] = got[r][b]
  BY <1>0, <1>1, MixedStep
<1>2. CASE UNCHANGED vars \/ Outside
  BY <1>1, <1>2, OutsideFrame DEF vars, readVars
<1>3. ASSUME NEW q \in Threads, Start(q) PROVE tag'[r] <= got'[r][b]
  <2>1. CASE q # r
    BY <1>1, <1>3, <2>1 DEF Start, TypeOK
  <2>2. CASE q = r
    <3>1. got' = got /\ got[r] = NoBlocks
      BY <1>3, <2>2 DEF Start, ReadsKnown
    <3> QED
      BY <3>1 DEF NoBlocks
  <2> QED
    BY <2>1, <2>2
<1>4. ASSUME NEW q \in Threads, Look(q) \/ Peek(q) PROVE tag'[r] <= got'[r][b]
  <2>1. CASE q # r
    BY <1>1, <1>4, <2>1, LookFrame
  <2>2. CASE q = r
    <3> DEFINE c == Min(todo[r])
    <3>1. c \in Blocks /\ tag' = tag
      BY <1>4, <2>2, LookedFor, LookFrame
    <3>2. CASE b # c
      <4>1. got'[r][b] = got[r][b]
        BY <1>4, <2>2, <3>2 DEF Look, Peek, Found, Looked, TypeOK
      <4> QED
        BY <1>1, <3>1, <4>1
    <3>3. CASE b = c /\ Look(r)
      <4>1. \/ got'[r][b] = got[r][b]
            \/ RingHas(tag[r], c) /\ got'[r][b] = ring.has[b]
        BY <3>1, <3>3 DEF Look, Found, Looked, TypeOK
      <4>2. CASE RingHas(tag[r], c) /\ got'[r][b] = ring.has[b]
        <5>1. ring.tag = tag[r] /\ ring.tag \notin mixed
          BY <3>1, <3>3, <4>2 DEF RingHas, Look
        <5> QED
          BY <3>1, <4>2, <5>1 DEF CachesCurrent
      <4> QED
        BY <1>1, <3>1, <4>1, <4>2
    <3>4. CASE b = c /\ Peek(r)
      <4>1. got'[r][b] = disk[b].rev /\ Served(tag[r], disk[b].by)
        BY <3>1, <3>4 DEF Peek, Found, Looked, TypeOK
      <4>2. Stored(disk[b])
        BY DEF CachesCurrent
      <4> QED
        BY <3>1, <4>1, <4>2, ServedCurrent
    <3> QED
      BY <1>4, <2>2, <3>2, <3>3, <3>4
  <2> QED
    BY <2>1, <2>2
<1>5. ASSUME NEW q \in Threads, Moves(q) PROVE tag'[r] <= got'[r][b]
  <2>1. tag' = tag
    BY <1>5, MovesFrame
  <2>2. got' = got \/ got' = [got EXCEPT ![q] = [c \in Blocks |-> IF c \in todo[q] THEN Nothing ELSE got[q][c]]]
    BY <1>5 DEF Moves, Hit, Join, Lead, Open, OpenFails, Fetched, FetchFails, Retry, Deadline, readVars, TypeOK
  <2>3. got'[r][b] = got[r][b] \/ got'[r][b] = Nothing
    <3>1. CASE got' = got
      BY <3>1
    <3>2. CASE r # q
      BY <2>2, <3>2 DEF TypeOK
    <3>3. CASE r = q /\ got' # got
      <4>1. got'[r] = [c \in Blocks |-> IF c \in todo[q] THEN Nothing ELSE got[q][c]]
        BY <2>2, <3>3 DEF TypeOK
      <4> QED
        BY <3>3, <4>1
    <3> QED
      BY <3>1, <3>2, <3>3
  <2> QED
    BY <1>1, <2>1, <2>3
<1>6. ASSUME NEW q \in Threads, Ends(q) PROVE tag'[r] <= got'[r][b]
  <2>1. CASE q = r
    BY <1>6, <2>1, EndsFrame DEF NoBlocks
  <2>2. CASE q # r
    BY <1>1, <1>6, <2>2, EndsFrame
  <2> QED
    BY <2>1, <2>2
<1>7. ASSUME NEW q \in Threads, NEW c \in Blocks, BlockStep(q, c) PROVE tag'[r] <= got'[r][b]
  <2>1. tag' = tag
    BY <1>7, FetchFrame
  <2>2. CASE got' = got
    BY <1>1, <2>1, <2>2
  <2>3. ASSUME NEW rev \in Rev, tag[q] \in mixed' \/ tag[q] <= rev, Landed(q, c, rev) PROVE tag'[r] <= got'[r][b]
    <3>1. CASE r \in {q} \cup Followers(q, c) /\ b = c
      <4>1. tag[r] = tag[q]
        BY <3>1, FollowersFetch
      <4>2. got'[r][b] = rev
        BY <2>3, <3>1 DEF Landed, TypeOK
      <4> QED
        BY <2>1, <2>3, <4>1, <4>2
    <3>2. CASE ~(r \in {q} \cup Followers(q, c) /\ b = c)
      <4>1. got'[r][b] = got[r][b]
        BY <2>3, <3>2 DEF Landed, TypeOK
      <4> QED
        BY <1>1, <2>1, <4>1
    <3> QED
      BY <3>1, <3>2
  <2> QED
    BY <1>7, <2>2, <2>3, LandsCurrent
<1>8. ASSUME NEW q \in Threads, Blob(q) PROVE tag'[r] <= got'[r][b]
  <2>1. tag' = tag
    BY <1>8, LookFrame
  <2>2. CASE got'[r][b] = got[r][b]
    BY <1>1, <2>1, <2>2
  <2>3. CASE got'[r][b] # got[r][b]
    <3>1. q = r /\ got'[r][b] = whole.rev /\ Served(tag[r], whole.by)
      BY <1>8, <2>3 DEF Blob, TypeOK
    <3>2. Stored(whole)
      BY DEF CachesCurrent
    <3> QED
      BY <2>1, <3>1, <3>2, ServedCurrent
  <2> QED
    BY <2>2, <2>3
<1> QED
  BY <1>2, <1>3, <1>4, <1>5, <1>6, <1>7, <1>8, NextGroups

-----------------------------------------------------------------------------
(* The invariant holds in every state, for any threads, blocks and bounds.    *)
THEOREM Invariance == Spec => []Inv
<1>1. Inv /\ [Next]_vars => Inv'
  <2> SUFFICES ASSUME Inv, [Next]_vars PROVE Inv'
    OBVIOUS
  <2>1. TypeOK' /\ ReadsKnown' /\ TasksFetch'
    BY TypeStep, KnownStep, TasksStep DEF Inv
  <2>2. ReadersCurrent'
    BY SlotStep, FetchingStep DEF Inv, ReadersCurrent
  <2>3. CachesCurrent'
    BY RingStep, BlocksStep, WholeStep, AdoptsStep DEF CachesCurrent
  <2> QED
    BY <2>1, <2>2, <2>3, OlderStep DEF Inv
<1> QED
  BY <1>1, InitInv, PTL DEF Spec

(* A read is never given bytes older than the version it reads, whichever     *)
(* opens, fetches, stores and uploads for earlier versions end late, and      *)
(* whoever fails or gives up meanwhile (revision_reader, fetch_block,         *)
(* BlockRing, store_file), but for the versions in mixed: the file of a block *)
(* or of the whole was replaced between its .meta and the open of it, or an   *)
(* upload was stored under the version of somebody else's revision that       *)
(* Drive had by the time it was asked (refresh_after_upload).                 *)
THEOREM ReadsNeverOlder == Spec => []NeverOlder
<1>1. Inv => NeverOlder
  BY DEF Inv
<1> QED
  BY <1>1, Invariance, PTL
=============================================================================
