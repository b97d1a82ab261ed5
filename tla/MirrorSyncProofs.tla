-------------------------- MODULE MirrorSyncProofs --------------------------
(***************************************************************************)
(* A pass over a synced folder loses no edit, records as synced only what  *)
(* is the same on both sides and deletes only what was deleted, for any    *)
(* number of paths, versions, revisions, foreign changes and failures: Inv *)
(* of MirrorSyncInv is inductive while NoWindow.                           *)
(***************************************************************************)
EXTENDS MirrorSyncInv, FiniteSetTheorems, TLAPS

(* The assumptions on the constants, and the sets they span.               *)
LEMMA Constants ==
  /\ IsFiniteSet(Paths) /\ Cardinality(Paths) \in Nat
  /\ Others \in Nat /\ MaxVersion \in Nat \ {0} /\ MaxRev \in Nat \ {0}
  /\ Cardinality(Paths) <= MaxVersion /\ Cardinality(Paths) <= MaxRev
  /\ MaxForeign \in Nat /\ MaxFault \in Nat
BY MirrorAssumption, FS_CardinalityType

LEMMA Contents ==
  /\ None = 0 /\ None \in Content /\ None \notin Rev
  /\ Content \subseteq Int /\ Version \subseteq Content /\ Rev \subseteq Int
BY Constants DEF None, Content, Version, Rev, Torn

LEMMA Numbers ==
  /\ \A r : r \in Rev <=> r \in Int /\ 1 <= r /\ r <= MaxRev
  /\ \A v : v \in Version <=> v \in Int /\ 1 <= v /\ v <= MaxVersion
BY Constants DEF Rev, Version

LEMMA TornType ==
  ASSUME NEW r \in Rev
  PROVE  Torn(r) \in Content /\ Torn(r) \in Int /\ Torn(r) < 0 /\ Torn(r) \notin Version
BY Constants, Numbers DEF Torn, Content, Rev

LEMMA Values ==
  /\ Unseen \in Seen /\ Unscanned \in Scanned
  /\ NoRow.local = None /\ NoRow.stamp = None /\ NoRow.rev = None /\ NoRow \notin Row
BY Contents DEF Unseen, Seen, Unscanned, Scanned, NoRow, Row

(* What is at a path is well formed.                                       *)
LEMMA FileType ==
  ASSUME TypeOK, NEW p \in Paths
  PROVE  /\ file[p] \in Content /\ file[p] \in Int /\ got[p] \in Content /\ got[p] \in Int
         /\ drive[p] \in Int /\ (drive[p] # None => drive[p] \in Rev /\ tip[drive[p]] \in Rev)
         /\ sent[p] \in Int /\ (sent[p] # None => sent[p] \in Rev)
<1>1. file[p] \in Content /\ got[p] \in Content 
  BY DEF TypeOK
<1>2. drive[p] \in Rev \cup {None} /\ sent[p] \in Rev \cup {None} /\ \A r \in Rev : tip[r] \in Rev
  BY DEF TypeOK
<1> QED
  BY <1>1, <1>2, Contents

LEMMA RowType ==
  ASSUME TypeOK, NEW p \in Paths
  PROVE  /\ base[p] \in Row \cup {NoRow}
         /\ base[p].local \in Content /\ base[p].local \in Int
         /\ base[p].stamp \in Content /\ base[p].stamp \in Int
         /\ base[p].rev \in Int /\ (base[p].rev # None => base[p].rev \in Rev)
         /\ base[p] # NoRow => base[p].local # None /\ base[p].stamp # None
<1>1. base[p] \in Row \cup {NoRow}
  BY DEF TypeOK
<1>2. CASE base[p] \in Row
  <2>1. /\ base[p].local \in Content \ {None} /\ base[p].stamp \in Content \ {None}
        /\ base[p].rev \in Rev \cup {None}
    BY <1>2 DEF Row
  <2> QED
    BY <1>1, <2>1, Contents
<1>3. CASE base[p] = NoRow
  BY <1>1, <1>3, Contents, Values
<1> QED
  BY <1>1, <1>2, <1>3

LEMMA SeenType ==
  ASSUME TypeOK, NEW p \in Paths
  PROVE  /\ walk[p] \in Seen /\ scan[p] \in Scanned
         /\ walk[p].node \in Int /\ (walk[p].node # None => walk[p].node \in Rev /\ tip[walk[p].node] \in Rev)
         /\ walk[p].rev \in Int /\ (walk[p].rev # None => walk[p].rev \in Rev)
         /\ scan[p].content \in Content /\ scan[p].content \in Int
<1>1. walk[p] \in Seen /\ scan[p] \in Scanned /\ \A r \in Rev : tip[r] \in Rev
  BY DEF TypeOK
<1>2. walk[p].node \in Rev \cup {None} /\ walk[p].rev \in Rev \cup {None}
  BY <1>1 DEF Seen
<1>3. scan[p].content \in Content
  BY <1>1 DEF Scanned
<1> QED
  BY <1>1, <1>2, <1>3, Contents

LEMMA SealType ==
  ASSUME TypeOK, NEW r \in Rev
  PROVE  /\ seal[r] \in Revision
         /\ seal[r].body \in Content /\ seal[r].body \in Int /\ seal[r].body # None
         /\ seal[r].stamp \in Content /\ seal[r].stamp \in Int /\ seal[r].stamp # None
BY Contents DEF TypeOK, Revision

(* The initial states.                                                     *)
LEMMA InitInv == Init => Inv
<1> SUFFICES ASSUME Init PROVE Inv
  OBVIOUS
<1> USE Constants, Contents, Numbers, Values
<1> DEFINE N == Cardinality(Paths)
<1>1. PICK number \in [Paths -> 1 .. N], first \in BOOLEAN, differ \in BOOLEAN :
        /\ \A p, q \in Paths : number[p] = number[q] => p = q
        /\ differ => first
        /\ nver = N + (IF differ THEN N ELSE 0)
        /\ nver <= MaxVersion
        /\ file = [p \in Paths |-> number[p] + (IF differ THEN N ELSE 0)]
        /\ owed = IF differ THEN {file[p] : p \in Paths} ELSE {}
        /\ base = [p \in Paths |-> IF first THEN NoRow
                      ELSE [local |-> number[p], stamp |-> number[p], rev |-> number[p]]]
        /\ drive = number
  BY DEF Init
<1>2. nrev = N /\ nver \in 0 .. MaxVersion /\ N <= nver /\ N \in 0 .. MaxRev
  BY <1>1 DEF Init
<1> HIDE DEF N
<1>3. \A p \in Paths :
        /\ number[p] \in Rev /\ number[p] \in Version /\ number[p] <= N
        /\ file[p] = number[p] + (IF differ THEN N ELSE 0) /\ file[p] \in Version /\ file[p] <= nver
        /\ drive[p] = number[p]
        /\ base[p] = IF first THEN NoRow
                     ELSE [local |-> number[p], stamp |-> number[p], rev |-> number[p]]
  BY <1>1, <1>2
<1>4. \A r \in Rev : /\ tip[r] = r /\ seal[r] \in Revision
                     /\ r <= nrev => seal[r].body = r /\ seal[r].stamp = r
  BY <1>2 DEF Init, Revision
<1>5. TypeOK
  <2>1. file \in [Paths -> Content] /\ owed \subseteq Version /\ drive \in [Paths -> Rev \cup {None}]
    BY <1>1, <1>3
  <2>2. base \in [Paths -> Row \cup {NoRow}]
    <3>1. \A v \in Version : v \in Rev => [local |-> v, stamp |-> v, rev |-> v] \in Row
      BY DEF Row
    <3> QED
      BY <1>1, <1>3, <3>1
  <2>3. tip \in [Rev -> Rev] /\ seal \in [Rev -> Revision]
    BY <1>4 DEF Init
  <2>4. nrev \in 0 .. MaxRev /\ nver \in 0 .. MaxVersion
    BY <1>2
  <2>5. /\ copies \subseteq Content /\ busy \in [Paths -> BOOLEAN] /\ phase \in {"idle", "scanned", "applying"}
        /\ removed \subseteq Paths /\ trashed \subseteq Paths
        /\ foreigns \in 0 .. MaxForeign /\ faults \in 0 .. MaxFault
    BY DEF Init
  <2>6. scan \in [Paths -> Scanned] /\ walk \in [Paths -> Seen]
    BY DEF Init
  <2>7. step \in [Paths -> Step] /\ got \in [Paths -> Content] /\ sent \in [Paths -> Rev \cup {None}]
    BY DEF Init, Step
  <2> QED
    BY <2>1, <2>2, <2>3, <2>4, <2>5, <2>6, <2>7 DEF TypeOK
<1>6. Sealed
  BY <1>1, <1>2, <1>3, <1>4 DEF Sealed
<1>7. NoEditLost
  BY <1>1 DEF NoEditLost, Kept
<1>8. ASSUME NEW p \in Paths PROVE AtPath(p)
  <2>1. /\ step[p] = "done" /\ got[p] = None /\ sent[p] = None /\ phase = "idle"
        /\ walk[p].node = None /\ walk[p].rev = None
    BY DEF Init, Unseen
  <2>2. base[p] # NoRow => /\ ~differ /\ owed = {} /\ file[p] = number[p] /\ base[p].local = number[p]
                           /\ base[p].stamp = number[p] /\ base[p].rev = number[p]
    BY <1>1, <1>3
  <2>3. /\ file[p] \in Int /\ file[p] # None /\ file[p] <= nver
        /\ drive[p] \in Int /\ drive[p] # None /\ drive[p] <= nrev /\ nrev \in Int /\ nver \in Int
        /\ 0 <= nver /\ 0 <= nrev
    <3>1. nrev \in Int /\ nver \in Int /\ 0 <= nver /\ 0 <= nrev
      BY <1>2
    <3>2. file[p] \in Version /\ file[p] <= nver /\ drive[p] \in Rev /\ drive[p] <= nrev
      BY <1>2, <1>3
    <3> QED
      BY <3>1, <3>2
  <2>4. Numbered(p)
    <3>1. base[p].local <= nver /\ base[p].stamp <= nver /\ base[p].rev <= nrev
      BY <1>2, <1>3, <2>2
    <3> QED
      BY <2>1, <2>3, <3>1, Contents DEF Numbered
  <2>5. Stamped(p) /\ Resting(p)
    BY <1>2, <1>3, <1>4, <2>1, <2>2 DEF Stamped, Resting
  <2>6. Harmless(p)
    BY <1>2, <1>3, <2>1, <2>2 DEF Harmless, Safe, Replaced, Taking
  <2>7. Same(p)
    <3>1. base[p] # NoRow => file[p] = seal[tip[drive[p]]].body
      <4>1. drive[p] \in Rev /\ drive[p] <= nrev /\ drive[p] = number[p]
        BY <1>2, <1>3
      <4>2. tip[drive[p]] = drive[p] /\ seal[drive[p]].body = drive[p]
        BY <1>4, <4>1
      <4> QED
        BY <2>2, <4>1, <4>2
    <3> QED
      BY <3>1, Zenon DEF Same, InStep, LocalChanged
  <2>8. Download(p) /\ Upload(p) /\ Missing(p) /\ ScannedMissing(p) /\ Deletion(p)
    <3> HIDE Constants, Contents, Numbers, Values
    <3> QED
      BY <2>1, <2>3 DEF Download, Upload, Missing, ScannedMissing, Deletion, Taking
  <2> QED
    BY <2>4, <2>5, <2>6, <2>7, <2>8 DEF AtPath
<1> QED
  BY <1>5, <1>6, <1>7, <1>8 DEF Inv

-----------------------------------------------------------------------------
(* What every step leaves of the history, and what a step at one path      *)
(* leaves of another.                                                      *)
Growth ==
  /\ nver <= nver' /\ nrev <= nrev'
  /\ \A r \in 1 .. nrev : seal'[r] = seal[r]
  /\ \A v \in Content : v <= nver /\ v \notin owed => v \notin owed'
  /\ copies \subseteq copies'

Still(p) ==
  /\ file'[p] = file[p] /\ base'[p] = base[p]
  /\ drive'[p] = drive[p] /\ (drive[p] # None => tip'[drive[p]] = tip[drive[p]])
  /\ scan'[p] = scan[p] /\ walk'[p] = walk[p] /\ step'[p] = step[p]
  /\ got'[p] = got[p] /\ sent'[p] = sent[p]
  /\ (p \in removed => p \in removed') /\ (p \in trashed => p \in trashed')

(* The numbers in use at a path.                                           *)
LEMMA Bounds ==
  ASSUME Inv, NEW p \in Paths
  PROVE  /\ nver \in Int /\ 0 <= nver /\ nrev \in Int /\ 0 <= nrev
         /\ drive[p] # None => drive[p] \in 1 .. nrev /\ tip[drive[p]] \in 1 .. nrev
         /\ walk[p].rev # None => /\ walk[p].rev \in 1 .. nrev /\ walk[p].node \in 1 .. nrev
                                  /\ tip[walk[p].node] \in 1 .. nrev
         /\ base[p].rev # None => base[p].rev \in 1 .. nrev
         /\ sent[p] # None => sent[p] \in 1 .. nrev
         /\ 1 .. nrev \subseteq Rev
         /\ \A r \in 1 .. nrev : seal[r].body <= nver /\ seal[r].stamp <= nver
<1>1. TypeOK /\ Sealed /\ Numbered(p)
  BY DEF Inv, AtPath
<1>2. nver \in Int /\ 0 <= nver /\ nrev \in Int /\ 0 <= nrev /\ nrev <= MaxRev
  BY <1>1, Constants DEF TypeOK
<1>3. 1 .. nrev \subseteq Rev
  BY <1>2, Numbers, Constants
<1>4. ASSUME NEW r \in Rev, r <= nrev
      PROVE  r \in 1 .. nrev
  BY <1>2, <1>4, Numbers
<1>5. \A r \in 1 .. nrev : tip[r] \in 1 .. nrev
  <2>1. \A r \in 1 .. nrev : tip[r] \in Rev /\ tip[r] <= nrev
    BY <1>1, <1>3 DEF TypeOK, Sealed
  <2> QED
    BY <1>4, <2>1
<1>6. drive[p] # None => drive[p] \in 1 .. nrev
  BY <1>1, <1>4, FileType DEF Numbered
<1>7. sent[p] # None => sent[p] \in 1 .. nrev
  BY <1>1, <1>4, FileType DEF Numbered
<1>8. base[p].rev # None => base[p].rev \in 1 .. nrev
  BY <1>1, <1>4, RowType DEF Numbered
<1>9. walk[p].rev # None => walk[p].rev \in 1 .. nrev /\ walk[p].node \in 1 .. nrev
  BY <1>1, <1>4, SeenType DEF Numbered
<1> QED
  BY <1>1, <1>2, <1>3, <1>5, <1>6, <1>7, <1>8, <1>9 DEF Sealed

(* What is safe stays safe.                                                *)
LEMMA SafeKept ==
  ASSUME Inv, Growth, TypeOK'
  PROVE  /\ \A v \in Content : Replaced(v) => v <= nver' /\ v \notin owed'
         /\ \A v \in Content : Safe(v) =>
              (v <= nver' /\ v \notin owed') \/ \E r \in 1 .. nrev' : seal'[r].body = v
         /\ nver' \in Int /\ nrev' \in Int
<1>1. nver \in Int /\ nrev \in Int /\ nver' \in Int /\ nrev' \in Int
  BY DEF Inv, TypeOK
<1>2. \A v \in Content : Replaced(v) => v <= nver' /\ v \notin owed'
  BY <1>1, Contents DEF Growth, Replaced
<1>3. ASSUME NEW r \in 1 .. nrev
      PROVE  r \in 1 .. nrev' /\ seal'[r] = seal[r]
  BY <1>1 DEF Growth
<1> QED
  BY <1>1, <1>2, <1>3 DEF Safe

LEMMA StillKeeps ==
  ASSUME Inv, Growth, TypeOK', phase' = phase, NEW p \in Paths, Still(p)
  PROVE  AtPath(p)'
<1>1. AtPath(p) /\ TypeOK
  BY DEF Inv
<1>2. /\ nver \in Int /\ nrev \in Int /\ nver' \in Int /\ nrev' \in Int
      /\ nver <= nver' /\ nrev <= nrev' /\ \A r \in 1 .. nrev : seal'[r] = seal[r]
      /\ copies \subseteq copies'
  BY SafeKept, Bounds DEF Growth
<1>3. /\ file'[p] = file[p] /\ base'[p] = base[p]
      /\ drive'[p] = drive[p] /\ (drive[p] # None => tip'[drive[p]] = tip[drive[p]])
      /\ scan'[p] = scan[p] /\ walk'[p] = walk[p] /\ step'[p] = step[p]
      /\ got'[p] = got[p] /\ sent'[p] = sent[p]
      /\ (p \in removed => p \in removed') /\ (p \in trashed => p \in trashed')
  BY DEF Still
<1>4. drive[p] # None => seal'[tip'[drive[p]]] = seal[tip[drive[p]]]
  BY <1>2, <1>3, Bounds
<1>5. /\ walk[p].rev # None => seal'[walk[p].rev] = seal[walk[p].rev]
      /\ base[p].rev # None => seal'[base[p].rev] = seal[base[p].rev]
      /\ sent[p] # None => seal'[sent[p]] = seal[sent[p]]
  BY <1>2, <1>3, Bounds
<1>6. Behind(p)' <=> Behind(p)
  BY <1>3, <1>4 DEF Behind, RemoteChanged
<1>7. Passed(p)' <=> Passed(p)
  BY <1>3 DEF Passed
<1>8. Numbered(p)'
  BY <1>1, <1>2, <1>3, FileType, RowType, SeenType DEF AtPath, Numbered
<1>9. Stamped(p)' /\ Resting(p)'
  BY <1>1, <1>3, <1>5 DEF AtPath, Stamped, Resting, RemoteChanged
<1>10. Harmless(p)'
  <2>1. Harmless(p)
    BY <1>1 DEF AtPath
  <2>2. /\ file[p] \in Content /\ got[p] \in Content /\ base[p].local \in Content /\ scan[p].content \in Content
    BY <1>1, FileType, RowType, SeenType
  <2> QED
    BY <1>2, <1>3, <2>1, <2>2, SafeKept DEF Harmless, Safe, Replaced
<1>11. Same(p)'
  BY <1>1, <1>3, <1>4 DEF AtPath, Same, InStep, LocalChanged, RemoteChanged
<1>12. Download(p)'
  BY <1>1, <1>3, <1>5, <1>6, <1>7 DEF AtPath, Download
<1>13. Upload(p)'
  BY <1>1, <1>3, <1>4, <1>5 DEF AtPath, Upload
<1>14. Missing(p)' /\ ScannedMissing(p)' /\ Deletion(p)'
  BY <1>1, <1>3, <1>6 DEF AtPath, Missing, ScannedMissing, Deletion
<1> QED
  BY <1>8, <1>9, <1>10, <1>11, <1>12, <1>13, <1>14 DEF AtPath

-----------------------------------------------------------------------------
(* The steps of a pass that touch neither the file nor Drive.              *)
Quiet(p) ==
  /\ UNCHANGED <<file, drive, tip, seal, nrev, nver, owed, removed, trashed, phase, walk, sent>>
  /\ copies \subseteq copies'
  /\ \A q \in Paths \ {p} :
       base'[q] = base[q] /\ scan'[q] = scan[q] /\ step'[q] = step[q] /\ got'[q] = got[q]

LEMMA QuietGrowth ==
  ASSUME Inv, NEW p \in Paths, Quiet(p)
  PROVE  Growth
<1>1. nver \in Int /\ nrev \in Int
  BY DEF Inv, TypeOK
<1> QED
  BY <1>1 DEF Quiet, Growth

LEMMA QuietKeeps ==
  ASSUME Inv, NEW p \in Paths, Quiet(p), TypeOK', AtPath(p)'
  PROVE  Inv'
<1>1. Growth
  BY QuietGrowth
<1>2. \A q \in Paths : AtPath(q)'
  <2> SUFFICES ASSUME NEW q \in Paths, q # p PROVE AtPath(q)'
    OBVIOUS
  <2>1. Still(q)
    BY DEF Quiet, Still
  <2>2. phase' = phase
    BY DEF Quiet
  <2> QED
    BY <1>1, <2>1, <2>2, StillKeeps
<1>3. Sealed'
  BY DEF Inv, Sealed, Quiet
<1>4. NoEditLost'
  BY DEF Inv, NoEditLost, Kept, Quiet
<1> QED
  BY <1>2, <1>3, <1>4 DEF Inv

LEMMA FaultType ==
  ASSUME TypeOK, NEW kind, Fault(kind) \/ UNCHANGED budgetVars
  PROVE  foreigns' \in 0 .. MaxForeign /\ faults' \in 0 .. MaxFault
BY Constants DEF TypeOK, Fault, budgetVars

(* A pass works on a path only while it applies its plans.                 *)
LEMMA Working ==
  ASSUME Inv, NEW p \in Paths, step[p] # "done"
  PROVE  phase = "applying" /\ TypeOK /\ AtPath(p) /\ step \in [Paths -> Step]
BY DEF Inv, AtPath, Resting, TypeOK

(* Nothing at all is safe to overwrite.                                    *)
LEMMA SafeNone ==
  ASSUME Inv
  PROVE  Safe(None) /\ Replaced(None)
<1>1. None <= nver
  BY Constants DEF Inv, TypeOK, None
<1>2. None \notin owed
  BY Numbers DEF Inv, TypeOK, None
<1> QED
  BY <1>1, <1>2 DEF Safe, Replaced

(* A step that leaves the row too, and one that leaves all but the row and *)
(* is the last.                                                            *)
LEMMA MoveKeeps ==
  ASSUME Inv, NEW p \in Paths, Quiet(p), TypeOK', phase = "applying",
         base' = base, got'[p] <= nver, step'[p] \notin {"note", "readback"},
         Harmless(p)', Download(p)', Deletion(p)'
  PROVE  Inv'
<1>1. AtPath(p)
  BY DEF Inv
<1>2. Numbered(p)' /\ Stamped(p)' /\ Same(p)' /\ Missing(p)'
  BY <1>1 DEF AtPath, Numbered, Stamped, Same, Missing, Quiet, InStep, LocalChanged, RemoteChanged, Behind
<1>3. Resting(p)' /\ Upload(p)' /\ ScannedMissing(p)'
  BY DEF Resting, Upload, ScannedMissing, Quiet
<1> QED
  BY <1>2, <1>3, QuietKeeps DEF AtPath

LEMMA RecordKeeps ==
  ASSUME Inv, NEW p \in Paths, Quiet(p), TypeOK', phase = "applying",
         step'[p] = "done", got' = got,
         base'[p].local <= nver, base'[p].stamp <= nver, base'[p].rev <= nrev,
         base'[p] # NoRow =>
           /\ IF base'[p].rev = None THEN base'[p].local = base'[p].stamp
                                     ELSE base'[p].stamp = seal[base'[p].rev].stamp
           /\ Safe(base'[p].local)
           /\ (file[p] = base'[p].local /\ drive[p] # None /\ ~RemoteChanged(base'[p], tip[drive[p]]))
                => file[p] = seal[tip[drive[p]]].body
           /\ file[p] = None => p \in removed \/ drive[p] = None \/ RemoteChanged(base'[p], tip[drive[p]])
           /\ drive[p] = None => p \in trashed \/ file[p] # base'[p].local
  PROVE  Inv'
<1>1. AtPath(p)
  BY DEF Inv
<1>2. Numbered(p)' /\ Stamped(p)'
  BY <1>1 DEF AtPath, Numbered, Stamped, Quiet
<1>3. Same(p)'
  BY DEF Same, Quiet, InStep, LocalChanged, RemoteChanged
<1>4. Missing(p)'
  BY DEF Missing, Quiet, RemoteChanged, Behind
<1>5. Harmless(p)'
  BY <1>1 DEF AtPath, Harmless, Quiet, Safe, Replaced, Taking
<1>6. Download(p)' /\ Deletion(p)'
  BY DEF Download, Deletion, Taking
<1>7. Resting(p)' /\ Upload(p)' /\ ScannedMissing(p)'
  BY DEF Resting, Upload, ScannedMissing, Quiet
<1> QED
  BY <1>2, <1>3, <1>4, <1>5, <1>6, <1>7, QuietKeeps DEF AtPath

LEMMA NoteKeeps ==
  ASSUME Inv, NEW p \in Paths, Note(p)
  PROVE  Inv'
<1>1. TypeOK /\ AtPath(p) /\ phase = "applying" /\ step[p] = "note" /\ step' = [step EXCEPT ![p] = "done"]
  BY Working DEF Note, Goto
<1>2. base[p] # NoRow /\ walk[p].rev # None /\ ~RemoteChanged(base[p], walk[p].rev) /\ base[p] \in Row
  BY <1>1, RowType DEF AtPath, Stamped
<1>3. \E row \in Row : /\ base' = [base EXCEPT ![p] = row]
                       /\ row.local = base[p].local /\ row.stamp = base[p].stamp
                       /\ row.rev = IF base[p].rev = None THEN walk[p].rev ELSE base[p].rev
  <2>1. CASE base[p].rev = None
    <3>1. [base[p] EXCEPT !.rev = walk[p].rev] \in Row
      BY <1>1, <1>2, SeenType DEF Row
    <3>2. base' = [base EXCEPT ![p] = [base[p] EXCEPT !.rev = walk[p].rev]]
      BY <1>1, <2>1 DEF Note, TypeOK
    <3> QED
      BY <1>2, <2>1, <3>1, <3>2 DEF Row
  <2>2. CASE base[p].rev # None
    <3>1. base' = [base EXCEPT ![p] = base[p]]
      BY <1>1, <2>2 DEF Note, TypeOK
    <3> QED
      BY <1>2, <2>2, <3>1
  <2> QED
    BY <2>1, <2>2
<1>4. TypeOK'
  BY <1>1, <1>3 DEF Note, TypeOK, localVars, driveVars, histVars, budgetVars, Step
<1>5. Quiet(p)
  BY <1>1, <1>3 DEF Note, TypeOK, Quiet, localVars, driveVars, histVars, budgetVars
<1>6. /\ base'[p] \in Row /\ base'[p].local = base[p].local /\ base'[p].stamp = base[p].stamp
      /\ base'[p].rev = IF base[p].rev = None THEN walk[p].rev ELSE base[p].rev
      /\ step'[p] = "done" /\ got' = got
  BY <1>1, <1>3 DEF TypeOK, Note
<1>7. base'[p].local <= nver /\ base'[p].stamp <= nver /\ base'[p].rev <= nrev
  BY <1>1, <1>6 DEF AtPath, Numbered
<1>8. IF base'[p].rev = None THEN base'[p].local = base'[p].stamp
                             ELSE base'[p].stamp = seal[base'[p].rev].stamp
  BY <1>1, <1>2, <1>6 DEF AtPath, Stamped, RemoteChanged
<1>9. RemoteChanged(base[p], tip[drive[p]]) => RemoteChanged(base'[p], tip[drive[p]])
  BY <1>2, <1>6, Values DEF RemoteChanged
<1>10. Safe(base'[p].local)
  BY <1>1, <1>2, <1>6 DEF AtPath, Harmless
<1>11. file[p] = base'[p].local /\ drive[p] # None /\ ~RemoteChanged(base'[p], tip[drive[p]])
         => file[p] = seal[tip[drive[p]]].body
  BY <1>1, <1>2, <1>6, <1>9, RowType DEF AtPath, Same, InStep, LocalChanged
<1>12. /\ file[p] = None => p \in removed \/ drive[p] = None \/ RemoteChanged(base'[p], tip[drive[p]])
       /\ drive[p] = None => p \in trashed \/ file[p] # base'[p].local
  BY <1>1, <1>2, <1>6, <1>9 DEF AtPath, Missing, Behind
<1> QED
  BY <1>1, <1>4, <1>5, <1>6, <1>7, <1>8, <1>10, <1>11, <1>12, RecordKeeps

LEMMA ForgetKeeps ==
  ASSUME Inv, NEW p \in Paths, Forget(p)
  PROVE  Inv'
<1>1. TypeOK /\ phase = "applying" /\ step' = [step EXCEPT ![p] = "done"] /\ base' = [base EXCEPT ![p] = NoRow]
  BY Working DEF Forget, Goto
<1>2. TypeOK' /\ Quiet(p)
  BY <1>1 DEF Forget, TypeOK, Quiet, localVars, driveVars, histVars, budgetVars, Step
<1>3. base'[p] = NoRow /\ step'[p] = "done" /\ got' = got
  BY <1>1 DEF TypeOK, Forget
<1>4. base'[p].local <= nver /\ base'[p].stamp <= nver /\ base'[p].rev <= nrev
  BY <1>3, Values, Contents, Bounds
<1> QED
  BY <1>1, <1>2, <1>3, <1>4, RecordKeeps

(* A row made of what is at the path and on Drive.                         *)
LEMMA RowMade ==
  ASSUME TypeOK, NEW v \in Content, v # None, NEW s \in Content, s # None, NEW r \in Rev \cup {None}
  PROVE  [local |-> v, stamp |-> s, rev |-> r] \in Row
BY DEF Row

LEMMA AdoptKeeps ==
  ASSUME Inv, NEW p \in Paths, Adopt(p)
  PROVE  Inv'
<1>1. TypeOK /\ AtPath(p) /\ phase = "applying" /\ step[p] = "hash" /\ UNCHANGED <<scan, got>>
  BY Working DEF Adopt
<1>2. walk[p].rev # None /\ walk[p].rev \in 1 .. nrev /\ walk[p].rev \in Rev
  BY <1>1, Bounds DEF AtPath, Download, Taking
<1>3. CASE file[p] # None /\ file[p] = seal[walk[p].rev].body
           /\ base' = [base EXCEPT ![p] = [local |-> file[p], stamp |-> seal[walk[p].rev].stamp,
                                           rev |-> walk[p].rev]]
           /\ step' = [step EXCEPT ![p] = "done"]
  <2> DEFINE row == [local |-> file[p], stamp |-> seal[walk[p].rev].stamp, rev |-> walk[p].rev]
  <2>1. row \in Row
    BY <1>1, <1>2, <1>3, RowMade, FileType, SealType
  <2>2. row.local = file[p] /\ row.stamp = seal[walk[p].rev].stamp /\ row.rev = walk[p].rev
    OBVIOUS
  <2>3. base' = [base EXCEPT ![p] = row]
    BY <1>3
  <2> HIDE DEF row
  <2>4. TypeOK' /\ Quiet(p) /\ base'[p] = row /\ step'[p] = "done"
    BY <1>1, <1>3, <2>1, <2>3 DEF Adopt, TypeOK, Quiet, localVars, driveVars, histVars, budgetVars, Step
  <2>5. row.local <= nver /\ row.stamp <= nver /\ row.rev <= nrev
    BY <1>1, <1>2, <2>2, Bounds DEF AtPath, Numbered
  <2>6. Safe(row.local)
    BY <1>2, <1>3, <2>2 DEF Safe
  <2>7. drive[p] # None /\ ~RemoteChanged(row, tip[drive[p]]) => file[p] = seal[tip[drive[p]]].body
    BY <1>2, <1>3, <2>2 DEF RemoteChanged
  <2>8. drive[p] = None => p \in trashed
    BY <1>1 DEF AtPath, Download, Taking
  <2> QED
    BY <1>1, <1>2, <1>3, <2>2, <2>4, <2>5, <2>6, <2>7, <2>8, RecordKeeps
<1>4. ASSUME NEW to \in {"done", "copy"}, base' = base, step' = [step EXCEPT ![p] = to]
      PROVE  Inv'
  <2>1. TypeOK' /\ Quiet(p) /\ base' = base /\ step'[p] \in {"done", "copy"}
    BY <1>1, <1>4 DEF Adopt, TypeOK, Quiet, localVars, driveVars, histVars, budgetVars, Step
  <2>2. got'[p] <= nver
    BY <1>1 DEF AtPath, Numbered
  <2>3. Harmless(p)'
    BY <1>1, <2>1 DEF AtPath, Harmless, Quiet, Safe, Replaced, Taking
  <2>4. Download(p)'
    BY <1>1, <2>1 DEF AtPath, Download, Quiet, Taking, Behind, Passed, RemoteChanged
  <2>5. Deletion(p)'
    BY <2>1 DEF Deletion
  <2> QED
    BY <1>1, <2>1, <2>2, <2>3, <2>4, <2>5, MoveKeeps
<1>5. CASE file[p] = None \/ file[p] # scan[p].content
  <2>1. Goto(p, "done") /\ UNCHANGED base
    BY <1>5 DEF Adopt
  <2> QED
    BY <1>4, <2>1 DEF Goto
<1>6. CASE file[p] # None /\ file[p] = scan[p].content /\ file[p] = seal[walk[p].rev].body
  BY <1>3, <1>6 DEF Adopt, Goto, Record
<1>7. CASE file[p] # None /\ file[p] = scan[p].content /\ file[p] # seal[walk[p].rev].body
  BY <1>4, <1>7 DEF Adopt, Goto
<1> QED
  BY <1>5, <1>6, <1>7

LEMMA CopyAsideKeeps ==
  ASSUME Inv, NEW p \in Paths, CopyAside(p)
  PROVE  Inv'
<1>1. TypeOK /\ AtPath(p) /\ phase = "applying" /\ step[p] \in {"copy", "aside"} /\ step[p] \in Taking
  BY Working DEF CopyAside, Taking
<1>2. /\ UNCHANGED <<file, busy, base, drive, tip, seal, nrev, phase, walk, got, sent,
                     owed, removed, trashed, nver, foreigns, faults>>
      /\ scan' = [scan EXCEPT ![p] = [scan[p] EXCEPT !.content = None]]
  BY <1>1 DEF CopyAside, driveVars, histVars, budgetVars, TypeOK
<1>3. [scan[p] EXCEPT !.content = None] \in Scanned /\ scan' \in [Paths -> Scanned] /\ scan'[p].content = None
  <2>1. scan[p] \in Scanned
    BY <1>1, SeenType
  <2>2. [scan[p] EXCEPT !.content = None] \in Scanned /\ [scan[p] EXCEPT !.content = None].content = None
    BY <2>1, Contents DEF Scanned
  <2> QED
    BY <1>1, <1>2, <2>2 DEF TypeOK
<1>4. ASSUME NEW to \in {"drop", "fetch", "done"}, step' = [step EXCEPT ![p] = to],
             copies \subseteq copies', copies' \subseteq Content, to = "drop" => file[p] \in copies'
      PROVE  Inv'
  <2>1. TypeOK' /\ Quiet(p) /\ step'[p] = to
    BY <1>1, <1>2, <1>3, <1>4 DEF TypeOK, Quiet, Step
  <2>2. got'[p] <= nver
    BY <1>1, <1>2 DEF AtPath, Numbered
  <2>3. Harmless(p)'
    BY <1>1, <1>2, <1>3, <1>4, <2>1, SafeNone DEF AtPath, Harmless, Safe, Replaced, Taking
  <2>4. Download(p)'
    BY <1>1, <1>2, <2>1 DEF AtPath, Download, Taking, Behind, Passed, RemoteChanged
  <2>5. Deletion(p)'
    BY <2>1 DEF Deletion
  <2> QED
    BY <1>1, <1>2, <2>1, <2>2, <2>3, <2>4, <2>5, MoveKeeps
<1>5. CASE file[p] # None
  <2>1. copies' = copies \cup {file[p]} /\ step' = [step EXCEPT ![p] = "drop"]
    BY <1>5 DEF CopyAside, Goto
  <2>2. copies' \subseteq Content /\ copies \subseteq copies' /\ file[p] \in copies'
    BY <1>1, <2>1, FileType DEF TypeOK
  <2> QED
    BY <1>4, <2>1, <2>2
<1>6. CASE file[p] = None
  <2>1. copies' = copies /\ copies \subseteq Content
    BY <1>1, <1>6 DEF CopyAside, TypeOK
  <2>2. step' = [step EXCEPT ![p] = "fetch"] \/ step' = [step EXCEPT ![p] = "done"]
    BY <1>6 DEF CopyAside, Goto
  <2>3. CASE step' = [step EXCEPT ![p] = "fetch"]
    BY <1>4, <2>1, <2>3
  <2>4. CASE step' = [step EXCEPT ![p] = "done"]
    BY <1>4, <2>1, <2>4
  <2> QED
    BY <2>2, <2>3, <2>4
<1> QED
  BY <1>5, <1>6

LEMMA FetchKeeps ==
  ASSUME Inv, NEW p \in Paths, Fetch(p)
  PROVE  Inv'
<1>1. TypeOK /\ AtPath(p) /\ phase = "applying" /\ step[p] = "fetch" /\ step[p] \in Taking
  BY Working DEF Fetch, Taking
<1>2. /\ UNCHANGED <<file, busy, copies, base, drive, tip, seal, nrev, phase, walk, scan, sent,
                     owed, removed, trashed, nver>>
      /\ foreigns' \in 0 .. MaxForeign /\ faults' \in 0 .. MaxFault
  BY <1>1, FaultType DEF Fetch, localVars, driveVars, histVars
<1>3. /\ walk[p].rev # None /\ walk[p].rev \in 1 .. nrev /\ tip[walk[p].node] \in 1 .. nrev
      /\ 1 .. nrev \subseteq Rev
  BY <1>1, Bounds DEF AtPath, Download
<1>4. CASE step' = [step EXCEPT ![p] = "done"] /\ got' = got
  <2>1. TypeOK' /\ Quiet(p) /\ step'[p] = "done"
    BY <1>1, <1>2, <1>4 DEF TypeOK, Quiet, Step
  <2>2. got'[p] <= nver
    BY <1>1, <1>4 DEF AtPath, Numbered
  <2>3. Harmless(p)'
    BY <1>1, <1>2, <2>1 DEF AtPath, Harmless, Safe, Replaced, Taking
  <2>4. Download(p)' /\ Deletion(p)'
    BY <2>1 DEF Download, Deletion, Taking
  <2> QED
    BY <1>1, <1>2, <2>1, <2>2, <2>3, <2>4, MoveKeeps
<1>5. ASSUME NEW r \in {walk[p].rev, tip[walk[p].node]}, got' = [got EXCEPT ![p] = seal[r].body],
             step' = [step EXCEPT ![p] = "guard"]
      PROVE  Inv'
  <2>1. r \in 1 .. nrev /\ r \in Rev /\ seal[r].body \in Content /\ seal[r].body # None
    BY <1>1, <1>3, SealType
  <2>2. TypeOK' /\ Quiet(p) /\ step'[p] = "guard" /\ got'[p] = seal[r].body
    BY <1>1, <1>2, <1>5, <2>1 DEF TypeOK, Quiet, Step
  <2>3. got'[p] <= nver
    BY <2>1, <2>2, Bounds
  <2>4. Safe(got'[p]) /\ Safe(scan[p].content)
    BY <1>1, <2>1, <2>2 DEF Safe, AtPath, Harmless
  <2>5. Harmless(p)'
    BY <1>1, <1>2, <2>2, <2>4 DEF AtPath, Harmless, Safe, Replaced, Taking
  <2>6. got'[p] = seal[walk[p].rev].body \/ Passed(p)
    BY <1>1, <2>2 DEF AtPath, Download, Passed
  <2>7. Download(p)'
    BY <1>1, <1>2, <2>1, <2>2, <2>6 DEF AtPath, Download, Behind, Passed, RemoteChanged
  <2>8. Deletion(p)'
    BY <2>2 DEF Deletion
  <2> QED
    BY <1>1, <1>2, <2>2, <2>3, <2>5, <2>7, <2>8, MoveKeeps
<1> QED
  BY <1>4, <1>5 DEF Fetch, Goto

(* The steps that only decide where to go.                                 *)
LEMMA DecideKeeps ==
  ASSUME Inv, NEW p \in Paths, Guard(p) \/ Condemn(p)
  PROVE  Inv'
<1>1. TypeOK /\ AtPath(p) /\ phase = "applying" /\ step[p] \in {"guard", "condemn"}
  BY Working DEF Guard, Condemn
<1>2. UNCHANGED <<file, busy, copies, base, drive, tip, seal, nrev, phase, walk, scan, got, sent,
                  owed, removed, trashed, nver, foreigns, faults>>
  BY DEF Guard, Condemn, localVars, driveVars, histVars, budgetVars
<1>3. Safe(scan[p].content)
  BY <1>1 DEF AtPath, Harmless
<1>4. ASSUME NEW to \in {"place", "aside", "remove", "done"}, step' = [step EXCEPT ![p] = to],
             to \in {"place", "remove"} => file[p] \in {None, scan[p].content},
             to \in {"place", "aside"} => step[p] = "guard", to = "remove" => step[p] = "condemn"
      PROVE  Inv'
  <2>1. TypeOK' /\ Quiet(p) /\ step'[p] = to
    BY <1>1, <1>2, <1>4 DEF TypeOK, Quiet, Step
  <2>2. got'[p] <= nver
    BY <1>1, <1>2 DEF AtPath, Numbered
  <2>3. to \in {"place", "remove"} => Safe(file[p])
    BY <1>3, <1>4, SafeNone
  <2>4. Harmless(p)'
    BY <1>1, <1>2, <1>4, <2>1, <2>3 DEF AtPath, Harmless, Safe, Replaced, Taking
  <2>5. Download(p)'
    BY <1>1, <1>2, <1>4, <2>1 DEF AtPath, Download, Taking, Behind, Passed, RemoteChanged
  <2>6. Deletion(p)'
    BY <1>1, <1>2, <1>4, <2>1 DEF AtPath, Deletion, Behind, RemoteChanged
  <2> QED
    BY <1>1, <1>2, <2>1, <2>2, <2>4, <2>5, <2>6, MoveKeeps
<1>5. CASE Guard(p)
  BY <1>4, <1>5 DEF Guard, Goto, AsExpected
<1>6. CASE Condemn(p)
  BY <1>4, <1>6 DEF Condemn, Goto
<1> QED
  BY <1>5, <1>6

LEMMA RecordPlacedKeeps ==
  ASSUME Inv, NEW p \in Paths, RecordPlaced(p)
  PROVE  Inv'
<1>1. TypeOK /\ AtPath(p) /\ phase = "applying" /\ step[p] = "placed" /\ step[p] \in Taking
  BY Working DEF RecordPlaced, Taking
<1>2. /\ UNCHANGED <<file, busy, copies, drive, tip, seal, nrev, phase, walk, scan, got, sent,
                     owed, removed, trashed, nver, foreigns, faults>>
      /\ step' = [step EXCEPT ![p] = "done"]
  BY DEF RecordPlaced, Goto, localVars, driveVars, histVars, budgetVars
<1>3. walk[p].rev # None /\ walk[p].rev \in 1 .. nrev /\ walk[p].rev \in Rev /\ got[p] # None /\ file[p] = got[p]
  BY <1>1, Bounds DEF AtPath, Download, Harmless
<1> DEFINE row == [local |-> file[p], stamp |-> seal[walk[p].rev].stamp, rev |-> walk[p].rev]
<1>4. row \in Row
  BY <1>1, <1>3, RowMade, FileType, SealType
<1>5. row.local = file[p] /\ row.stamp = seal[walk[p].rev].stamp /\ row.rev = walk[p].rev
  OBVIOUS
<1>6. base' = [base EXCEPT ![p] = row]
  BY <1>3 DEF RecordPlaced, Record, RevisionFetched
<1> HIDE DEF row
<1>7. TypeOK' /\ Quiet(p) /\ base'[p] = row /\ step'[p] = "done"
  BY <1>1, <1>2, <1>4, <1>6 DEF TypeOK, Quiet, Step
<1>8. row.local <= nver /\ row.stamp <= nver /\ row.rev <= nrev
  BY <1>1, <1>3, <1>5, Bounds DEF AtPath, Numbered
<1>9. Safe(row.local)
  BY <1>1, <1>3, <1>5 DEF AtPath, Harmless
<1>10. drive[p] # None /\ ~RemoteChanged(row, tip[drive[p]]) => file[p] = seal[tip[drive[p]]].body
  BY <1>1, <1>3, <1>5 DEF AtPath, Download, Passed, RemoteChanged
<1>11. drive[p] = None => p \in trashed
  BY <1>1 DEF AtPath, Download
<1> QED
  BY <1>1, <1>2, <1>3, <1>5, <1>7, <1>8, <1>9, <1>10, <1>11, RecordKeeps

LEMMA OpenKeeps ==
  ASSUME Inv, NEW p \in Paths, OpenUpload(p) \/ StatUpload(p)
  PROVE  Inv'
<1>1. TypeOK /\ AtPath(p) /\ phase = "applying" /\ step[p] \in {"open", "stat"}
  BY Working DEF OpenUpload, StatUpload
<1>2. /\ UNCHANGED <<file, busy, copies, base, drive, tip, seal, nrev, phase, walk, scan, sent,
                     owed, removed, trashed, nver>>
      /\ foreigns' \in 0 .. MaxForeign /\ faults' \in 0 .. MaxFault
  BY <1>1, FaultType DEF OpenUpload, StatUpload, localVars, driveVars, histVars
<1>3. ASSUME NEW to \in {"done", "stat", "send"}, NEW v \in {got[p], file[p]},
             step' = [step EXCEPT ![p] = to], got' = [got EXCEPT ![p] = v],
             to # "done" => v # None /\ (v = file[p] \/ step[p] = "stat")
      PROVE  Inv'
  <2>1. v \in Content /\ v <= nver
    BY <1>1, FileType DEF AtPath, Numbered
  <2>2. TypeOK' /\ Quiet(p) /\ step'[p] = to /\ got'[p] = v
    BY <1>1, <1>2, <1>3, <2>1 DEF TypeOK, Quiet, Step
  <2>3. to # "done" => v # None /\ (v = file[p] \/ Replaced(v))
    BY <1>1, <1>3 DEF AtPath, Harmless
  <2>4. Harmless(p)'
    BY <1>1, <1>2, <2>2, <2>3 DEF AtPath, Harmless, Safe, Replaced, Taking
  <2>5. Download(p)'
    BY <2>2 DEF Download, Taking
  <2>6. Deletion(p)'
    BY <1>1, <1>2, <2>2 DEF AtPath, Deletion
  <2> QED
    BY <1>1, <1>2, <2>1, <2>2, <2>4, <2>5, <2>6, MoveKeeps
<1>4. CASE OpenUpload(p)
  <2>1. CASE got' = [got EXCEPT ![p] = file[p]] /\ Goto(p, "done")
    BY <1>3, <2>1 DEF Goto
  <2>2. CASE got' = [got EXCEPT ![p] = file[p]] /\ Goto(p, "stat") /\ file[p] # None
    BY <1>3, <2>2 DEF Goto
  <2>3. CASE got' = got /\ Goto(p, "done")
    <3>1. got' = [got EXCEPT ![p] = got[p]]
      BY <1>1, <2>3 DEF TypeOK
    <3> QED
      BY <1>3, <2>3, <3>1 DEF Goto
  <2> QED
    BY <1>4, <2>1, <2>2, <2>3 DEF OpenUpload
<1>5. CASE StatUpload(p)
  BY <1>1, <1>3, <1>5 DEF StatUpload, Goto
<1> QED
  BY <1>4, <1>5

LEMMA ReadBackKeeps ==
  ASSUME Inv, NEW p \in Paths, ReadBack(p)
  PROVE  Inv'
<1>1. TypeOK /\ AtPath(p) /\ phase = "applying" /\ step[p] = "readback"
  BY Working DEF ReadBack
<1>2. /\ UNCHANGED <<file, busy, copies, drive, tip, seal, nrev, phase, walk, scan, got, sent,
                     owed, removed, trashed, nver>>
      /\ foreigns' \in 0 .. MaxForeign /\ faults' \in 0 .. MaxFault
      /\ step' = [step EXCEPT ![p] = "done"]
  BY <1>1, FaultType DEF ReadBack, Goto, localVars, driveVars, histVars
<1>3. /\ sent[p] # None /\ sent[p] \in 1 .. nrev /\ sent[p] \in Rev
      /\ got[p] # None /\ got[p] \in Content /\ got[p] <= nver /\ Safe(got[p])
      /\ seal[sent[p]].body = got[p] \/ file[p] # got[p]
      /\ drive[p] = None \/ tip[drive[p]] = sent[p] \/ seal[tip[drive[p]]].stamp # got[p]
      /\ drive[p] = None => p \in trashed
      /\ file[p] # None \/ p \in removed
  BY <1>1, Bounds, FileType DEF AtPath, Upload, Harmless, Deletion, Numbered
<1>4. ASSUME NEW s \in Content, s # None, s <= nver, NEW r \in Rev \cup {None}, r <= nrev,
             base' = [base EXCEPT ![p] = [local |-> got[p], stamp |-> s, rev |-> r]],
             IF r = None THEN s = got[p] ELSE s = seal[r].stamp /\ seal[r].body = seal[sent[p]].body
      PROVE  Inv'
  <2> DEFINE row == [local |-> got[p], stamp |-> s, rev |-> r]
  <2>1. row \in Row
    BY <1>1, <1>3, <1>4, RowMade
  <2>2. row.local = got[p] /\ row.stamp = s /\ row.rev = r
    OBVIOUS
  <2>3. base' = [base EXCEPT ![p] = row]
    BY <1>4
  <2> HIDE DEF row
  <2>4. TypeOK' /\ Quiet(p) /\ base'[p] = row /\ step'[p] = "done"
    BY <1>1, <1>2, <2>1, <2>3 DEF TypeOK, Quiet, Step
  <2>5. row.local <= nver /\ row.stamp <= nver /\ row.rev <= nrev
    BY <1>3, <1>4, <2>2
  <2>6. IF row.rev = None THEN row.local = row.stamp ELSE row.stamp = seal[row.rev].stamp
    BY <1>4, <2>2
  <2>7. file[p] = got[p] /\ drive[p] # None /\ ~RemoteChanged(row, tip[drive[p]])
          => file[p] = seal[tip[drive[p]]].body
    BY <1>3, <1>4, <2>2 DEF RemoteChanged
  <2> QED
    BY <1>1, <1>2, <1>3, <2>2, <2>4, <2>5, <2>6, <2>7, RecordKeeps
<1>5. CASE base' = base
  <2>1. TypeOK' /\ Quiet(p) /\ step'[p] = "done"
    BY <1>1, <1>2, <1>5 DEF TypeOK, Quiet, Step
  <2>2. Harmless(p)'
    BY <1>1, <1>2, <1>5, <2>1 DEF AtPath, Harmless, Safe, Replaced, Taking
  <2>3. Download(p)' /\ Deletion(p)'
    BY <2>1 DEF Download, Deletion, Taking
  <2> QED
    BY <1>1, <1>2, <1>3, <1>5, <2>1, <2>2, <2>3, MoveKeeps
<1> DEFINE node == IF walk[p].rev = None THEN sent[p] ELSE walk[p].node
           now == tip[node]
<1>6. now \in 1 .. nrev /\ now \in Rev /\ now <= nrev /\ now # None
  <2>1. node \in 1 .. nrev /\ nrev \in Int /\ 1 .. nrev \subseteq Rev
    BY <1>3, Bounds
  <2>2. now \in Rev /\ now <= nrev
    BY <1>1, <2>1 DEF TypeOK, Inv, Sealed
  <2> QED
    BY <2>1, <2>2, Numbers, Contents
<1> HIDE DEF now
<1>7. CASE /\ seal[now].body = seal[sent[p]].body
           /\ base' = [base EXCEPT ![p] = [local |-> got[p], stamp |-> seal[now].stamp, rev |-> now]]
  <2>1. seal[now].stamp \in Content /\ seal[now].stamp # None /\ seal[now].stamp <= nver
    BY <1>1, <1>6, SealType, Bounds
  <2> QED
    BY <1>4, <1>6, <1>7, <2>1
<1>8. CASE base' = [base EXCEPT ![p] = [local |-> got[p], stamp |-> got[p], rev |-> None]]
  <2>1. None \in Rev \cup {None} /\ None <= nrev
    BY Bounds, Contents
  <2> QED
    BY <1>3, <1>4, <1>8, <2>1
<1> QED
  BY <1>5, <1>7, <1>8 DEF ReadBack, Record, Streamed, now

-----------------------------------------------------------------------------
(* The steps that change the file or Drive at one path.                    *)
LEMMA OnePath ==
  ASSUME Inv, NEW p \in Paths, Growth, TypeOK', phase' = phase,
         \A q \in Paths \ {p} : Still(q), AtPath(p)', Sealed', NoEditLost'
  PROVE  Inv'
<1>1. ASSUME NEW q \in Paths, q # p PROVE AtPath(q)'
  BY <1>1, StillKeeps
<1> QED
  BY <1>1 DEF Inv

(* A pass puts something at a path that is behind.                         *)
LEMMA PutKeeps ==
  ASSUME Inv, NEW p \in Paths, NEW v \in Content, v <= nver,
         NEW to \in {"fetch", "place", "placed", "forget"},
         phase = "applying", Put(p, v), Goto(p, to),
         UNCHANGED <<copies, base, drive, tip, seal, nrev, phase, scan, walk, got, sent,
                     owed, removed, trashed, nver, foreigns, faults>>,
         Safe(file[p]) \/ file[p] \in copies, Behind(p), drive[p] = None => p \in trashed,
         Harmless(p)', Download(p)'
  PROVE  Inv'
<1>1. TypeOK /\ AtPath(p) /\ Sealed /\ NoEditLost /\ nver \in Int /\ nrev \in Int
  BY DEF Inv, TypeOK
<1>2. file' = [file EXCEPT ![p] = v] /\ step' = [step EXCEPT ![p] = to]
  BY DEF Put, Goto
<1>3. file'[p] = v /\ step'[p] = to /\ \A q \in Paths \ {p} : file'[q] = file[q] /\ step'[q] = step[q]
  BY <1>1, <1>2 DEF TypeOK
<1>4. TypeOK'
  BY <1>1, <1>2 DEF TypeOK, Put, Step
<1>5. Growth /\ \A q \in Paths \ {p} : Still(q)
  BY <1>1, <1>3 DEF Growth, Still
<1>6. Sealed'
  BY <1>1 DEF Sealed
<1>7. NoEditLost'
  <2> SUFFICES ASSUME NEW w \in owed PROVE Kept(w)'
    BY DEF NoEditLost
  <2>1. Kept(w)
    BY <1>1 DEF NoEditLost
  <2>2. CASE \E q \in Paths : q # p /\ file[q] = w
    BY <1>3, <2>2 DEF Kept
  <2>3. CASE file[p] = w
    BY <2>3 DEF Safe, Replaced, Kept
  <2>4. CASE w \in copies \/ \E r \in 1 .. nrev : seal[r].body = w
    BY <2>4 DEF Kept
  <2> QED
    BY <2>1, <2>2, <2>3, <2>4 DEF Kept
<1>8. Numbered(p)' /\ Stamped(p)'
  BY <1>1, <1>3 DEF AtPath, Numbered, Stamped
<1>9. Same(p)'
  BY DEF Same, InStep, LocalChanged, Behind, RemoteChanged
<1>10. Missing(p)'
  BY <1>1, <1>3 DEF Missing, Behind, RemoteChanged
<1>11. Resting(p)' /\ Upload(p)' /\ ScannedMissing(p)' /\ Deletion(p)'
  BY <1>3 DEF Resting, Upload, ScannedMissing, Deletion
<1> QED
  BY <1>4, <1>5, <1>6, <1>7, <1>8, <1>9, <1>10, <1>11, OnePath DEF AtPath

LEMMA DropKeeps ==
  ASSUME Inv, NEW p \in Paths, DropOriginal(p)
  PROVE  Inv'
<1>1. TypeOK /\ AtPath(p) /\ phase = "applying" /\ step[p] = "drop" /\ step[p] \in Taking
  BY Working DEF DropOriginal, Taking
<1>2. /\ UNCHANGED <<copies, base, drive, tip, seal, nrev, phase, scan, walk, got, sent,
                     owed, removed, trashed, nver, foreigns, faults>>
      /\ Put(p, None)
  BY DEF DropOriginal, driveVars, histVars, budgetVars
<1>3. PICK to \in {"fetch", "place"} : Goto(p, to) /\ (to = "place" => got[p] # None)
  BY DEF DropOriginal
<1>4. file'[p] = None /\ step'[p] = to
  BY <1>1, <1>2, <1>3 DEF TypeOK, Put, Goto
<1>5. Harmless(p)'
  BY <1>1, <1>2, <1>4, SafeNone DEF AtPath, Harmless, Safe, Replaced, Taking
<1>6. Download(p)'
  BY <1>1, <1>2, <1>3, <1>4 DEF AtPath, Download, Taking, Behind, Passed, RemoteChanged
<1>7. Behind(p) /\ (drive[p] = None => p \in trashed) /\ file[p] \in copies
  BY <1>1 DEF AtPath, Download, Harmless
<1>8. None \in Content /\ None <= nver
  BY Contents, Bounds
<1> QED
  BY <1>1, <1>2, <1>3, <1>5, <1>6, <1>7, <1>8, PutKeeps

LEMMA PlaceKeeps ==
  ASSUME Inv, NEW p \in Paths, Place(p)
  PROVE  Inv'
<1>1. TypeOK /\ AtPath(p) /\ phase = "applying" /\ step[p] = "place" /\ step[p] \in Taking
  BY Working DEF Place, Taking
<1>2. /\ UNCHANGED <<copies, base, drive, tip, seal, nrev, phase, scan, walk, got, sent,
                     owed, removed, trashed, nver, foreigns, faults>>
      /\ Put(p, got[p]) /\ Goto(p, "placed")
  BY DEF Place, driveVars, histVars, budgetVars
<1>3. file'[p] = got[p] /\ step'[p] = "placed"
  BY <1>1, <1>2 DEF TypeOK, Put, Goto
<1>4. Harmless(p)'
  BY <1>1, <1>2, <1>3 DEF AtPath, Harmless, Safe, Replaced, Taking
<1>5. Download(p)'
  BY <1>1, <1>2, <1>3 DEF AtPath, Download, Taking, Behind, Passed, RemoteChanged
<1>6. Behind(p) /\ (drive[p] = None => p \in trashed) /\ Safe(file[p])
  BY <1>1 DEF AtPath, Download, Harmless
<1>7. got[p] \in Content /\ got[p] <= nver
  BY <1>1, FileType DEF AtPath, Numbered
<1> QED
  BY <1>1, <1>2, <1>4, <1>5, <1>6, <1>7, PutKeeps

(* A fault leaves the path for the next pass.                              *)
LEMMA GiveUp ==
  ASSUME Inv, NEW p \in Paths, step[p] # "done", Goto(p, "done"),
         UNCHANGED <<file, busy, copies, base, drive, tip, seal, nrev, phase, scan, walk, got, sent,
                     owed, removed, trashed, nver>>,
         foreigns' \in 0 .. MaxForeign, faults' \in 0 .. MaxFault
  PROVE  Inv'
<1>1. TypeOK /\ AtPath(p) /\ phase = "applying"
  BY Working
<1>2. TypeOK' /\ Quiet(p) /\ step'[p] = "done"
  BY <1>1 DEF TypeOK, Quiet, Step, Goto
<1>3. got'[p] <= nver
  BY <1>1 DEF AtPath, Numbered
<1>4. Harmless(p)'
  BY <1>1, <1>2 DEF AtPath, Harmless, Safe, Replaced, Taking
<1>5. Download(p)' /\ Deletion(p)'
  BY <1>2 DEF Download, Deletion, Taking
<1> QED
  BY <1>1, <1>2, <1>3, <1>4, <1>5, MoveKeeps

LEMMA RemoveKeeps ==
  ASSUME Inv, NEW p \in Paths, RemoveLocal(p)
  PROVE  Inv'
<1>1. TypeOK /\ AtPath(p) /\ phase = "applying" /\ step[p] = "remove"
  BY Working DEF RemoveLocal
<1>2. UNCHANGED <<copies, base, drive, tip, seal, nrev, phase, scan, walk, got, sent,
                  owed, removed, trashed, nver>>
  BY DEF RemoveLocal, driveVars, histVars
<1>3. CASE Put(p, None) /\ Goto(p, "forget") /\ UNCHANGED <<foreigns, faults>>
  <2>1. file'[p] = None /\ step'[p] = "forget"
    BY <1>1, <1>3 DEF TypeOK, Put, Goto
  <2>2. Harmless(p)'
    BY <1>1, <1>2, <2>1 DEF AtPath, Harmless, Safe, Replaced, Taking
  <2>3. Download(p)'
    BY <2>1 DEF Download, Taking
  <2>4. Behind(p) /\ p \in trashed /\ Safe(file[p])
    BY <1>1 DEF AtPath, Deletion, Harmless
  <2>5. None \in Content /\ None <= nver
    BY Contents, Bounds
  <2> QED
    BY <1>1, <1>2, <1>3, <2>2, <2>3, <2>4, <2>5, PutKeeps
<1>4. CASE Fault("remove") /\ Goto(p, "done") /\ UNCHANGED <<file, busy>>
  BY <1>1, <1>2, <1>4, FaultType, GiveUp
<1> QED
  BY <1>3, <1>4 DEF RemoveLocal, budgetVars

LEMMA TrashKeeps ==
  ASSUME Inv, NEW p \in Paths, TrashRemote(p)
  PROVE  Inv'
<1>1. TypeOK /\ AtPath(p) /\ phase = "applying" /\ step[p] = "trash" /\ Sealed /\ NoEditLost
  BY Working DEF TrashRemote, Inv
<1>2. UNCHANGED <<file, busy, copies, base, tip, seal, nrev, phase, scan, walk, got, sent,
                  owed, removed, trashed, nver>>
  BY DEF TrashRemote, localVars, histVars
<1>3. ASSUME NEW d \in {None, drive[p]}, drive' = [drive EXCEPT ![p] = d], Goto(p, "forget"),
             UNCHANGED <<foreigns, faults>>
      PROVE  Inv'
  <2>1. drive'[p] = d /\ step'[p] = "forget" /\ \A q \in Paths \ {p} : drive'[q] = drive[q] /\ step'[q] = step[q]
    BY <1>1, <1>3 DEF TypeOK, Goto
  <2>2. TypeOK'
    BY <1>1, <1>2, <1>3 DEF TypeOK, Goto, Step
  <2>3. nver \in Int /\ nrev \in Int /\ 0 <= nrev /\ None = 0
    BY Bounds, Contents
  <2>4. Growth /\ \A q \in Paths \ {p} : Still(q)
    BY <1>2, <2>1, <2>3 DEF Growth, Still
  <2>5. Sealed'
    BY <1>1, <1>2, <2>1 DEF Sealed
  <2>6. NoEditLost'
    BY <1>1, <1>2 DEF NoEditLost, Kept
  <2>7. Numbered(p)' /\ Stamped(p)'
    BY <1>1, <1>2, <2>1, <2>3 DEF AtPath, Numbered, Stamped
  <2>8. Same(p)'
    BY <1>1, <1>2, <2>1 DEF AtPath, Same, InStep, LocalChanged, RemoteChanged
  <2>9. Missing(p)'
    BY <1>1, <1>2, <2>1 DEF AtPath, Missing, Behind, RemoteChanged, Deletion
  <2>10. Harmless(p)'
    BY <1>1, <1>2, <2>1 DEF AtPath, Harmless, Safe, Replaced, Taking
  <2>11. Download(p)' /\ Deletion(p)'
    BY <2>1 DEF Download, Deletion, Taking
  <2>12. Resting(p)' /\ Upload(p)' /\ ScannedMissing(p)'
    BY <1>1, <1>2, <2>1 DEF Resting, Upload, ScannedMissing
  <2> QED
    BY <1>2, <2>2, <2>4, <2>5, <2>6, <2>7, <2>8, <2>9, <2>10, <2>11, <2>12, OnePath DEF AtPath
<1>4. CASE /\ drive' = IF drive[p] = walk[p].node THEN [drive EXCEPT ![p] = None] ELSE drive
           /\ Goto(p, "forget") /\ UNCHANGED <<foreigns, faults>>
  <2>1. drive' = [drive EXCEPT ![p] = None] \/ drive' = [drive EXCEPT ![p] = drive[p]]
    BY <1>1, <1>4 DEF TypeOK
  <2> QED
    BY <1>3, <1>4, <2>1
<1>5. CASE Fault("trash") /\ Goto(p, "done") /\ UNCHANGED drive
  BY <1>1, <1>2, <1>5, FaultType, GiveUp
<1> QED
  BY <1>4, <1>5 DEF TrashRemote, budgetVars

(* A revision r is made at p, of a node that is there or new.              *)
Sealing(p, r, b, s) ==
  /\ r = nrev + 1 /\ r \in Rev /\ nrev' = r
  /\ seal' = [seal EXCEPT ![r] = [body |-> b, stamp |-> s]]
  /\ IF drive[p] = None
       THEN drive' = [drive EXCEPT ![p] = r] /\ tip' = [tip EXCEPT ![r] = r]
       ELSE tip' = [tip EXCEPT ![drive[p]] = r] /\ drive' = drive

Made(p, r, b, s) ==
  /\ drive' \in [Paths -> Rev \cup {None}] /\ tip' \in [Rev -> Rev] /\ seal' \in [Rev -> Revision]
  /\ nrev' \in 0 .. MaxRev /\ nrev' = nrev + 1 /\ r = nrev + 1 /\ r \in Int /\ r \in Rev
  /\ drive'[p] # None /\ drive'[p] <= r /\ tip'[drive'[p]] = r
  /\ seal'[r].body = b /\ seal'[r].stamp = s
  /\ \A i \in 1 .. nrev : seal'[i] = seal[i]
  /\ \A q \in Paths \ {p} : drive'[q] = drive[q] /\ (drive[q] # None => tip'[drive[q]] = tip[drive[q]])

LEMMA SealingMakes ==
  ASSUME Inv, NEW p \in Paths, NEW r, NEW b \in Content, NEW s \in Content, b # None, s # None,
         Sealing(p, r, b, s), b <= nver', s <= nver', nver <= nver', nver' \in Int
  PROVE  Made(p, r, b, s) /\ Sealed'
<1>1. TypeOK /\ Sealed /\ nrev \in Int /\ 0 <= nrev /\ r = nrev + 1 /\ r \in Rev /\ nrev' = r /\ r \in Int /\ r # None
  BY Bounds, Contents, Numbers DEF Inv, Sealing
<1>2. [body |-> b, stamp |-> s] \in Revision
  BY DEF Revision
<1>3. seal' = [seal EXCEPT ![r] = [body |-> b, stamp |-> s]]
  BY DEF Sealing
<1>4. seal' \in [Rev -> Revision] /\ nrev' \in 0 .. MaxRev
  BY <1>1, <1>2, <1>3, Numbers, Constants DEF TypeOK
<1>5. 1 .. nrev \subseteq Rev /\ \A i \in 1 .. nrev : i # r
  BY <1>1, Bounds
<1>6. seal'[r].body = b /\ seal'[r].stamp = s /\ \A i \in 1 .. nrev : seal'[i] = seal[i]
  BY <1>1, <1>3, <1>5 DEF TypeOK
<1>7. \A q \in Paths : drive[q] # None => drive[q] \in 1 .. nrev /\ drive[q] # r /\ drive[q] \in Rev
  BY <1>5, Bounds
<1>8. /\ drive' \in [Paths -> Rev \cup {None}] /\ tip' \in [Rev -> Rev]
      /\ drive'[p] # None /\ drive'[p] <= r /\ tip'[drive'[p]] = r /\ (drive[p] # None => drive'[p] = drive[p])
      /\ \A q \in Paths \ {p} : drive'[q] = drive[q]
      /\ drive[p] = None => drive'[p] = r
      /\ \A i \in 1 .. nrev : tip'[i] = tip[i] \/ (tip'[i] = r /\ i = drive[p])
      /\ tip'[r] = r \/ (tip'[r] = tip[r] /\ drive[p] # None)
  <2>1. CASE drive[p] = None
    <3>1. drive' = [drive EXCEPT ![p] = r] /\ tip' = [tip EXCEPT ![r] = r]
      BY <2>1 DEF Sealing
    <3> QED
      BY <1>1, <1>5, <2>1, <3>1 DEF TypeOK
  <2>2. CASE drive[p] # None
    <3>1. drive' = drive /\ tip' = [tip EXCEPT ![drive[p]] = r]
      BY <2>2 DEF Sealing
    <3>2. drive[p] \in Rev /\ drive[p] <= r
      BY <1>1, <1>7, <2>2
    <3> QED
      BY <1>1, <1>5, <1>7, <2>2, <3>1, <3>2 DEF TypeOK
  <2> QED
    BY <2>1, <2>2
<1>9. \A q \in Paths \ {p} : drive[q] # None => tip'[drive[q]] = tip[drive[q]]
  BY <1>1, <1>7, <1>8 DEF Sealed
<1>10. Sealed'
  <2>1. \A i \in 1 .. nrev' : tip'[i] <= nrev'
    <3>1. \A i \in 1 .. nrev' : i \in 1 .. nrev \/ i = r
      BY <1>1
    <3>2. tip'[r] = r
      BY <1>1, <1>8 DEF Sealed
    <3>3. \A i \in 1 .. nrev : tip[i] <= nrev /\ tip[i] \in Int
      BY <1>1, <1>5, Contents DEF Sealed, TypeOK
    <3> QED
      BY <1>1, <1>8, <3>1, <3>2, <3>3
  <2>2. \A i \in 1 .. nrev' : seal'[i].body <= nver' /\ seal'[i].stamp <= nver'
    <3>1. \A i \in 1 .. nrev' : i \in 1 .. nrev \/ i = r
      BY <1>1
    <3>2. \A i \in 1 .. nrev : /\ seal[i].body <= nver /\ seal[i].body \in Int
                              /\ seal[i].stamp <= nver /\ seal[i].stamp \in Int
      BY <1>1, <1>5, SealType DEF Sealed
    <3>3. nver \in Int
      BY Bounds
    <3> QED
      BY <1>6, <3>1, <3>2, <3>3
  <2>3. \A i \in Rev : nrev' < i => tip'[i] = i
    <3>1. \A i \in Rev : nrev' < i => tip'[i] = tip[i] /\ nrev < i
      <4>1. CASE drive[p] = None
        BY <1>1, <4>1, Contents DEF Sealing, TypeOK
      <4>2. CASE drive[p] # None
        BY <1>1, <1>7, <4>2, Contents DEF Sealing, TypeOK
      <4> QED
        BY <4>1, <4>2
    <3> QED
      BY <1>1, <3>1 DEF Sealed
  <2>4. \A q1, q2 \in Paths : drive'[q1] = drive'[q2] /\ drive'[q1] # None => q1 = q2
    <3>1. \A q \in Paths \ {p} : drive'[q] = drive[q] /\ (drive'[q] = None \/ drive'[q] # drive'[p])
      BY <1>1, <1>7, <1>8 DEF Sealed
    <3> QED
      BY <1>1, <3>1 DEF Sealed
  <2> QED
    BY <2>1, <2>2, <2>3, <2>4 DEF Sealed
<1> QED
  BY <1>1, <1>4, <1>6, <1>8, <1>9, <1>10 DEF Made

LEMMA SendKeeps ==
  ASSUME Inv, NEW p \in Paths, SendUpload(p)
  PROVE  Inv'
<1>1. TypeOK /\ AtPath(p) /\ phase = "applying" /\ step[p] = "send" /\ NoEditLost /\ nrev \in Int
  BY Working, Bounds DEF SendUpload, Inv
<1>2. UNCHANGED <<file, busy, copies, base, phase, scan, walk, got, owed, removed, trashed, nver>>
  BY DEF SendUpload, localVars, histVars
<1>3. /\ got[p] # None /\ (got[p] = file[p] \/ Replaced(got[p])) /\ (file[p] # None \/ p \in removed)
      /\ got[p] \in Content /\ got[p] <= nver /\ file[p] \in Content /\ file[p] <= nver
  BY <1>1, FileType DEF AtPath, Harmless, Deletion, Numbered
<1>4. CASE /\ Goto(p, "done") /\ UNCHANGED <<drive, tip, seal, nrev, sent>>
           /\ foreigns' \in 0 .. MaxForeign /\ faults' \in 0 .. MaxFault
  BY <1>1, <1>2, <1>4, GiveUp
<1>5. ASSUME NEW r, NEW b \in Content, b # None, Sealing(p, r, b, got[p]), b = got[p] \/ file[p] # got[p], b <= nver,
             sent' = [sent EXCEPT ![p] = r], NEW to \in {"readback", "done"}, Goto(p, to),
             foreigns' \in 0 .. MaxForeign, faults' \in 0 .. MaxFault
      PROVE  Inv'
  <2>1. nver \in Int /\ nver' \in Int /\ nver' = nver /\ 0 <= nver /\ 0 <= nrev
    BY <1>2, Bounds
  <2>2. Made(p, r, b, got[p]) /\ Sealed'
    <3>1. b <= nver' /\ got[p] <= nver' /\ nver <= nver'
      BY <1>3, <1>5, <2>1
    <3> QED
      BY <1>3, <1>5, <2>1, <3>1, SealingMakes
  <2>3. /\ sent'[p] = r /\ step'[p] = to
        /\ \A q \in Paths \ {p} : sent'[q] = sent[q] /\ step'[q] = step[q]
    BY <1>1, <1>5 DEF TypeOK, Goto
  <2>4. TypeOK'
    <3>1. sent' \in [Paths -> Rev \cup {None}] /\ step' \in [Paths -> Step]
      BY <1>1, <1>5, <2>2 DEF TypeOK, Goto, Step, Made
    <3> QED
      BY <1>1, <1>2, <1>5, <2>2, <3>1 DEF TypeOK, Made
  <2>5. Growth /\ \A q \in Paths \ {p} : Still(q)
    BY <1>1, <1>2, <2>1, <2>2, <2>3 DEF Growth, Still, Made
  <2>6. NoEditLost'
    <3>1. \A i \in 1 .. nrev : i \in 1 .. nrev'
      BY <1>1, <2>2 DEF Made
    <3> QED
      BY <1>1, <1>2, <2>2, <3>1 DEF NoEditLost, Kept, Made
  <2>7. Numbered(p)'
    BY <1>1, <1>2, <1>3, <2>1, <2>2, <2>3, RowType, SeenType DEF AtPath, Numbered, Made
  <2>8. Stamped(p)'
    BY <1>1, <1>2, <1>5, <2>2, <2>3, Bounds DEF AtPath, Stamped, Made
  <2>9. Safe(got[p]) \/ b = got[p]
    BY <1>3, <1>5 DEF Safe
  <2>10. Harmless(p)'
    <3>1. base[p] # NoRow => Safe(base[p].local)
      BY <1>1 DEF AtPath, Harmless
    <3>2. r \in 1 .. nrev'
      BY <1>1, <2>1, <2>2 DEF Made
    <3>3. \A v \in Content : Safe(v) => (v <= nver' /\ v \notin owed') \/ \E i \in 1 .. nrev' : seal'[i].body = v
      BY <2>4, <2>5, SafeKept
    <3>4. base[p].local \in Content
      BY <1>1, RowType
    <3> QED
      BY <1>2, <1>3, <1>5, <2>2, <2>3, <2>9, <3>1, <3>2, <3>3, <3>4 DEF Harmless, Safe, Replaced, Taking, Made
  <2>11. Same(p)'
    <3>1. base[p] # NoRow /\ (base[p].rev = None \/ base[p].rev = r) => base[p].local = base[p].stamp
      BY <1>1, <2>2, Bounds DEF AtPath, Stamped, Made
    <3> QED
      BY <1>2, <1>5, <2>2, <3>1 DEF Same, InStep, LocalChanged, RemoteChanged, Made
  <2>12. Upload(p)'
    BY <1>2, <1>5, <2>2, <2>3, Contents DEF Upload, Made
  <2>13. Missing(p)' /\ Deletion(p)'
    BY <1>2, <1>3, <1>5, <2>2, <2>3 DEF Missing, Deletion, Made
  <2>14. Resting(p)' /\ Download(p)' /\ ScannedMissing(p)'
    BY <1>1, <1>2, <1>5, <2>3 DEF Resting, Download, ScannedMissing, Taking
  <2> QED
    BY <1>2, <2>2, <2>4, <2>5, <2>6, <2>7, <2>8, <2>10, <2>11, <2>12, <2>13, <2>14, OnePath DEF AtPath
<1> DEFINE r == nrev + 1
           refused == IF walk[p].rev = None THEN drive[p] # None ELSE drive[p] # walk[p].node
<1>6. CASE refused /\ Goto(p, "done") /\ UNCHANGED <<drive, tip, seal, nrev, sent, foreigns, faults>>
  BY <1>1, <1>4, <1>6 DEF TypeOK
<1>7. CASE Fault("send") /\ Goto(p, "done") /\ UNCHANGED <<drive, tip, seal, nrev, sent>>
  BY <1>1, <1>4, <1>7, FaultType
<1>8. CASE /\ ~refused /\ r <= MaxRev /\ nrev' = r
           /\ \E b \in IF file[p] = got[p] THEN {got[p]} ELSE {got[p], file[p], Torn(r)} \ {None} :
                seal' = [seal EXCEPT ![r] = [body |-> b, stamp |-> got[p]]]
           /\ IF walk[p].rev = None
                THEN drive' = [drive EXCEPT ![p] = r] /\ tip' = [tip EXCEPT ![r] = r]
                ELSE tip' = [tip EXCEPT ![walk[p].node] = r] /\ UNCHANGED drive
           /\ sent' = [sent EXCEPT ![p] = r]
           /\ \/ Goto(p, "readback") /\ UNCHANGED <<foreigns, faults>>
              \/ Fault("answer") /\ Goto(p, "done")
  <2>1. r \in Rev
    BY <1>1, <1>8, Numbers, Bounds
  <2>2. PICK b \in IF file[p] = got[p] THEN {got[p]} ELSE {got[p], file[p], Torn(r)} \ {None} :
               seal' = [seal EXCEPT ![r] = [body |-> b, stamp |-> got[p]]]
    BY <1>8
  <2>3. b \in Content /\ b # None /\ b <= nver /\ (b = got[p] \/ file[p] # got[p])
    <3>1. Torn(r) \in Content /\ Torn(r) # None /\ Torn(r) <= nver
      BY <2>1, TornType, Contents, Bounds
    <3> QED
      BY <1>3, <2>2, <3>1
  <2>4. Sealing(p, r, b, got[p])
    <3>1. walk[p].rev # None => walk[p].node # None
      BY <1>1 DEF AtPath, Numbered
    <3> QED
      BY <1>8, <2>1, <2>2, <3>1 DEF Sealing
  <2>5. foreigns' \in 0 .. MaxForeign /\ faults' \in 0 .. MaxFault
    BY <1>1, <1>8, FaultType DEF budgetVars
  <2> HIDE DEF r
  <2>6. CASE Goto(p, "readback")
    BY <1>5, <1>8, <2>3, <2>4, <2>5, <2>6
  <2>7. CASE Goto(p, "done")
    BY <1>5, <1>8, <2>3, <2>4, <2>5, <2>7
  <2> QED
    BY <1>8, <2>6, <2>7
<1> QED
  BY <1>6, <1>7, <1>8 DEF SendUpload, driveVars, budgetVars

LEMMA ForeignWriteKeeps ==
  ASSUME Inv, NEW p \in Paths, ForeignWrite(p)
  PROVE  Inv'
<1> DEFINE r == nrev + 1
           v == nver + 1
<1>1. TypeOK /\ AtPath(p) /\ NoEditLost /\ nrev \in Int /\ nver \in Int /\ 0 <= nrev /\ 0 <= nver
  BY Bounds DEF Inv
<1>2. /\ UNCHANGED <<file, busy, copies, base, phase, scan, walk, step, got, sent, owed, removed, trashed, faults>>
      /\ nver' = v /\ nver < MaxVersion /\ nrev < MaxRev /\ foreigns < MaxForeign /\ foreigns' = foreigns + 1
  BY DEF ForeignWrite, localVars, passVars
<1>3. v \in Version /\ v \in Content /\ v # None /\ v \in Int /\ r \in Rev /\ r # None /\ nver' \in 0 .. MaxVersion
  BY <1>1, <1>2, Numbers, Contents, Constants
<1>4. Sealing(p, r, v, v)
  BY <1>3 DEF ForeignWrite, Sealing
<1>5. nver < v /\ nrev < r /\ v = nver' /\ v \in Int /\ nver <= nver' /\ nver' \in Int /\ v <= nver'
  BY <1>1, <1>2
<1> HIDE DEF r, v
<1>6. Made(p, r, v, v) /\ Sealed'
  BY <1>3, <1>4, <1>5, SealingMakes
<1>7. TypeOK'
  <2>1. foreigns' \in 0 .. MaxForeign
    BY <1>1, <1>2, Constants DEF TypeOK
  <2> QED
    BY <1>1, <1>2, <1>3, <1>6, <2>1 DEF TypeOK, Made
<1>8. Growth /\ \A q \in Paths \ {p} : Still(q)
  BY <1>1, <1>2, <1>5, <1>6 DEF Growth, Still, Made
<1>9. NoEditLost'
  <2>1. \A i \in 1 .. nrev : i \in 1 .. nrev'
    BY <1>1, <1>6 DEF Made
  <2> QED
    BY <1>1, <1>2, <1>6, <2>1 DEF NoEditLost, Kept, Made
<1>10. base[p].stamp # v /\ base[p].rev # r /\ walk[p].rev # r /\ got[p] # v
  <2>1. base[p].stamp <= nver /\ base[p].rev <= nrev /\ walk[p].rev <= nrev /\ got[p] <= nver
    BY <1>1 DEF AtPath, Numbered
  <2>2. base[p].stamp \in Int /\ base[p].rev \in Int /\ walk[p].rev \in Int /\ got[p] \in Int
    BY <1>1, RowType, SeenType, FileType
  <2> QED
    BY <1>1, <1>5, <1>6, <2>1, <2>2 DEF Made
<1>11. Behind(p)' /\ Passed(p)'
  BY <1>2, <1>6, <1>10 DEF Behind, RemoteChanged, Passed, Made
<1>12. Numbered(p)'
  BY <1>1, <1>2, <1>5, <1>6, RowType, SeenType, FileType DEF AtPath, Numbered, Made
<1>13. Stamped(p)'
  BY <1>1, <1>2, <1>6, Bounds DEF AtPath, Stamped, RemoteChanged, Made
<1>14. Harmless(p)'
  <2>1. Harmless(p)
    BY <1>1 DEF AtPath
  <2>2. /\ file[p] \in Content /\ got[p] \in Content /\ base[p].local \in Content /\ scan[p].content \in Content
    BY <1>1, FileType, RowType, SeenType
  <2> QED
    BY <1>2, <1>7, <1>8, <2>1, <2>2, SafeKept DEF Harmless, Safe, Replaced
<1>15. Same(p)'
  BY <1>11 DEF Same, InStep, Behind, LocalChanged
<1>16. Download(p)'
  BY <1>1, <1>2, <1>6, <1>11 DEF AtPath, Download, Made
<1>17. Upload(p)'
  BY <1>1, <1>2, <1>6, <1>10, Bounds DEF AtPath, Upload, Made
<1>18. Missing(p)' /\ ScannedMissing(p)' /\ Deletion(p)' /\ Resting(p)'
  BY <1>1, <1>2, <1>6, <1>11 DEF AtPath, Missing, ScannedMissing, Deletion, Resting, Made
<1> QED
  BY <1>2, <1>6, <1>7, <1>8, <1>9, <1>12, <1>13, <1>14, <1>15, <1>16, <1>17, <1>18, OnePath DEF AtPath

LEMMA ForeignTrashKeeps ==
  ASSUME Inv, NEW p \in Paths, ForeignTrash(p)
  PROVE  Inv'
<1>1. TypeOK /\ AtPath(p) /\ NoEditLost /\ Sealed /\ nrev \in Int /\ nver \in Int /\ 0 <= nrev /\ None = 0
  BY Bounds, Contents DEF Inv
<1>2. /\ UNCHANGED <<file, busy, copies, base, tip, seal, nrev, phase, scan, walk, step, got, sent, owed, removed,
                     nver, faults>>
      /\ drive' = [drive EXCEPT ![p] = None] /\ trashed' = trashed \cup {p}
      /\ foreigns < MaxForeign /\ foreigns' = foreigns + 1
  BY DEF ForeignTrash, localVars, passVars
<1>3. drive'[p] = None /\ p \in trashed' /\ \A q \in Paths \ {p} : drive'[q] = drive[q]
  BY <1>1, <1>2 DEF TypeOK
<1>4. TypeOK'
  BY <1>1, <1>2, Constants DEF TypeOK
<1>5. Growth /\ \A q \in Paths \ {p} : Still(q)
  BY <1>1, <1>2, <1>3 DEF Growth, Still
<1>6. Sealed'
  BY <1>1, <1>2, <1>3 DEF Sealed
<1>7. NoEditLost'
  BY <1>1, <1>2 DEF NoEditLost, Kept
<1>8. Behind(p)' /\ Passed(p)'
  BY <1>3 DEF Behind, Passed
<1>9. Numbered(p)' /\ Stamped(p)'
  BY <1>1, <1>2, <1>3 DEF AtPath, Numbered, Stamped, RemoteChanged
<1>10. Harmless(p)'
  BY <1>1, <1>2 DEF AtPath, Harmless, Safe, Replaced
<1>11. Same(p)'
  BY <1>3 DEF Same, InStep
<1>12. Download(p)' /\ Upload(p)'
  BY <1>1, <1>2, <1>3, <1>8 DEF AtPath, Download, Upload
<1>13. Missing(p)' /\ ScannedMissing(p)' /\ Deletion(p)' /\ Resting(p)'
  BY <1>1, <1>2, <1>3, <1>8 DEF AtPath, Missing, ScannedMissing, Deletion, Resting
<1> QED
  BY <1>2, <1>4, <1>5, <1>6, <1>7, <1>9, <1>10, <1>11, <1>12, <1>13, OnePath DEF AtPath

-----------------------------------------------------------------------------
(* The user replaces what is at a path, or deletes it: where he has room,  *)
(* no step of the pass relies on what was there.                           *)
LEMMA UserKeeps ==
  ASSUME NoWindow, Inv, NEW p \in Paths, Room(p), NEW v \in Content,
         file' = [file EXCEPT ![p] = v], busy' \in [Paths -> BOOLEAN],
         UNCHANGED <<copies, base, drive, tip, seal, nrev, phase, scan, walk, step, got, sent,
                     trashed, foreigns, faults>>,
         nver <= nver', nver' \in 0 .. MaxVersion, v <= nver',
         v # None => nver < v, v = None => p \in removed',
         owed' \subseteq Version, owed' \subseteq (owed \ {file[p]}) \cup {v}, v = None => v \notin owed',
         removed \subseteq removed', removed' \subseteq Paths
  PROVE  Inv'
<1>1. TypeOK /\ AtPath(p) /\ Sealed /\ NoEditLost /\ nver \in Int /\ nrev \in Int /\ nver' \in Int /\ v \in Int
  BY Bounds, Contents DEF Inv
<1>2. file'[p] = v /\ \A q \in Paths \ {p} : file'[q] = file[q]
  BY <1>1 DEF TypeOK
<1>3. TypeOK'
  BY <1>1 DEF TypeOK
<1>4. \A w \in Content : w <= nver /\ w \notin owed => w \notin owed'
  BY <1>1, Contents
<1>5. Growth /\ \A q \in Paths \ {p} : Still(q)
  BY <1>1, <1>2, <1>4 DEF Growth, Still
<1>6. Sealed'
  <2>1. \A r \in 1 .. nrev : seal[r].body \in Int /\ seal[r].stamp \in Int
    BY <1>1, Bounds, SealType
  <2> QED
    BY <1>1, <2>1 DEF Sealed
<1>7. NoEditLost'
  <2> SUFFICES ASSUME NEW w \in owed' PROVE Kept(w)'
    BY DEF NoEditLost
  <2>1. CASE w = v
    BY <1>2, <2>1 DEF Kept
  <2>2. CASE w # v
    <3>1. Kept(w) /\ w # file[p]
      BY <1>1, <2>2 DEF NoEditLost
    <3> QED
      BY <1>2, <3>1 DEF Kept
  <2> QED
    BY <2>1, <2>2
<1>8. step[p] \notin {"drop", "place", "placed", "remove"}
  BY DEF Room, NoWindow
<1>9. /\ base[p] # NoRow => v # base[p].local
      /\ got[p] # None => v # got[p]
  <2>1. base[p].local <= nver /\ got[p] <= nver
    BY <1>1 DEF AtPath, Numbered
  <2>2. base[p].local \in Int /\ got[p] \in Int /\ (base[p] # NoRow => base[p].local # None)
    BY <1>1, RowType, FileType
  <2> QED
    BY <1>1, <2>1, <2>2
<1>10. Numbered(p)'
  BY <1>1, <1>2, RowType, FileType DEF AtPath, Numbered
<1>11. Stamped(p)' /\ Resting(p)'
  BY <1>1 DEF AtPath, Stamped, Resting, RemoteChanged
<1>12. Harmless(p)'
  <2>1. Harmless(p)
    BY <1>1 DEF AtPath
  <2>2. /\ file[p] \in Content /\ got[p] \in Content /\ base[p].local \in Content /\ scan[p].content \in Content
    BY <1>1, FileType, RowType, SeenType
  <2>3. step[p] \in {"stat", "send", "readback"} => got[p] # None /\ got[p] <= nver' /\ got[p] \notin owed'
    <3>1. got[p] <= nver /\ got[p] \in Int
      BY <1>1, FileType DEF AtPath, Numbered
    <3>2. CASE got[p] = file[p]
      BY <1>1, <1>9, <2>1, <3>1, <3>2 DEF Harmless
    <3>3. CASE got[p] # file[p]
      BY <1>1, <1>4, <2>1, <2>2, <3>1, <3>3 DEF Harmless, Replaced
    <3> QED
      BY <3>2, <3>3
  <2>4. /\ base[p] # NoRow => Safe(base[p].local)
        /\ step[p] \in {"fetch", "guard", "drop", "condemn"} => Safe(scan[p].content)
        /\ step[p] \in Taking => Safe(got[p])
    BY <2>1 DEF Harmless
  <2>5. \A w \in Content : Safe(w) => (w <= nver' /\ w \notin owed') \/ \E r \in 1 .. nrev' : seal'[r].body = w
    BY <1>3, <1>5, SafeKept
  <2> QED
    BY <1>8, <2>2, <2>3, <2>4, <2>5 DEF Harmless, Safe, Replaced
<1>13. Same(p)'
  BY <1>2, <1>9 DEF Same, InStep, LocalChanged
<1>14. Download(p)'
  BY <1>1 DEF AtPath, Download, Behind, Passed, RemoteChanged
<1>15. Upload(p)'
  BY <1>1, <1>2, <1>9 DEF AtPath, Upload, Harmless
<1>16. Missing(p)'
  BY <1>1, <1>2, <1>9 DEF AtPath, Missing, Behind, RemoteChanged
<1>17. ScannedMissing(p)'
  BY <1>1, <1>2, <1>9 DEF AtPath, ScannedMissing, Behind, RemoteChanged
<1>18. Deletion(p)'
  BY <1>1, <1>2, <1>9 DEF AtPath, Deletion, Behind, RemoteChanged
<1> QED
  BY <1>3, <1>5, <1>6, <1>7, <1>10, <1>11, <1>12, <1>13, <1>14, <1>15, <1>16, <1>17, <1>18, OnePath DEF AtPath

LEMMA WriteKeeps ==
  ASSUME NoWindow, Inv, NEW p \in Paths, Save(p) \/ CloseWritten(p) \/ Delete(p)
  PROVE  Inv'
<1>1. TypeOK /\ nver \in Int /\ 0 <= nver /\ nrev \in Int
  BY Bounds DEF Inv
<1>2. CASE Save(p) \/ CloseWritten(p)
  <2>1. /\ Write(p) /\ busy' \in [Paths -> BOOLEAN]
        /\ UNCHANGED <<copies, base, drive, tip, seal, nrev, phase, scan, walk, step, got, sent,
                       removed, trashed, foreigns, faults>>
    BY <1>1, <1>2 DEF Save, CloseWritten, TypeOK, driveVars, passVars, budgetVars
  <2> DEFINE v == nver + 1
  <2>2. /\ Room(p) /\ nver' = v /\ file' = [file EXCEPT ![p] = v] /\ owed' = (owed \ {file[p]}) \cup {v}
        /\ nver < MaxVersion
    BY <2>1 DEF Write
  <2>3. v \in Version /\ v \in Content /\ v # None /\ nver < v /\ nver <= nver' /\ nver' \in 0 .. MaxVersion /\ v <= nver'
    BY <1>1, <2>2, Numbers, Contents, Constants
  <2>4. removed \subseteq removed' /\ removed' \subseteq Paths /\ owed' \subseteq Version
    BY <1>1, <2>1, <2>2, <2>3 DEF TypeOK
  <2> HIDE DEF v
  <2> QED
    BY <2>1, <2>2, <2>3, <2>4, UserKeeps
<1>3. CASE Delete(p)
  <2>1. /\ Room(p) /\ file' = [file EXCEPT ![p] = None] /\ busy' \in [Paths -> BOOLEAN]
        /\ UNCHANGED <<copies, base, drive, tip, seal, nrev, phase, scan, walk, step, got, sent,
                       trashed, nver, foreigns, faults>>
        /\ owed' = owed \ {file[p]} /\ removed' = removed \cup {p}
    BY <1>1, <1>3 DEF Delete, Put, TypeOK, driveVars, passVars, budgetVars
  <2>2. None \in Content /\ None <= nver' /\ nver <= nver' /\ nver' \in 0 .. MaxVersion
    BY <1>1, <2>1, Contents DEF TypeOK
  <2>3. None \notin Version /\ owed \subseteq Version
    BY <1>1, Numbers, Contents DEF TypeOK
  <2>4. owed' \subseteq Version /\ None \notin owed' /\ removed \subseteq removed' /\ removed' \subseteq Paths
    BY <1>1, <2>1, <2>3 DEF TypeOK
  <2> QED
    BY <2>1, <2>2, <2>4, UserKeeps
<1> QED
  BY <1>2, <1>3

LEMMA OpenForWriteKeeps ==
  ASSUME Inv, NEW p \in Paths, OpenForWrite(p)
  PROVE  Inv'
<1>1. TypeOK /\ nver \in Int /\ nrev \in Int
  BY Bounds DEF Inv
<1>2. /\ UNCHANGED <<file, copies, base, drive, tip, seal, nrev, phase, scan, walk, step, got, sent,
                     owed, removed, trashed, nver, foreigns, faults>>
      /\ busy' \in [Paths -> BOOLEAN]
  BY <1>1 DEF OpenForWrite, TypeOK, driveVars, passVars, histVars, budgetVars
<1>3. TypeOK'
  BY <1>1, <1>2 DEF TypeOK
<1>4. Quiet(p) /\ Still(p)
  BY <1>2 DEF Quiet, Still
<1> QED
  BY <1>2, <1>3, <1>4, QuietGrowth, StillKeeps, QuietKeeps

-----------------------------------------------------------------------------
(* The steps of a pass as a whole.                                         *)

(* A path at which nothing is under way.                                   *)
LEMMA AtRest ==
  ASSUME Inv, NEW p \in Paths,
         UNCHANGED <<file, copies, base, drive, tip, seal, nrev, owed, nver>>,
         step'[p] = "done", phase' # "applying" => got'[p] = None,
         Numbered(p)', ScannedMissing(p)',
         p \in removed /\ file[p] = None => p \in removed',
         p \in trashed /\ drive[p] = None => p \in trashed'
  PROVE  AtPath(p)'
<1>1. AtPath(p)
  BY DEF Inv
<1>2. Stamped(p)' /\ Same(p)' /\ Resting(p)'
  BY <1>1 DEF AtPath, Stamped, Same, Resting, InStep, LocalChanged, RemoteChanged
<1>3. Harmless(p)'
  BY <1>1 DEF AtPath, Harmless, Safe, Replaced, Taking
<1>4. Missing(p)'
  BY <1>1 DEF AtPath, Missing, Behind, RemoteChanged
<1>5. Download(p)' /\ Upload(p)' /\ Deletion(p)'
  BY DEF Download, Upload, Deletion, Taking
<1> QED
  BY <1>2, <1>3, <1>4, <1>5 DEF AtPath

LEMMA EndKeeps ==
  ASSUME Inv, PassFails \/ EndPass \/ Crash
  PROVE  Inv'
<1>1. TypeOK /\ Sealed /\ NoEditLost
  BY DEF Inv
<1>2. /\ UNCHANGED <<file, busy, copies, base, drive, tip, seal, nrev, owed, removed, trashed, nver>>
      /\ foreigns' \in 0 .. MaxForeign /\ faults' \in 0 .. MaxFault /\ phase' = "idle"
  BY <1>1, FaultType DEF PassFails, EndPass, Crash, localVars, driveVars, histVars
<1>3. \A p \in Paths :
        /\ step'[p] = "done" /\ got'[p] = None
        /\ walk'[p] = walk[p] \/ walk'[p] = Unseen
        /\ sent'[p] = sent[p] \/ sent'[p] = None
  BY <1>1 DEF Inv, AtPath, Resting, PassFails, EndPass, Crash
<1>4. TypeOK'
  <2>1. /\ walk' \in [Paths -> Seen] /\ scan' \in [Paths -> Scanned]
        /\ got' \in [Paths -> Content] /\ sent' \in [Paths -> Rev \cup {None}]
    BY <1>1, Values, Contents DEF TypeOK, PassFails, EndPass, Crash
  <2>2. step' \in [Paths -> Step]
    BY <1>1 DEF TypeOK, Step, PassFails, EndPass, Crash
  <2> QED
    BY <1>1, <1>2, <2>1, <2>2 DEF TypeOK
<1>5. Sealed' /\ NoEditLost'
  BY <1>1, <1>2 DEF Sealed, NoEditLost, Kept
<1>6. ASSUME NEW p \in Paths PROVE AtPath(p)'
  <2>1. Numbered(p)
    BY DEF Inv, AtPath
  <2>2. None <= nver /\ None <= nrev /\ Unseen.node = None /\ Unseen.rev = None
    BY Bounds, Contents DEF Unseen
  <2>3. Numbered(p)'
    BY <1>2, <1>3, <2>1, <2>2 DEF Numbered
  <2>4. ScannedMissing(p)'
    BY <1>2 DEF ScannedMissing
  <2> QED
    BY <1>2, <1>3, <2>3, <2>4, AtRest
<1> QED
  BY <1>4, <1>5, <1>6 DEF Inv

(* When every file is gone the pass stops, unless none was synced.         *)
LEMMA WipeStops ==
  ASSUME NEW tracked, tracked \subseteq Paths, NEW p \in tracked, base[p] # NoRow
  PROVE  Guarded(tracked, Paths, Others)
<1> DEFINE rows == {q \in tracked : base[q] # NoRow}
<1>1. rows \subseteq Paths /\ rows \cap Paths = rows /\ p \in rows
  OBVIOUS
<1>2. IsFiniteSet(rows)
  BY <1>1, Constants, FS_Subset
<1>3. Cardinality(rows) \in Nat /\ Cardinality(rows) # 0
  BY <1>1, <1>2, FS_CardinalityType, FS_EmptySet
<1> HIDE DEF rows
<1>4. LooksLikeAWipe(Cardinality(rows) + Others, Cardinality(rows) + Others)
  BY <1>3, Constants DEF LooksLikeAWipe
<1> QED
  BY <1>1, <1>4 DEF Guarded, rows

LEMMA ScanKeeps ==
  ASSUME Inv, ScanLocal
  PROVE  Inv'
<1>1. TypeOK /\ Sealed /\ NoEditLost /\ phase = "idle"
  BY DEF Inv, ScanLocal
<1>2. PICK hidden \in SUBSET Paths, unmounted \in BOOLEAN :
        /\ foreigns' \in 0 .. MaxForeign /\ faults' \in 0 .. MaxFault
        /\ unmounted => hidden = {}
        /\ scan' = [p \in Paths |->
             IF p \in hidden THEN [content |-> None, busy |-> FALSE, hidden |-> TRUE]
             ELSE IF unmounted THEN Unscanned
             ELSE [content |-> file[p], busy |-> busy[p], hidden |-> FALSE]]
        /\ phase' = IF Guarded(Paths \ hidden, {p \in Paths : scan'[p].content = None},
                               IF unmounted THEN Others ELSE 0)
                      THEN "idle" ELSE "scanned"
  <2>1. PICK hidden \in SUBSET Paths, unmounted \in BOOLEAN :
        /\ CASE unmounted /\ hidden = {} -> Fault("unmounted")
             [] ~unmounted /\ hidden # {} -> Fault("unreadable")
             [] ~unmounted /\ hidden = {} -> UNCHANGED budgetVars
             [] OTHER -> FALSE
        /\ scan' = [p \in Paths |->
             IF p \in hidden THEN [content |-> None, busy |-> FALSE, hidden |-> TRUE]
             ELSE IF unmounted THEN Unscanned
             ELSE [content |-> file[p], busy |-> busy[p], hidden |-> FALSE]]
        /\ phase' = IF Guarded(Paths \ hidden, {p \in Paths : scan'[p].content = None},
                               IF unmounted THEN Others ELSE 0)
                      THEN "idle" ELSE "scanned"
    BY Zenon DEF ScanLocal
  <2>2. CASE unmounted /\ hidden = {}
    BY <1>1, <2>1, <2>2, FaultType
  <2>3. CASE ~unmounted /\ hidden # {}
    BY <1>1, <2>1, <2>3, FaultType
  <2>4. CASE ~unmounted /\ hidden = {}
    BY <1>1, <2>1, <2>4, FaultType
  <2>5. CASE unmounted /\ hidden # {}
    BY <2>1, <2>5
  <2> QED
    BY <2>2, <2>3, <2>4, <2>5
<1>3. /\ UNCHANGED <<file, busy, copies, base, drive, tip, seal, nrev, walk, step, got, sent, owed, trashed, nver>>
      /\ removed' = {p \in removed : scan'[p].content = None}
  BY DEF ScanLocal, localVars, driveVars
<1>4. \A p \in Paths :
        /\ p \in hidden => scan'[p].content = None /\ scan'[p].hidden
        /\ p \notin hidden /\ unmounted => scan'[p].content = None
        /\ p \notin hidden /\ ~unmounted => scan'[p].content = file[p]
  BY <1>2 DEF Unscanned
<1>5. scan' \in [Paths -> Scanned]
  <2> SUFFICES ASSUME NEW p \in Paths
               PROVE  (IF p \in hidden THEN [content |-> None, busy |-> FALSE, hidden |-> TRUE]
                       ELSE IF unmounted THEN Unscanned
                       ELSE [content |-> file[p], busy |-> busy[p], hidden |-> FALSE]) \in Scanned
    BY <1>2
  <2>1. [content |-> None, busy |-> FALSE, hidden |-> TRUE] \in Scanned
    BY Contents DEF Scanned
  <2>2. busy[p] \in BOOLEAN /\ file[p] \in Content
    BY <1>1 DEF TypeOK
  <2>3. [content |-> file[p], busy |-> busy[p], hidden |-> FALSE] \in Scanned
    BY <2>2 DEF Scanned
  <2> QED
    BY <2>1, <2>3, Values
<1>6. TypeOK'
  <2>1. phase' \in {"idle", "scanned", "applying"}
    BY <1>2
  <2> QED
    BY <1>1, <1>2, <1>3, <1>5, <2>1 DEF TypeOK
<1>7. Sealed' /\ NoEditLost'
  BY <1>1, <1>3 DEF Sealed, NoEditLost, Kept
<1>8. ASSUME NEW p \in Paths PROVE AtPath(p)'
  <2>1. AtPath(p) /\ step[p] = "done" /\ got[p] = None
    BY <1>1 DEF Inv, AtPath, Resting
  <2>2. Numbered(p)'
    BY <1>3, <2>1 DEF AtPath, Numbered
  <2>3. file[p] = None => scan'[p].content = None
    BY <1>4
  <2>4. ScannedMissing(p)'
    <3>1. CASE phase' # "scanned"
      BY <3>1 DEF ScannedMissing
    <3>2. CASE phase' = "scanned"
      <4>1. unmounted => base[p] = NoRow
        <5> SUFFICES ASSUME unmounted, base[p] # NoRow PROVE FALSE
          OBVIOUS
        <5>1. Paths \ hidden = Paths /\ {q \in Paths : scan'[q].content = None} = Paths
          BY <1>2, <1>4
        <5>2. Guarded(Paths, Paths, Others)
          BY WipeStops
        <5> QED
          BY <1>2, <3>2, <5>1, <5>2
      <4>2. scan'[p].content # None => scan'[p].content = file[p]
        BY <1>4
      <4>3. base[p] # NoRow /\ ~scan'[p].hidden => scan'[p].content = file[p]
        BY <1>4, <4>1
      <4>4. base[p] # NoRow => base[p].local # None
        BY <1>1, RowType
      <4>5. scan'[p].content = None /\ p \in removed => p \in removed'
        BY <1>3
      <4> QED
        BY <1>3, <2>1, <4>2, <4>3, <4>4, <4>5 DEF AtPath, Missing, ScannedMissing, Behind, RemoteChanged
    <3> QED
      BY <3>1, <3>2
  <2> QED
    BY <1>3, <2>1, <2>2, <2>3, <2>4, AtRest
<1> QED
  BY <1>6, <1>7, <1>8 DEF Inv

(* What each first step says of what was seen.                             *)
Sensible(to, l, r, row) ==
  /\ to \in {"done", "note", "hash", "copy", "fetch", "open", "condemn", "trash", "forget"}
  /\ to = "note" => l.content # None /\ r.rev # None /\ row # NoRow /\ ~RemoteChanged(row, r.rev)
  /\ to = "open" => l.content # None
  /\ to \in {"hash", "copy", "fetch"} => r.rev # None /\ RemoteChanged(row, r.rev)
  /\ to = "fetch" => l.content = None \/ (row # NoRow /\ row.local = l.content)
  /\ to = "condemn" => l.content # None /\ r.rev = None /\ row # NoRow /\ row.local = l.content
  /\ to = "trash" => l.content = None /\ r.rev # None /\ row # NoRow /\ ~RemoteChanged(row, r.rev)

LEMMA Planned ==
  ASSUME NEW l, NEW r, NEW row, NEW plan \in PlanFile(l, r, row)
  PROVE  Sensible(FirstStep(plan), l, r, row)
<1> DEFINE here == l.content # None
           there == r.rev # None
           lc == LocalChanged(row, l.content)
           rc == RemoteChanged(row, r.rev)
<1>1. CASE here /\ l.busy
  <2>1. plan = "deferred"
    BY <1>1 DEF PlanFile
  <2> QED
    BY <2>1 DEF Sensible, FirstStep
<1>2. CASE here /\ ~l.busy /\ there /\ ~lc /\ ~rc
  <2>1. plan = "unchanged"
    BY <1>2 DEF PlanFile
  <2> QED
    BY <1>2, <2>1 DEF Sensible, FirstStep, LocalChanged
<1>3. CASE here /\ ~l.busy /\ there /\ lc /\ ~rc
  <2>1. plan = "upload"
    BY <1>3 DEF PlanFile
  <2> QED
    BY <1>3, <2>1 DEF Sensible, FirstStep
<1>4. CASE here /\ ~l.busy /\ there /\ ~lc /\ rc
  <2>1. plan = "download"
    BY <1>4 DEF PlanFile
  <2> QED
    BY <1>4, <2>1 DEF Sensible, FirstStep, LocalChanged
<1>5. CASE here /\ ~l.busy /\ there /\ lc /\ rc
  <2>1. plan \in {"adopt", "conflict"}
    BY <1>5 DEF PlanFile
  <2> QED
    BY <1>5, <2>1 DEF Sensible, FirstStep
<1>6. CASE here /\ ~l.busy /\ ~there
  <2>1. plan = IF lc THEN "upload" ELSE "delete local"
    BY <1>6 DEF PlanFile
  <2> QED
    BY <1>6, <2>1 DEF Sensible, FirstStep, LocalChanged
<1>7. CASE ~here /\ there
  <2>1. plan = IF row = NoRow \/ rc THEN "download" ELSE "delete remote"
    BY <1>7 DEF PlanFile
  <2>2. row = NoRow => rc
    BY DEF RemoteChanged
  <2> QED
    BY <1>7, <2>1, <2>2 DEF Sensible, FirstStep
<1>8. CASE ~here /\ ~there
  <2>1. plan = "forget"
    BY <1>8 DEF PlanFile
  <2> QED
    BY <2>1 DEF Sensible, FirstStep
<1> QED
  BY <1>1, <1>2, <1>3, <1>4, <1>5, <1>6, <1>7, <1>8

LEMMA WalkKeeps ==
  ASSUME Inv, WalkRemote
  PROVE  Inv'
<1> DEFINE Plans == {"deferred", "unchanged", "adopt", "conflict", "download",
                     "upload", "delete local", "delete remote", "forget"}
           Stops(empty) == Guarded({p \in Paths : ~scan[p].hidden}, {p \in Paths : walk'[p].rev = None},
                                   IF empty THEN Others ELSE 0)
           Starts == /\ phase' = "applying"
                     /\ \E plan \in [Paths -> Plans] :
                          /\ \A p \in Paths : plan[p] \in PlanFile(scan[p], walk'[p], base[p])
                          /\ step' = [p \in Paths |-> IF scan[p].hidden \/ Hides(walk'[p]) THEN "done"
                                                      ELSE FirstStep(plan[p])]
           Walked(gaps, empty) ==
             walk' = [p \in Paths |->
               IF empty \/ p \in gaps \/ drive[p] = None
                 THEN [node |-> None, rev |-> None, hidden |-> gaps # {}]
                 ELSE [node |-> drive[p], rev |-> tip[drive[p]], hidden |-> FALSE]]
<1>1. TypeOK /\ Sealed /\ NoEditLost /\ phase = "scanned"
  BY DEF Inv, WalkRemote
<1>2. PICK gaps \in SUBSET Paths, empty \in BOOLEAN :
        /\ foreigns' \in 0 .. MaxForeign /\ faults' \in 0 .. MaxFault
        /\ empty => gaps = {}
        /\ Walked(gaps, empty)
        /\ IF Stops(empty) THEN phase' = "idle" /\ UNCHANGED step ELSE Starts
  <2>1. PICK gaps \in SUBSET Paths, empty \in BOOLEAN :
        /\ CASE empty /\ gaps = {} -> Fault("empty")
             [] ~empty /\ gaps # {} -> Fault("short")
             [] ~empty /\ gaps = {} -> UNCHANGED budgetVars
             [] OTHER -> FALSE
        /\ Walked(gaps, empty)
        /\ IF Stops(empty) THEN phase' = "idle" /\ UNCHANGED step ELSE Starts
    BY Zenon DEF WalkRemote
  <2> HIDE DEF Walked, Stops, Starts
  <2>2. CASE empty /\ gaps = {}
    BY <1>1, <2>1, <2>2, FaultType
  <2>3. CASE ~empty /\ gaps # {}
    BY <1>1, <2>1, <2>3, FaultType
  <2>4. CASE ~empty /\ gaps = {}
    BY <1>1, <2>1, <2>4, FaultType
  <2>5. CASE empty /\ gaps # {}
    BY <2>1, <2>5
  <2> QED
    BY <2>2, <2>3, <2>4, <2>5
<1>3. /\ UNCHANGED <<file, busy, copies, base, drive, tip, seal, nrev, scan, got, sent, owed, removed, nver>>
      /\ trashed' = {p \in trashed : walk'[p].rev = None}
  BY DEF WalkRemote, localVars, driveVars
<1>4. \A p \in Paths :
        /\ empty \/ p \in gaps \/ drive[p] = None =>
             walk'[p].node = None /\ walk'[p].rev = None /\ (gaps # {} => walk'[p].hidden)
        /\ ~(empty \/ p \in gaps \/ drive[p] = None) =>
             walk'[p].node = drive[p] /\ walk'[p].rev = tip[drive[p]]
  BY <1>2
<1>5. walk' \in [Paths -> Seen]
  <2> SUFFICES ASSUME NEW p \in Paths
               PROVE  (IF empty \/ p \in gaps \/ drive[p] = None
                         THEN [node |-> None, rev |-> None, hidden |-> gaps # {}]
                         ELSE [node |-> drive[p], rev |-> tip[drive[p]], hidden |-> FALSE]) \in Seen
    BY <1>2
  <2>1. (gaps # {}) \in BOOLEAN
    OBVIOUS
  <2>2. [node |-> None, rev |-> None, hidden |-> gaps # {}] \in Seen
    BY <2>1 DEF Seen
  <2>3. drive[p] # None => [node |-> drive[p], rev |-> tip[drive[p]], hidden |-> FALSE] \in Seen
    BY <1>1, FileType DEF Seen
  <2> QED
    BY <2>2, <2>3
<1>6. \A p \in Paths : Numbered(p)' /\ (p \in trashed /\ drive[p] = None => p \in trashed')
  <2> SUFFICES ASSUME NEW p \in Paths
               PROVE  Numbered(p)' /\ (p \in trashed /\ drive[p] = None => p \in trashed')
    OBVIOUS
  <2>1. /\ drive[p] # None => drive[p] <= nrev /\ tip[drive[p]] <= nrev /\ tip[drive[p]] # None
        /\ None <= nrev
    BY <1>1, Bounds, FileType, Contents
  <2>2. walk'[p].node <= nrev /\ walk'[p].rev <= nrev /\ (walk'[p].node = None <=> walk'[p].rev = None)
    BY <1>4, <2>1
  <2>3. Numbered(p)
    BY DEF Inv, AtPath
  <2> QED
    BY <1>3, <1>4, <2>2, <2>3 DEF Numbered
<1>7. \A p \in Paths : step[p] = "done" /\ got[p] = None /\ AtPath(p)
  BY <1>1 DEF Inv, AtPath, Resting
<1>8. Sealed' /\ NoEditLost'
  BY <1>1, <1>3 DEF Sealed, NoEditLost, Kept
<1>9. CASE Stops(empty)
  <2>1. phase' = "idle" /\ step' = step
    BY <1>2, <1>9
  <2>2. TypeOK'
    BY <1>1, <1>2, <1>3, <1>5, <2>1 DEF TypeOK
  <2>3. ASSUME NEW p \in Paths PROVE AtPath(p)'
    <3>1. ScannedMissing(p)'
      BY <2>1 DEF ScannedMissing
    <3> QED
      BY <1>3, <1>6, <1>7, <2>1, <3>1, AtRest
  <2> QED
    BY <1>8, <2>2, <2>3 DEF Inv
<1>10. CASE ~Stops(empty)
  <2>1. Starts
    BY <1>2, <1>10
  <2>2. PICK plan \in [Paths -> Plans] :
          /\ \A p \in Paths : plan[p] \in PlanFile(scan[p], walk'[p], base[p])
          /\ step' = [p \in Paths |-> IF scan[p].hidden \/ Hides(walk'[p]) THEN "done"
                                      ELSE FirstStep(plan[p])]
    BY <2>1
  <2>3. \A p \in Paths : step'[p] = "done" \/ (~scan[p].hidden /\ ~Hides(walk'[p]) /\ step'[p] = FirstStep(plan[p]))
    BY <2>2
  <2>4. \A p \in Paths : step'[p] \in Step
    <3> SUFFICES ASSUME NEW p \in Paths PROVE step'[p] \in Step
      OBVIOUS
    <3>1. plan[p] \in PlanFile(scan[p], walk'[p], base[p])
      BY <2>2
    <3>2. Sensible(FirstStep(plan[p]), scan[p], walk'[p], base[p])
      BY <3>1, Planned
    <3> QED
      BY <2>3, <3>2 DEF Step, Sensible
  <2>5. TypeOK'
    <3>1. step' \in [Paths -> Step] /\ phase' \in {"idle", "scanned", "applying"}
      BY <2>1, <2>2, <2>4
    <3> QED
      BY <1>1, <1>2, <1>3, <1>5, <3>1 DEF TypeOK
  <2>6. ASSUME NEW p \in Paths, step'[p] = "done" PROVE AtPath(p)'
    <3>1. ScannedMissing(p)'
      BY <2>1 DEF ScannedMissing
    <3> QED
      BY <1>3, <1>6, <2>1, <2>6, <3>1, AtRest
  <2>7. ASSUME NEW p \in Paths, step'[p] # "done" PROVE AtPath(p)'
    <3>1. ~scan[p].hidden /\ ~Hides(walk'[p]) /\ step'[p] = FirstStep(plan[p]) /\ AtPath(p) /\ got'[p] = None
      BY <1>3, <1>7, <2>3, <2>7
    <3>2. ~Hides(walk'[p]) /\ plan[p] \in PlanFile(scan[p], walk'[p], base[p])
      BY <2>2, <3>1
    <3>3. walk'[p].rev # None => drive[p] # None /\ walk'[p].node = drive[p] /\ walk'[p].rev = tip[drive[p]]
      BY <1>4
    <3>4. walk'[p].rev = None /\ base[p] # NoRow => drive[p] = None
      <4> SUFFICES ASSUME walk'[p].rev = None, base[p] # NoRow, drive[p] # None PROVE FALSE
        OBVIOUS
      <4>1. empty /\ gaps = {}
        BY <1>2, <1>4, <3>1, Bounds, Contents DEF Hides
      <4>2. {q \in Paths : walk'[q].rev = None} = Paths
        BY <1>4, <4>1
      <4>3. Guarded({q \in Paths : ~scan[q].hidden}, Paths, Others)
        BY <3>1, WipeStops
      <4> QED
        BY <1>10, <4>1, <4>2, <4>3
    <3>5. Sensible(step'[p], scan[p], walk'[p], base[p])
      <4>1. Sensible(FirstStep(plan[p]), scan[p], walk'[p], base[p])
        BY <3>2, Planned
      <4> QED
        BY <3>1, <4>1
    <3>6. Numbered(p)' /\ Resting(p)' /\ ScannedMissing(p)'
      BY <1>6, <2>1 DEF Resting, ScannedMissing
    <3>7. Stamped(p)'
      BY <1>3, <3>1, <3>5 DEF AtPath, Stamped, RemoteChanged, Sensible
    <3>8. Same(p)'
      BY <1>3, <3>1 DEF AtPath, Same, InStep, LocalChanged, RemoteChanged
    <3>9. Missing(p)'
      BY <1>3, <1>6, <3>1 DEF AtPath, Missing, Behind, RemoteChanged
    <3>10. Harmless(p)'
      <4>1. step'[p] \in {"fetch", "condemn"} => Safe(scan[p].content)
        BY <3>1, <3>5, SafeNone DEF AtPath, Harmless, Sensible
      <4>2. base[p] # NoRow => Safe(base[p].local)
        BY <3>1 DEF AtPath, Harmless
      <4> QED
        BY <1>3, <3>1, <3>5, <4>1, <4>2, SafeNone DEF Harmless, Safe, Replaced, Taking, Sensible
    <3>11. Download(p)'
      BY <1>3, <3>1, <3>3, <3>5 DEF Download, Behind, RemoteChanged, Taking, Sensible
    <3>12. Upload(p)'
      BY <3>5 DEF Upload, Sensible
    <3>13. Deletion(p)'
      <4>1. ScannedMissing(p) /\ phase = "scanned" /\ ~scan[p].hidden
        BY <1>1, <3>1 DEF AtPath
      <4>2. step'[p] = "trash" => p \in removed /\ file[p] # base[p].local
        BY <3>3, <3>5, <4>1 DEF ScannedMissing, Behind, Sensible
      <4>3. step'[p] = "condemn" => drive[p] = None /\ p \in trashed
        BY <3>4, <3>5, <4>1 DEF ScannedMissing, Sensible
      <4>4. step'[p] \in {"note", "open"} => file[p] # None \/ p \in removed
        BY <3>5, <4>1 DEF ScannedMissing, Sensible
      <4> QED
        BY <1>3, <1>6, <3>5, <4>2, <4>3, <4>4 DEF Deletion, Behind, Sensible
    <3> QED
      BY <3>6, <3>7, <3>8, <3>9, <3>10, <3>11, <3>12, <3>13 DEF AtPath
  <2> QED
    BY <1>8, <2>5, <2>6, <2>7 DEF Inv
<1> QED
  BY <1>9, <1>10

-----------------------------------------------------------------------------
LEMMA ApplyKeeps ==
  ASSUME Inv, NEW p \in Paths, Apply(p)
  PROVE  Inv'
BY NoteKeeps, ForgetKeeps, AdoptKeeps, CopyAsideKeeps, DropKeeps, FetchKeeps, DecideKeeps, PlaceKeeps,
   RecordPlacedKeeps, RemoveKeeps, TrashKeeps, OpenKeeps, SendKeeps, ReadBackKeeps
   DEF Apply

LEMMA NextKeeps ==
  ASSUME NoWindow, Inv, [Next]_vars
  PROVE  Inv'
<1>1. CASE Pass
  BY <1>1, ScanKeeps, WalkKeeps, EndKeeps, ApplyKeeps DEF Pass
<1>2. ASSUME NEW p \in Paths, User(p) PROVE Inv'
  BY <1>2, WriteKeeps, OpenForWriteKeeps DEF User
<1>3. ASSUME NEW p \in Paths, ForeignWrite(p) \/ ForeignTrash(p) PROVE Inv'
  BY <1>3, ForeignWriteKeeps, ForeignTrashKeeps
<1>4. CASE Crash
  BY <1>4, EndKeeps
<1>5. CASE UNCHANGED vars
  <2>1. UNCHANGED <<file, busy, copies, base, drive, tip, seal, nrev, phase, scan, walk, step, got, sent,
                    owed, removed, trashed, nver, foreigns, faults>>
    BY <1>5 DEF vars, localVars, driveVars, passVars, histVars, budgetVars
  <2>2. TypeOK' /\ Sealed' /\ NoEditLost'
    BY <2>1 DEF Inv, TypeOK, Sealed, NoEditLost, Kept
  <2>3. ASSUME NEW p \in Paths PROVE AtPath(p)'
    <3>1. Quiet(p) /\ Still(p) /\ phase' = phase
      BY <2>1 DEF Quiet, Still
    <3> QED
      BY <2>2, <3>1, QuietGrowth, StillKeeps
  <2> QED
    BY <2>2, <2>3 DEF Inv
<1> QED
  BY <1>1, <1>2, <1>3, <1>4, <1>5 DEF Next

(* Inv of MirrorSyncInv holds throughout, whatever pass, user, other       *)
(* device and failures do, if no local write falls between a check and the *)
(* call that acts on it.                                                   *)
THEOREM Invariance ==
  ASSUME NoWindow
  PROVE  Spec => []Inv
<1>1. NoWindow
  OBVIOUS
<1>2. Inv /\ [Next]_vars => Inv'
  BY <1>1, NextKeeps
<1> QED
  BY <1>2, InitInv, PTL DEF Spec

(* No version the user saved, and did not replace or delete himself, is    *)
(* ever destroyed by a pass: keep_racing_local_edit, changed_since_scan    *)
(* and preserve_conflict_copy of sync.rs are enough.                       *)
THEOREM NoEditIsLost ==
  ASSUME NoWindow
  PROVE  Spec => []NoEditLost
<1>1. Inv => NoEditLost
  BY DEF Inv
<1> QED
  BY <1>1, Invariance, PTL

(* A path whose baseline row the planner would call unchanged on both      *)
(* sides holds what Drive holds: record_file_baseline and landed_as_sent   *)
(* never record a torn, overtaken or half-fetched content as synced.       *)
THEOREM SyncedIsSame ==
  ASSUME NoWindow
  PROVE  Spec => []SyncedMeansSame
<1>1. Inv => SyncedMeansSame
  BY DEF Inv, AtPath, Same, SyncedMeansSame
<1> QED
  BY <1>1, Invariance, PTL

(* A pass trashes a node only where the user deleted the file, and removes *)
(* a file only where the other device trashed the node: guard_local_wipe,  *)
(* guard_remote_wipe and the skipped listings let no failure pass for a    *)
(* deletion.                                                               *)
THEOREM DeletesAreReal ==
  ASSUME NoWindow
  PROVE  Spec => OnlyRealDeletes
<1>1. Inv => [\A p \in Paths :
                /\ TrashRemote(p) /\ drive'[p] # drive[p] => p \in removed
                /\ RemoveLocal(p) /\ file'[p] # file[p] => p \in trashed]_vars
  <2> SUFFICES ASSUME Inv, NEW p \in Paths
               PROVE  /\ TrashRemote(p) /\ drive'[p] # drive[p] => p \in removed
                      /\ RemoveLocal(p) /\ file'[p] # file[p] => p \in trashed
    OBVIOUS
  <2>1. Deletion(p)
    BY DEF Inv, AtPath
  <2> QED
    BY <2>1 DEF Deletion, TrashRemote, RemoveLocal
<1> QED
  BY <1>1, Invariance, PTL DEF OnlyRealDeletes
=============================================================================
