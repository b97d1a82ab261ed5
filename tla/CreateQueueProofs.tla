-------------------------- MODULE CreateQueueProofs --------------------------
(***************************************************************************)
(* Files made here, for any number of files, workers, names, writes,       *)
(* nodes, failures and restarts: the invariants of CreateQueueInv hold,    *)
(* and with them the safety properties of CreateQueue.                     *)
(***************************************************************************)
EXTENDS CreateQueueInv, SequenceTheorems, TLAPS

(* ------------ Shapes ------------ *)
LEMMA Constants ==
  /\ Transient \subseteq Names /\ HoldAttempts \in Nat
  /\ MaxBlob \in Nat /\ MaxNode \in Nat /\ MaxCall \in Nat
  /\ MaxForeign \in Nat /\ MaxFault \in Nat /\ MaxCrash \in Nat
  /\ NoOne \notin Workers /\ NoOne \notin Files /\ Other \notin Files /\ NoName \notin Names
  /\ Local = 0 /\ Empty = 0 /\ Theirs = MaxBlob + 1
BY CreateAssumption, CreateNames DEF Local, Empty, Theirs

(* A conflict name is a name, and not the missing one. *)
LEMMA NameFacts ==
  /\ Names \subseteq Name /\ NoName \notin Name
  /\ \A f \in Files : ConflictName(f) \in Name
<1>1. \A f \in Files : ConflictName(f) \in Name BY DEF Name
<1>2. \A f \in Files : ConflictName(f) # NoName BY DEF ConflictName, NoName
<1> QED BY <1>1, <1>2, Constants DEF Name

LEMMA RowFields ==
  ASSUME NEW r \in Row
  PROVE  /\ r.kind \in {"none", "create", "revision", "trash"}
         /\ r.owner \in Workers \cup {NoOne} /\ r.parked \in BOOLEAN
         /\ r.tries \in 0 .. HoldAttempts /\ r.name \in Name \cup {NoName}
         /\ r.blob \in {Empty} \cup Blob /\ r.to \in SUBSET Name /\ r.sha \in SUBSET Blob
         /\ r.at \in Uid /\ r.first \in 0 .. MaxCrash
BY DEF Row

LEMMA Blanks == NoRow \in Row /\ NoJob \in Job
<1>1. 0 \in 0 .. HoldAttempts /\ 0 \in Uid /\ 0 \in 0 .. MaxCrash /\ 0 \in 0 .. MaxNode
  BY Constants, SMTT(20) DEF Uid
<1> QED BY <1>1, Constants DEF Row, NoRow, Job, NoJob

(* What the actions make of a row is a row. *)
LEMMA RowEdits ==
  ASSUME NEW r \in Row
  PROVE  /\ \A o \in Workers \cup {NoOne} : [r EXCEPT !.owner = o] \in Row
         /\ \A p \in BOOLEAN : [r EXCEPT !.parked = p] \in Row
         /\ \A n \in Name : [r EXCEPT !.name = n] \in Row
         /\ \A b \in Blob, t \in 0 .. HoldAttempts : [r EXCEPT !.blob = b, !.tries = t] \in Row
         /\ \A t \in 0 .. HoldAttempts, o \in Workers \cup {NoOne} :
              [r EXCEPT !.owner = o, !.tries = t] \in Row
         /\ \A t \in 0 .. HoldAttempts, p \in BOOLEAN :
              [r EXCEPT !.kind = "trash", !.tries = t, !.parked = p] \in Row
         /\ \A a \in Uid, n \in Name \cup {NoName} : [r EXCEPT !.at = a, !.name = n] \in Row
         /\ \A t \in SUBSET Name, c \in 0 .. MaxCrash, s \in SUBSET Blob :
              [r EXCEPT !.to = t, !.first = c, !.sha = s] \in Row
         /\ \A n \in Name, p \in BOOLEAN :
              [r EXCEPT !.kind = "create", !.name = n, !.parked = p] \in Row
         /\ \A o \in Workers \cup {NoOne}, b \in Blob, a \in Uid :
              [r EXCEPT !.kind = "revision", !.owner = o, !.blob = b, !.at = a] \in Row
         /\ \A o \in Workers \cup {NoOne}, n \in Name \cup {NoName}, a \in Uid :
              [r EXCEPT !.kind = "trash", !.owner = o, !.at = a, !.name = n] \in Row
BY ZenonT(30) DEF Row

LEMMA JobFields ==
  ASSUME NEW j \in Job
  PROVE  /\ j.file \in Files \cup {NoOne} /\ j.kind \in {"create", "revision", "trash", "rename"}
         /\ j.name \in Name \cup {NoName} /\ j.blob \in {Empty} \cup Blob
         /\ j.tries \in 0 .. HoldAttempts /\ j.stage \in {"first", "again", "alt"}
         /\ j.node \in Uid /\ j.sent \in Name \cup {NoName} /\ j.landed \in {Empty} \cup Blob
         /\ j.renaming \in BOOLEAN /\ j.seen \in Name \cup {NoName}
BY DEF Job

LEMMA NodeFields ==
  ASSUME NEW x \in Node
  PROVE  /\ x.name \in Name /\ x.body \in 0 .. MaxBlob + 1 /\ x.by \in Files \cup {Other}
         /\ x.trashed \in BOOLEAN /\ x.epoch \in 0 .. MaxCrash /\ x.inline \in BOOLEAN
BY DEF Node

LEMMA RenFields ==
  ASSUME NEW x \in Ren
  PROVE  /\ x.name \in Name /\ x.orig \in Name /\ x.owner \in Workers \cup {NoOne}
         /\ x.tries \in 0 .. HoldAttempts
BY DEF Ren

LEMMA Numbers ==
  /\ Uid \subseteq Int /\ Blob \subseteq Int /\ Empty \notin Blob
  /\ {Empty} \cup Blob = 0 .. MaxBlob /\ Theirs \notin {Empty} \cup Blob
  /\ Local \in Uid
BY Constants DEF Uid, Blob

(* ------------ The initial states ------------ *)
LEMMA InitInv == Init => Inv /\ ScratchInv /\ KeptInv
<1> SUFFICES ASSUME Init PROVE Inv /\ ScratchInv /\ KeptInv OBVIOUS
<1> USE Constants, Numbers
<1>1. TypeOK
  BY Blanks DEF Init, Uid, TypeOK, WorkerPc
<1>2. \A f \in Files : FileFits(f) BY DEF Init, FileFits, RowFits, RenFits, CallFits, Alive, NoRow
<1>3. \A w \in Workers : pc[w] = "idle" /\ job[w] = NoJob BY DEF Init
<1>4. OneCreator BY <1>3 DEF OneCreator, Early
<1>5. NotTheirs BY <1>3 DEF Init, NotTheirs, Ours, NoRow, NoJob
<1>6. Inv BY <1>1, <1>2, <1>3, <1>4, <1>5 DEF Inv
<1>7. ScratchInv BY <1>3 DEF Init, ScratchInv, Scratch, NoRow
<1>8. BlobsFit BY <1>3 DEF Init, BlobsFit, NoRow, NoJob
<1>9. \A f \in Files : ContentKept(f) /\ NameKept(f) BY DEF Init, ContentKept, NameKept, Alive
<1> QED BY <1>3, <1>6, <1>7, <1>8, <1>9 DEF KeptInv, BytesInv, NamesInv

(* ------------ Types, group by group ------------ *)

LEMMA TypeParts ==
  TypeOK <=> /\ DbType /\ TreeType /\ CallType /\ DrainType
             /\ SweepType /\ DriveType /\ ToldType /\ BoundType
BY DEF TypeOK, DbType, RenType, TreeType, CallType, DrainType, SweepType, DriveType, ToldType,
  BoundType

LEMMA TypePartsNext ==
  TypeOK' <=> /\ DbType' /\ TreeType' /\ CallType' /\ DrainType'
              /\ SweepType' /\ DriveType' /\ ToldType' /\ BoundType'
BY DEF TypeOK, DbType, RenType, TreeType, CallType, DrainType, SweepType, DriveType, ToldType,
  BoundType

(* A group that is left alone keeps its type. *)
LEMMA TypeFrames ==
  ASSUME TypeOK
  PROVE  /\ UNCHANGED dbVars => DbType'
         /\ UNCHANGED treeVars => TreeType'
         /\ UNCHANGED callVars => CallType'
         /\ UNCHANGED drainVars => DrainType'
         /\ UNCHANGED sweepVars => SweepType'
         /\ UNCHANGED driveVars => DriveType'
         /\ UNCHANGED toldVars => ToldType'
         /\ UNCHANGED boundVars => BoundType'
<1> USE TypeParts
<1>1. UNCHANGED dbVars => DbType' BY DEF dbVars, DbType, RenType
<1>2. UNCHANGED treeVars => TreeType' BY DEF treeVars, TreeType
<1>3. UNCHANGED callVars => CallType' BY DEF callVars, CallType
<1>4. UNCHANGED drainVars => DrainType' BY DEF drainVars, DrainType
<1>5. UNCHANGED sweepVars => SweepType' BY DEF sweepVars, SweepType
<1>6. UNCHANGED driveVars => DriveType' BY DEF driveVars, DriveType
<1>7. UNCHANGED toldVars => ToldType' BY DEF toldVars, ToldType
<1>8. UNCHANGED boundVars => BoundType' BY DEF boundVars, BoundType
<1> QED BY <1>1, <1>2, <1>3, <1>4, <1>5, <1>6, <1>7, <1>8

LEMMA OneTypes ==
  ASSUME TypeOK
  PROVE  /\ \A f \in Files : \A x \in Row : row' = [row EXCEPT ![f] = x] => OneRow(f, x)
         /\ \A f \in Files : \A s \in Seq(Ren) : ren' = [ren EXCEPT ![f] = s] => OneRen(f, s)
         /\ \A w \in Workers : \A j \in Job : job' = [job EXCEPT ![w] = j] => OneJob(w, j)
         /\ \A w \in Workers : \A p \in WorkerPc : Goto(w, p) => OnePc(w, p)
<1>1. DbType /\ DrainType BY TypeParts
<1> QED BY <1>1, Zenon DEF DbType, DrainType, OneRow, OneRen, OneJob, OnePc, Goto

LEMMA OneRowType ==
  ASSUME TypeOK, NEW f \in Files, NEW x, OneRow(f, x), UNCHANGED <<ren, uid, listed>>,
         staged' \subseteq Blob
  PROVE  DbType'
BY TypeParts DEF OneRow, DbType, RenType

LEMMA OneJobType ==
  ASSUME NEW w \in Workers, NEW j, NEW p, OneJob(w, j), OnePc(w, p)
  PROVE  DrainType'
BY DEF OneJob, OnePc, DrainType

LEMMA OnePcType ==
  ASSUME TypeOK, NEW w \in Workers, NEW p, OnePc(w, p), UNCHANGED job
  PROVE  DrainType'
BY TypeParts DEF OnePc, DrainType

(* What the user's calls and the faults use of their bounds. *)
LEMMA BoundSteps ==
  ASSUME TypeOK
  PROVE  /\ Call => BoundType'
         /\ \A k : Fault(k) => BoundType'
BY Constants, TypeParts DEF Call, Fault, BoundType

LEMMA CrossedType ==
  ASSUME TypeOK, UNCHANGED <<nblob, ncall, nforeign, nfault, ncrash>>,
         crossed' \subseteq crossed \cup {"rename", "trash"}
  PROVE  BoundType'
<1>1. BoundType BY TypeParts
<1>2. crossed' \subseteq {"rename", "trash"} BY <1>1 DEF BoundType
<1> QED BY <1>1, <1>2 DEF BoundType

(* A node is made. *)
LEMMA MadeSeq ==
  ASSUME TypeOK, nnode < MaxNode, NEW n \in Name, NEW b \in 0 .. MaxBlob + 1,
         NEW who \in Files \cup {Other}
  PROVE  /\ nnode \in Nat /\ nnode + 1 \in Uid
         /\ Made(n, b, who) \in [1 .. nnode + 1 -> Node]
         /\ \A r \in 1 .. nnode : Made(n, b, who)[r] = node[r]
         /\ Made(n, b, who)[nnode + 1] = [name |-> n, body |-> b, by |-> who, trashed |-> FALSE,
                                          epoch |-> ncrash, inline |-> FALSE]
<1> DEFINE x == [name |-> n, body |-> b, by |-> who, trashed |-> FALSE, epoch |-> ncrash,
                 inline |-> FALSE]
<1>1. /\ nnode \in Nat /\ nnode + 1 \in Uid /\ ncrash \in 0 .. MaxCrash
      /\ node \in [1 .. nnode -> Node]
  BY Constants DEF TypeOK, Uid
<1>2. x \in Node BY <1>1 DEF Node
<1> HIDE DEF x
<1>3. node \in Seq(Node) /\ Len(node) = nnode /\ DOMAIN node = 1 .. nnode BY <1>1, IsASeq
<1>4. /\ Append(node, x) \in Seq(Node) /\ Len(Append(node, x)) = nnode + 1
      /\ \A r \in 1 .. nnode : Append(node, x)[r] = node[r]
      /\ Append(node, x)[nnode + 1] = x
  BY <1>1, <1>2, <1>3
<1>5. Append(node, x) \in [1 .. nnode + 1 -> Node] BY <1>4, LenProperties
<1>6. Made(n, b, who) = Append(node, x) BY DEF Made, x
<1> QED BY <1>1, <1>4, <1>5, <1>6 DEF x

LEMMA MadeType ==
  ASSUME TypeOK, nnode < MaxNode, NEW n \in Name, NEW b \in 0 .. MaxBlob + 1,
         NEW who \in Files \cup {Other}, nnode' = nnode + 1,
         \/ node' = Made(n, b, who)
         \/ node' = [Made(n, b, who) EXCEPT ![nnode + 1].inline = TRUE]
  PROVE  /\ DriveType' /\ nnode \in Nat /\ nnode' = nnode + 1
         /\ \A r \in 1 .. nnode : node'[r] = node[r]
         /\ node'[nnode + 1].name = n /\ node'[nnode + 1].body = b /\ node'[nnode + 1].by = who
         /\ node'[nnode + 1].trashed = FALSE /\ node'[nnode + 1].epoch = ncrash
<1> DEFINE m == Made(n, b, who)
           x == [name |-> n, body |-> b, by |-> who, trashed |-> FALSE, epoch |-> ncrash,
                 inline |-> FALSE]
<1>1. /\ nnode \in Nat /\ nnode + 1 \in Uid /\ m \in [1 .. nnode + 1 -> Node]
      /\ \A r \in 1 .. nnode : m[r] = node[r]
      /\ m[nnode + 1] = x
  BY MadeSeq
<1>2. nnode + 1 \in 1 .. nnode + 1 /\ x \in Node BY <1>1
<1>3. CASE node' = m
  <2>1. DriveType' BY <1>1, <1>3 DEF DriveType
  <2> QED BY <1>1, <1>3, <2>1
<1>4. CASE node' = [m EXCEPT ![nnode + 1].inline = TRUE]
  <2> HIDE DEF m, x
  <2>1. /\ node' \in [1 .. nnode + 1 -> Node \cup {[x EXCEPT !.inline = TRUE]}]
        /\ node'[nnode + 1] = [x EXCEPT !.inline = TRUE]
        /\ \A r \in 1 .. nnode : node'[r] = m[r]
    BY <1>1, <1>2, <1>4
  <2>2. [x EXCEPT !.inline = TRUE] \in Node BY <1>2 DEF Node, x
  <2>3. DriveType' BY <1>1, <2>1, <2>2 DEF DriveType
  <2>4. /\ [x EXCEPT !.inline = TRUE].name = n /\ [x EXCEPT !.inline = TRUE].body = b
        /\ [x EXCEPT !.inline = TRUE].by = who /\ [x EXCEPT !.inline = TRUE].trashed = FALSE
        /\ [x EXCEPT !.inline = TRUE].epoch = ncrash
    BY DEF x
  <2> QED BY <1>1, <2>1, <2>3, <2>4
<1> QED BY <1>3, <1>4 DEF m

(* ------------ What the user's calls do to a row and to the renames ------------ *)
(* A new create.                                                           *)
LEMMA QueueEffect ==
  ASSUME TypeOK, NEW f \in Files, NEW n \in Names, QueueLocalNode(f, n)
  PROVE  /\ OneRow(f, [NoRow EXCEPT !.kind = "create", !.name = n, !.parked = n \in Transient])
         /\ row'[f].kind = "create" /\ row'[f].name = n /\ row'[f].owner = NoOne
         /\ row'[f].blob = Empty /\ row'[f].at = Local /\ row'[f].to = {}
         /\ row'[f].parked = (n \in Transient)
<1> DEFINE x == [NoRow EXCEPT !.kind = "create", !.name = n, !.parked = n \in Transient]
<1>1. NoRow \in Row /\ n \in Name /\ (n \in Transient) \in BOOLEAN BY Blanks, NameFacts, SMTT(20)
<1>2. x \in Row BY <1>1, RowEdits
<1>3. OneRow(f, x) BY <1>2, OneTypes DEF QueueLocalNode
<1> QED BY <1>3 DEF OneRow, NoRow

(* The bytes of a handle that is closed. *)
LEMMA WrittenEffect ==
  ASSUME TypeOK, NEW f \in Files, NEW b \in Blob, row' = [row EXCEPT ![f] = Written(f, b)]
  PROVE  /\ OneRow(f, Written(f, b))
         /\ row'[f].blob = b /\ row'[f].tries = 0
         /\ row[f].kind = "create" =>
              /\ row'[f].kind = "create" /\ row'[f].owner = row[f].owner
              /\ row'[f].name = row[f].name /\ row'[f].at = row[f].at
              /\ row'[f].parked = row[f].parked /\ row'[f].to = row[f].to
         /\ row[f].kind # "create" =>
              /\ row'[f].kind = "revision" /\ row'[f].owner = NoOne /\ row'[f].at = uid[f]
              /\ row'[f].to = {}
<1>1. row[f] \in Row /\ NoRow \in Row /\ uid[f] \in Uid /\ 0 \in 0 .. HoldAttempts
  BY Blanks, Constants DEF TypeOK
<1>2. CASE row[f].kind = "create"
  <2>1. Written(f, b) = [row[f] EXCEPT !.blob = b, !.tries = 0] BY <1>2 DEF Written, Attached
  <2>2. Written(f, b) \in Row
    <3>1. \A r \in Row, t \in 0 .. HoldAttempts : [r EXCEPT !.blob = b, !.tries = t] \in Row
      BY RowEdits
    <3> QED BY <1>1, <2>1, <3>1, Zenon
  <2>3. OneRow(f, Written(f, b)) BY <2>2, OneTypes
  <2>4. row'[f] = [row[f] EXCEPT !.blob = b, !.tries = 0] BY <2>1, <2>3 DEF OneRow
  <2>5. /\ row'[f].blob = b /\ row'[f].tries = 0 /\ row'[f].kind = row[f].kind
        /\ row'[f].owner = row[f].owner /\ row'[f].name = row[f].name /\ row'[f].at = row[f].at
        /\ row'[f].parked = row[f].parked /\ row'[f].to = row[f].to
    <3>1. \A r \in Row : LET x == [r EXCEPT !.blob = b, !.tries = 0] IN
            /\ x.blob = b /\ x.tries = 0 /\ x.kind = r.kind /\ x.owner = r.owner
            /\ x.name = r.name /\ x.at = r.at /\ x.parked = r.parked /\ x.to = r.to
      BY DEF Row
    <3> QED BY <1>1, <2>4, <3>1, ZenonT(30)
  <2> QED BY <1>2, <2>3, <2>5
<1>3. CASE row[f].kind # "create"
  <2>1. Written(f, b) = [NoRow EXCEPT !.kind = "revision", !.blob = b, !.at = uid[f]]
    BY <1>3 DEF Written
  <2>2. Written(f, b) \in Row BY <1>1, <2>1, Numbers, ZenonT(30) DEF Row, NoRow
  <2>3. OneRow(f, Written(f, b)) BY <2>2, OneTypes
  <2> QED BY <1>3, <2>1, <2>3 DEF OneRow, NoRow
<1> QED BY <1>2, <1>3

(* The renames after one more. *)
LEMMA RenamedType ==
  ASSUME TypeOK, NEW f \in Files, NEW n \in Names, place[f] # NoName
  PROVE  /\ RenType(Renamed(f, n)) /\ Renamed(f, n) # <<>>
         /\ Renamed(f, n)[Len(Renamed(f, n))].name = n
         /\ \A i \in 1 .. Len(Renamed(f, n)) :
              \/ Renamed(f, n)[i].name = n
              \/ i = 1 /\ Len(ren[f]) >= 1 /\ Renamed(f, n)[i] = ren[f][1]
         /\ ren[f] # <<>> /\ ren[f][1].owner # NoOne => Renamed(f, n)[1] = ren[f][1]
<1> DEFINE orig == IF ren[f] = <<>> THEN place[f] ELSE ren[f][1].orig
           new  == [name |-> n, orig |-> orig, owner |-> NoOne, tries |-> 0]
<1>1. /\ ren[f] \in Seq(Ren) /\ n \in Name /\ place[f] \in Name
      /\ 0 \in 0 .. HoldAttempts
  BY NameFacts, Constants DEF TypeOK
<1>2. ren[f] # <<>> => ren[f][1] \in Ren /\ Len(ren[f]) >= 1 BY <1>1
<1>3. orig \in Name BY <1>1, <1>2, RenFields
<1> HIDE DEF orig
<1>4. new \in Ren BY <1>1, <1>3 DEF Ren
<1>5. new.owner = NoOne /\ new.name = n OBVIOUS
<1> HIDE DEF new
<1>6. CASE ren[f] = <<>> \/ ren[f][1].owner = NoOne
  BY <1>6, <1>4, <1>5 DEF Renamed, new, orig, RenType
<1>7. CASE ren[f] # <<>> /\ ren[f][1].owner # NoOne
  <2>1. Renamed(f, n) = <<ren[f][1], new>> BY <1>7 DEF Renamed, new, orig
  <2> DEFINE s == <<ren[f][1], new>>
  <2>2. /\ s \in Seq(Ren) /\ Len(s) = 2 /\ s[1] = ren[f][1] /\ s[2] = new /\ s # <<>>
    BY <1>2, <1>4, <1>7
  <2> QED BY <1>2, <1>5, <1>7, <2>1, <2>2 DEF RenType
<1> QED BY <1>6, <1>7

LEMMA RetargetEffect ==
  ASSUME TypeOK, NEW f \in Files, NEW n \in Names, place[f] # NoName, Retarget(f, n)
  PROVE  /\ row[f].kind = "create" =>
              /\ OneRow(f, [row[f] EXCEPT !.name = n]) /\ ren' = ren
              /\ row'[f].kind = "create" /\ row'[f].owner = row[f].owner
              /\ row'[f].name = n /\ row'[f].at = row[f].at /\ row'[f].blob = row[f].blob
              /\ row'[f].parked = row[f].parked /\ row'[f].to = row[f].to
         /\ row[f].kind # "create" => row' = row /\ OneRen(f, Renamed(f, n))
<1>1. row[f] \in Row /\ n \in Name BY NameFacts DEF TypeOK
<1>2. CASE row[f].kind = "create"
  <2>1. row' = [row EXCEPT ![f].name = n] /\ ren' = ren BY <1>2 DEF Retarget
  <2>2. row' = [row EXCEPT ![f] = [row[f] EXCEPT !.name = n]] BY <2>1
  <2>3. [row[f] EXCEPT !.name = n] \in Row BY <1>1, RowEdits
  <2>4. OneRow(f, [row[f] EXCEPT !.name = n]) BY <2>2, <2>3, OneTypes
  <2>5. row'[f] = [row[f] EXCEPT !.name = n] BY <2>4 DEF OneRow
  <2>6. /\ row'[f].kind = row[f].kind /\ row'[f].owner = row[f].owner
        /\ row'[f].name = n /\ row'[f].at = row[f].at /\ row'[f].blob = row[f].blob
        /\ row'[f].parked = row[f].parked /\ row'[f].to = row[f].to
    BY <1>1, <2>5 DEF Row
  <2> QED BY <1>2, <2>1, <2>4, <2>6
<1>3. CASE row[f].kind # "create"
  BY <1>3, RenamedType, OneTypes DEF Retarget, RenType
<1> QED BY <1>2, <1>3

(* The ops of a file are dropped. *)
LEMMA DropEffect ==
  ASSUME TypeOK, NEW f \in Files, DropOps(f)
  PROVE  /\ OneRow(f, Doomed(f)) /\ OneRen(f, <<>>)
         /\ staged' \subseteq staged /\ staged \ {row[f].blob} \subseteq staged'
         /\ \/ row'[f] = NoRow
            \/ /\ row[f].kind = "create" /\ row'[f].kind = "trash"
               /\ row'[f].owner = row[f].owner /\ row'[f].at = row[f].at
               /\ row'[f].to = row[f].to /\ row'[f].blob = row[f].blob
<1>1. row[f] \in Row /\ NoRow \in Row /\ 0 \in 0 .. HoldAttempts /\ <<>> \in Seq(Ren)
  BY Blanks, Constants DEF TypeOK
<1>2. row' = [row EXCEPT ![f] = Doomed(f)] /\ ren' = [ren EXCEPT ![f] = <<>>] BY DEF DropOps
<1>3. OneRen(f, <<>>) BY <1>1, <1>2, OneTypes
<1>4. staged' \subseteq staged /\ staged \ {row[f].blob} \subseteq staged' BY DEF DropOps
<1>5. CASE Doomed(f) = NoRow
  <2>1. OneRow(f, Doomed(f)) BY <1>1, <1>2, <1>5, OneTypes
  <2> QED BY <1>3, <1>4, <1>5, <2>1 DEF OneRow
<1>6. CASE Doomed(f) # NoRow
  <2> DEFINE x == [row[f] EXCEPT !.kind = "trash", !.tries = 0, !.parked = FALSE]
  <2>1. row[f].kind = "create" /\ Doomed(f) = x BY <1>6 DEF Doomed
  <2>2. x \in Row BY <1>1, RowEdits
  <2>3. OneRow(f, Doomed(f)) BY <1>2, <2>1, <2>2, OneTypes
  <2>4. row'[f] = x BY <2>1, <2>3 DEF OneRow
  <2>5. /\ row'[f].kind = "trash" /\ row'[f].owner = row[f].owner /\ row'[f].at = row[f].at
        /\ row'[f].to = row[f].to /\ row'[f].blob = row[f].blob
    BY <1>1, <2>4 DEF Row
  <2> QED BY <1>3, <1>4, <2>1, <2>3, <2>5
<1> QED BY <1>5, <1>6

(* The trash of a landed node. *)
LEMMA TrashEffect ==
  ASSUME TypeOK, NEW f \in Files, QueueTrash(f)
  PROVE  /\ OneRow(f, row'[f]) /\ OneRen(f, <<>>)
         /\ row'[f].kind = "trash" /\ row'[f].owner = NoOne /\ row'[f].at = uid[f]
         /\ row'[f].blob = Empty /\ row'[f].to = {}
         /\ staged' = staged \ {row[f].blob} /\ hidden' = hidden \cup {uid[f]}
<1> DEFINE x == [NoRow EXCEPT !.kind = "trash", !.name = place[f], !.at = uid[f]]
<1>1. NoRow \in Row /\ place[f] \in Name \cup {NoName} /\ uid[f] \in Uid /\ <<>> \in Seq(Ren)
  BY Blanks DEF TypeOK
<1>2. x \in Row BY <1>1 DEF Row, NoRow
<1>3. OneRow(f, x) /\ OneRen(f, <<>>) BY <1>1, <1>2, OneTypes DEF QueueTrash
<1> QED BY <1>3 DEF OneRow, NoRow, QueueTrash

(* ------------ Types: the user, the sweep, another device ------------ *)
LEMMA QueueType ==
  ASSUME TypeOK, NEW f \in Files, NEW n \in Names, QueueLocalNode(f, n)
  PROVE  DbType' /\ TreeType' /\ CallType' /\ DrainType' /\ SweepType' /\ ToldType'
<1>1. OneRow(f, [NoRow EXCEPT !.kind = "create", !.name = n, !.parked = n \in Transient])
  BY QueueEffect
<1>2. DbType'
  <2>1. UNCHANGED <<ren, uid, listed, staged>> BY DEF QueueLocalNode
  <2> QED BY <1>1, <2>1, OneRowType, TypeParts DEF DbType
<1>3. CallType' /\ ToldType'
  <2>1. n \in Name BY NameFacts
  <2> QED BY <2>1, TypeParts DEF QueueLocalNode, CallType, ToldType
<1>4. TreeType' /\ DrainType' /\ SweepType' BY TypeFrames DEF QueueLocalNode
<1> QED BY <1>2, <1>3, <1>4

LEMMA MintType ==
  ASSUME TypeOK, NEW f \in Files, NEW n \in Names, Mint(f, n) \/ MintUnanswered(f, n)
  PROVE  TypeOK'
<1>1. QueueLocalNode(f, n) BY DEF Mint, MintUnanswered
<1>2. BoundType' BY BoundSteps DEF Mint, MintUnanswered
<1>3. DriveType'
  <2>1. CASE Mint(f, n) BY <2>1, TypeFrames DEF Mint
  <2>2. CASE MintUnanswered(f, n)
    <3>1. n \in Name /\ Empty \in 0 .. MaxBlob + 1 BY NameFacts, Constants
    <3> QED BY <2>2, <3>1, MadeType DEF MintUnanswered
  <2> QED BY <2>1, <2>2
<1> QED BY <1>1, <1>2, <1>3, QueueType, TypePartsNext

LEMMA OpenType ==
  ASSUME TypeOK, NEW f \in Files, Intern(f) \/ Open(f) \/ Close(f) \/ Walk(f)
  PROVE  TypeOK'
<1> USE TypeParts
<1>1. DbType'
  <2>1. UNCHANGED <<row, ren, uid, staged>> /\ listed' \subseteq listed \cup {f}
    BY DEF Intern, Open, Close, Walk, dbVars
  <2> QED BY <2>1 DEF DbType, RenType
<1>2. TreeType' BY DEF Intern, Open, Close, Walk, TreeType, ToldType, DbType
<1>3. CallType' BY TypeFrames DEF Intern, Open, Close, Walk, CallType, callVars
<1>4. BoundType' BY TypeFrames, BoundSteps DEF Intern, Open, Close, Walk
<1>5. DrainType' /\ SweepType' /\ DriveType' /\ ToldType'
  BY TypeFrames DEF Intern, Open, Close, Walk
<1> QED BY <1>1, <1>2, <1>3, <1>4, <1>5, TypePartsNext

LEMMA ReleaseType ==
  ASSUME TypeOK, NEW f \in Files, Release(f)
  PROVE  TypeOK'
<1> DEFINE b == nblob + 1
<1>1. b \in Blob /\ b \in 0 .. MaxBlob BY Constants, TypeParts DEF Release, BoundType, Blob
<1>2. /\ row' = [row EXCEPT ![f] = Written(f, b)] /\ nblob' = b
      /\ staged' = (staged \cup {b}) \ {row[f].blob}
      /\ content' = [content EXCEPT ![f] = b] /\ open' = open \ {f}
  BY DEF Release
<1> HIDE DEF b
<1>3. OneRow(f, Written(f, b)) BY <1>1, <1>2, WrittenEffect
<1>4. DbType'
  <2>1. UNCHANGED <<ren, uid, listed>> /\ staged' \subseteq Blob
    BY <1>1, <1>2, TypeParts DEF Release, DbType
  <2> QED BY <1>3, <2>1, OneRowType
<1>5. TreeType' /\ ToldType' /\ BoundType'
  BY <1>1, <1>2, TypeParts DEF Release, TreeType, ToldType, BoundType
<1>6. CallType' /\ DrainType' /\ SweepType' /\ DriveType' BY TypeFrames DEF Release
<1> QED BY <1>4, <1>5, <1>6, TypePartsNext

LEMMA RetargetType ==
  ASSUME TypeOK, NEW f \in Files, NEW n \in Names, place[f] # NoName, Retarget(f, n),
         UNCHANGED <<uid, listed, staged>>
  PROVE  DbType'
<1>1. CASE row[f].kind = "create" BY <1>1, RetargetEffect, OneRowType, TypeParts DEF DbType
<1>2. CASE row[f].kind # "create"
  <2>1. row' = row /\ OneRen(f, Renamed(f, n)) /\ RenType(Renamed(f, n))
    BY <1>2, RetargetEffect, RenamedType
  <2>2. \A g \in Files : RenType(ren'[g]) BY <2>1, TypeParts DEF OneRen, DbType
  <2>3. \A g \in Files : RenType(ren[g])' BY <2>2 DEF RenType
  <2> QED BY <2>1, <2>3, TypeParts DEF DbType, OneRen
<1> QED BY <1>1, <1>2

LEMMA RenameType ==
  ASSUME TypeOK, NEW f \in Files,
         RenameEnd(f) \/ \E n \in Names : RenameStart(f, n)
  PROVE  TypeOK'
<1>1. ASSUME NEW n \in Names, RenameStart(f, n) PROVE TypeOK'
  BY <1>1, RetargetType, NameFacts, TypeParts, BoundSteps, TypeFrames, TypePartsNext DEF
    RenameStart, CallType, ToldType
<1>2. ASSUME RenameEnd(f) PROVE TypeOK'
  <2> DEFINE p == row[f].parked /\ ~(place[f] \in Transient /\ target[f] \notin Transient)
             x == [row[f] EXCEPT !.parked = p]
  <2>1. row[f] \in Row /\ p \in BOOLEAN BY RowFields DEF TypeOK
  <2>2. x \in Row BY <2>1, RowEdits
  <2>3. row' = [row EXCEPT ![f] = x] BY <1>2 DEF RenameEnd
  <2> HIDE DEF x
  <2>4. OneRow(f, x) BY <2>2, <2>3, OneTypes
  <2>5. DbType'
    <3>1. UNCHANGED <<ren, uid, listed, staged>> BY <1>2 DEF RenameEnd
    <3> QED BY <2>4, <3>1, OneRowType, TypeParts DEF DbType
  <2>6. TreeType' /\ CallType' BY <1>2, TypeParts DEF RenameEnd, TreeType, CallType
  <2>7. DrainType' /\ SweepType' /\ DriveType' /\ ToldType' /\ BoundType'
    BY <1>2, TypeFrames DEF RenameEnd
  <2> QED BY <2>5, <2>6, <2>7, TypePartsNext
<1> QED BY <1>1, <1>2

(* Dropped ops and a queued trash leave the database well formed. *)
LEMMA DropType ==
  ASSUME TypeOK, NEW f \in Files, DropOps(f) \/ QueueTrash(f), uid' = uid, listed' \subseteq Files
  PROVE  DbType'
<1>1. OneRow(f, row'[f]) /\ OneRen(f, <<>>) /\ staged' \subseteq staged
  BY DropEffect, TrashEffect DEF OneRow
<1>2. \A g \in Files : ren'[g] = <<>> \/ ren'[g] = ren[g] BY <1>1 DEF OneRen
<1>3. RenType(<<>>) BY DEF RenType
<1>4. \A g \in Files : RenType(ren'[g]) BY <1>2, <1>3, TypeParts DEF DbType
<1>5. \A g \in Files : RenType(ren[g])' BY <1>4 DEF RenType
<1> QED BY <1>1, <1>5, TypeParts DEF DbType, OneRow, OneRen

LEMMA DeleteType ==
  ASSUME TypeOK, NEW f \in Files, DeleteLocal(f) \/ DeleteLanded(f) \/ DeleteReal(f)
  PROVE  TypeOK'
<1>1. DbType'
  BY TypeParts, DropType DEF DeleteLocal, DeleteLanded, DeleteReal, DbType, RenType
<1>2. TreeType'
  <2>1. hidden' \subseteq Uid
    BY TypeParts DEF DeleteLocal, DeleteLanded, DeleteReal, treeVars, QueueTrash, TreeType, DbType
  <2>2. \/ UNCHANGED <<place, treeUid, unadopted, open>>
        \/ Forgotten(f)
    BY DEF DeleteLocal, DeleteLanded, DeleteReal, treeVars
  <2> QED BY <2>1, <2>2, TypeParts, Numbers DEF TreeType, Forgotten
<1>3. CallType' BY TypeParts DEF DeleteLocal, DeleteLanded, DeleteReal, CallType, Forgotten
<1>4. ToldType' BY TypeParts, TypeFrames DEF DeleteLocal, DeleteLanded, DeleteReal, ToldType
<1>5. BoundType' BY TypeFrames, BoundSteps DEF DeleteLocal, DeleteLanded, DeleteReal
<1>6. DrainType' /\ SweepType' /\ DriveType'
  BY TypeFrames DEF DeleteLocal, DeleteLanded, DeleteReal
<1> QED BY <1>1, <1>2, <1>3, <1>4, <1>5, <1>6, TypePartsNext

LEMMA SweepStepType ==
  ASSUME TypeOK, NEW f \in Files, Grow(f) \/ SweepJudge(f) \/ SweepAct(f)
  PROVE  TypeOK'
<1>1. SweepType'
  <2>1. ParkVerdict(f) \in {"none", "drop", "release"} BY DEF ParkVerdict
  <2> QED BY <2>1, TypeParts DEF Grow, SweepJudge, SweepAct, SweepType
<1>2. DbType'
  <2>1. CASE UNCHANGED dbVars BY <2>1, TypeFrames
  <2>2. ASSUME DropOps(f), UNCHANGED <<uid, listed>> PROVE DbType'
    BY <2>2, DropType, TypeParts DEF DbType
  <2>3. ASSUME row' = [row EXCEPT ![f].parked = FALSE], UNCHANGED <<ren, staged, uid, listed>>
        PROVE  DbType'
    BY RowEdits, <2>3, OneTypes, OneRowType, TypeParts DEF TypeOK, DbType
  <2> QED BY <2>1, <2>2, <2>3 DEF Grow, SweepJudge, SweepAct
<1>3. TreeType' /\ CallType' /\ DrainType' /\ DriveType' /\ ToldType' /\ BoundType'
  BY TypeFrames DEF Grow, SweepJudge, SweepAct
<1> QED BY <1>1, <1>2, <1>3, TypePartsNext

LEMMA ForeignType ==
  ASSUME TypeOK, NEW n \in Names, ForeignCreate(n)
  PROVE  TypeOK'
<1>1. n \in Name /\ Theirs \in 0 .. MaxBlob + 1 BY NameFacts, Constants
<1>2. DriveType' BY <1>1, MadeType DEF ForeignCreate
<1>3. BoundType' BY TypeParts, Constants DEF ForeignCreate, BoundType
<1>4. DbType' /\ TreeType' /\ CallType' /\ DrainType' /\ SweepType' /\ ToldType'
  BY TypeFrames DEF ForeignCreate
<1> QED BY <1>2, <1>3, <1>4, TypePartsNext

(* ------------ What the steps of the drain do to a job and to a row ------------ *)
LEMMA JobEdits ==
  ASSUME NEW j \in Job
  PROVE  /\ \A s \in {"first", "again", "alt"} : [j EXCEPT !.stage = s] \in Job
         /\ \A r \in Uid : [j EXCEPT !.node = r] \in Job
         /\ \A b \in BOOLEAN : [j EXCEPT !.renaming = b] \in Job
         /\ \A n \in Name : [j EXCEPT !.seen = n] \in Job
         /\ \A r \in Uid, n \in Name, b \in {Empty} \cup Blob :
              /\ [j EXCEPT !.seen = n, !.landed = b, !.node = r] \in Job
              /\ [j EXCEPT !.node = r, !.seen = n, !.landed = b, !.sent = n] \in Job
<1>1. \A r \in Uid, n \in Name, b \in {Empty} \cup Blob :
        [j EXCEPT !.seen = n, !.landed = b, !.node = r] \in Job
  BY DEF Job
<1>2. \A r \in Uid, n \in Name, b \in {Empty} \cup Blob :
        [j EXCEPT !.node = r, !.seen = n, !.landed = b, !.sent = n] \in Job
  BY DEF Job
<1>3. /\ \A s \in {"first", "again", "alt"} : [j EXCEPT !.stage = s] \in Job
      /\ \A r \in Uid : [j EXCEPT !.node = r] \in Job
      /\ \A b \in BOOLEAN : [j EXCEPT !.renaming = b] \in Job
      /\ \A n \in Name : [j EXCEPT !.seen = n] \in Job
  BY DEF Job
<1> QED BY <1>1, <1>2, <1>3

(* A claim. *)
LEMMA ClaimRowEffect ==
  ASSUME TypeOK, NEW w \in Workers, NEW f \in Files, ClaimRow(w, f)
  PROVE  /\ OneRow(f, row'[f]) /\ OneJob(w, job'[w])
         /\ row'[f].owner = w /\ row'[f].kind = row[f].kind /\ row'[f].blob = row[f].blob
         /\ row'[f].at = row[f].at /\ row'[f].name = row[f].name /\ row'[f].to = row[f].to
         /\ row'[f].parked = row[f].parked
         /\ job'[w].file = f /\ job'[w].kind = row[f].kind /\ job'[w].name = row[f].name
         /\ job'[w].blob = row[f].blob /\ job'[w].node = row[f].at /\ job'[w].sent = row[f].name
         /\ job'[w].landed = Empty
<1> DEFINE x == [row[f] EXCEPT !.owner = w]
           j == [NoJob EXCEPT !.file = f, !.kind = row[f].kind, !.name = row[f].name,
                   !.blob = row[f].blob, !.tries = row[f].tries, !.node = row[f].at,
                   !.sent = row[f].name]
<1>1. /\ row[f] \in Row /\ row[f].kind # "none" /\ row' = [row EXCEPT ![f] = x]
      /\ job' = [job EXCEPT ![w] = j]
  BY Zenon DEF ClaimRow, TypeOK
<1>2. x \in Row BY <1>1, RowEdits
<1>3. OneRow(f, x) BY <1>1, <1>2, OneTypes
<1>4. /\ x.owner = w /\ x.kind = row[f].kind /\ x.blob = row[f].blob /\ x.at = row[f].at
      /\ x.name = row[f].name /\ x.to = row[f].to /\ x.parked = row[f].parked
  BY <1>1 DEF Row
<1>5. /\ row[f].kind \in {"create", "revision", "trash"} /\ row[f].name \in Name \cup {NoName}
      /\ row[f].blob \in {Empty} \cup Blob /\ row[f].tries \in 0 .. HoldAttempts
      /\ row[f].at \in Uid
  BY <1>1, RowFields
<1>6. j \in Job
  <2>1. NoJob \in Job BY Blanks
  <2> QED BY <1>5, <2>1 DEF Job, NoJob
<1>7. OneJob(w, j) BY <1>1, <1>6, OneTypes
<1>8. /\ j.file = f /\ j.kind = row[f].kind /\ j.name = row[f].name
      /\ j.blob = row[f].blob /\ j.node = row[f].at /\ j.sent = row[f].name
      /\ j.landed = Empty
  BY DEF NoJob
<1> HIDE DEF x, j
<1>9. row'[f] = x /\ job'[w] = j BY <1>3, <1>7 DEF OneRow, OneJob
<1> QED BY <1>3, <1>4, <1>7, <1>8, <1>9

LEMMA ClaimRowWay ==
  ASSUME TypeOK, NEW w \in Workers, NEW f \in Files, ClaimRow(w, f)
  PROVE  /\ OnePc(w, pc'[w]) /\ row[f].kind \in {"create", "revision", "trash"}
         /\ pc'[w] \in {"twin", "ask", "revise", "find", "trash"}
         /\ row[f].kind = "create" => pc'[w] = "twin"
         /\ row[f].kind = "revision" => pc'[w] \in {"ask", "revise"}
         /\ row[f].kind = "trash" => pc'[w] \in {"ask", "find", "trash"}
         /\ pc'[w] = "ask" => f \in unadopted
         /\ pc'[w] = "find" => row[f].at = Local
         /\ pc'[w] = "trash" => row[f].at # Local
<1> DEFINE p == IF row[f].kind = "create" THEN "twin"
                ELSE IF f \in unadopted THEN "ask"
                ELSE IF row[f].kind = "revision" THEN "revise"
                ELSE IF row[f].at = Local THEN "find" ELSE "trash"
<1>1. row[f] \in Row /\ row[f].kind # "none" /\ Goto(w, p) BY DEF ClaimRow, TypeOK
<1>2. p \in WorkerPc BY DEF WorkerPc
<1>3. OnePc(w, p) BY <1>1, <1>2, OneTypes
<1>4. row[f].kind \in {"create", "revision", "trash"} BY <1>1, RowFields
<1> QED BY <1>3, <1>4 DEF OnePc

LEMMA OneOrTwo ==
  /\ \A n : n \in Nat \ {0} /\ n <= 2 => n \in 1 .. 2 /\ n >= 1
  /\ \A m \in 1 .. 2 : \A n : n = m - 1 => n <= 2 /\ n # 2 /\ (n \in Nat \ {0} => m = 2)
OBVIOUS

LEMMA RenOwner ==
  ASSUME TypeOK, NEW f \in Files, NEW o \in Workers \cup {NoOne}, NEW t \in 0 .. HoldAttempts,
         ren[f] # <<>>
  PROVE  LET x == Handed(ren[f], o, t) IN
         /\ RenType(x) /\ x # <<>> /\ Len(x) = Len(ren[f])
         /\ x[1].owner = o /\ x[1].name = ren[f][1].name
         /\ \A i \in 1 .. Len(ren[f]) : x[i].name = ren[f][i].name
<1> DEFINE x == Handed(ren[f], o, t)
           y == [ren[f][1] EXCEPT !.owner = o, !.tries = t]
<1>1. /\ ren[f] \in Seq(Ren) /\ Len(ren[f]) \in 1 .. 2 /\ ren[f][1] \in Ren
      /\ Len(ren[f]) = 2 => ren[f][2].owner = NoOne
  <2>1. ren[f] \in Seq(Ren) /\ Len(ren[f]) <= 2 /\ (Len(ren[f]) = 2 => ren[f][2].owner = NoOne)
    BY DEF TypeOK
  <2>2. Len(ren[f]) \in Nat \ {0} BY <2>1, EmptySeq
  <2>3. Len(ren[f]) \in 1 .. 2 BY <2>1, <2>2, OneOrTwo, Zenon
  <2>4. 1 \in 1 .. Len(ren[f]) BY <2>2
  <2>5. ren[f][1] \in Ren BY <2>1, <2>4
  <2> QED BY <2>1, <2>3, <2>5, Zenon
<1>2. y \in Ren /\ y.owner = o /\ y.name = ren[f][1].name BY <1>1 DEF Ren
<1> HIDE DEF y
<1>3. /\ x \in Seq(Ren) /\ Len(x) = Len(ren[f]) /\ x[1] = y
      /\ \A i \in 1 .. Len(ren[f]) : i # 1 => x[i] = ren[f][i]
  <2>1. x = [ren[f] EXCEPT ![1] = y] BY DEF y, Handed
  <2> QED BY <1>1, <1>2, <2>1, ExceptSeq
<1> QED BY <1>1, <1>2, <1>3 DEF RenType

LEMMA RenTail ==
  ASSUME TypeOK, NEW f \in Files, ren[f] # <<>>
  PROVE  /\ RenType(Tail(ren[f])) /\ Len(Tail(ren[f])) = Len(ren[f]) - 1
         /\ \A i \in 1 .. Len(Tail(ren[f])) : Tail(ren[f])[i] = ren[f][i + 1]
         /\ Len(ren[f]) \in 1 .. 2
         /\ Tail(ren[f]) # <<>> => Len(ren[f]) = 2
<1>1. ren[f] \in Seq(Ren) /\ Len(ren[f]) \in 1 .. 2
  <2>1. ren[f] \in Seq(Ren) /\ Len(ren[f]) <= 2 BY DEF TypeOK
  <2>2. Len(ren[f]) \in Nat \ {0} BY <2>1, EmptySeq
  <2> QED BY <2>1, <2>2, OneOrTwo, Zenon
<1>2. /\ Tail(ren[f]) \in Seq(Ren) /\ Len(Tail(ren[f])) = Len(ren[f]) - 1
      /\ \A i \in 1 .. Len(Tail(ren[f])) : Tail(ren[f])[i] = ren[f][i + 1]
  BY <1>1
<1>3. /\ Len(Tail(ren[f])) # 2 /\ Len(Tail(ren[f])) <= 2
      /\ Len(Tail(ren[f])) \in Nat \ {0} => Len(ren[f]) = 2
  BY <1>1, <1>2, OneOrTwo, Zenon
<1>4. Tail(ren[f]) # <<>> => Len(Tail(ren[f])) \in Nat \ {0} BY <1>2, EmptySeq
<1> QED BY <1>1, <1>2, <1>3, <1>4, Zenon DEF RenType

(* Where the attempts that a step speaks of are. *)
LEMMA AtWork ==
  ASSUME Inv, NEW w \in Workers, pc[w] # "idle"
  PROVE  /\ F(w) \in Files /\ F(w) # NoOne /\ job[w] \in Job /\ row[F(w)] \in Row
         /\ JobFits(w) /\ CreateFits(w) /\ RevisionFits(w) /\ RenameFits(w)
         /\ FileFits(F(w)) /\ TypeOK
<1>1. TypeOK /\ JobFits(w) /\ CreateFits(w) /\ RevisionFits(w) /\ RenameFits(w) BY DEF Inv
<1>2. F(w) \in Files BY <1>1 DEF JobFits
<1> QED BY <1>1, <1>2, Constants DEF Inv, TypeOK

(* What is attempted at each place. *)
LEMMA Ways ==
  ASSUME NEW k \in {"create", "revision", "trash", "rename"}, NEW p \in Way[k]
  PROVE  /\ p # "idle" /\ p \in WorkerPc
         /\ k = "create" => p \in {"twin", "note", "send", "clash", "held", "retire", "repoint",
                                    "ask", "read", "place", "discard", "trash", "trashed", "fail"}
         /\ k = "revision" => p \in {"ask", "read", "place", "revise", "fail"}
         /\ k = "rename" => p \in {"ask", "read", "place", "send", "held", "retire", "fail"}
         /\ k = "trash" => p \in {"ask", "read", "place", "find", "trash", "trashed", "fail"}
<1>1. /\ Way["create"] = {"twin", "note", "send", "clash", "held", "retire", "repoint",
                          "ask", "read", "place", "discard", "trash", "trashed", "fail"}
      /\ Way["revision"] = {"ask", "read", "place", "revise", "fail"}
      /\ Way["rename"] = {"ask", "read", "place", "send", "held", "retire", "fail"}
      /\ Way["trash"] = {"ask", "read", "place", "find", "trash", "trashed", "fail"}
  BY DEF Way
<1>2. CASE k = "create" BY <1>1, <1>2 DEF WorkerPc
<1>3. CASE k = "revision" BY <1>1, <1>3 DEF WorkerPc
<1>4. CASE k = "rename" BY <1>1, <1>4 DEF WorkerPc
<1>5. CASE k = "trash" BY <1>1, <1>5 DEF WorkerPc
<1> QED BY <1>2, <1>3, <1>4, <1>5

LEMMA WaysIn ==
  /\ \A p \in {"twin", "note", "send", "clash", "held", "retire", "repoint", "ask", "read",
                "place", "discard", "trash", "trashed", "fail"} : p \in Way["create"]
  /\ \A p \in {"ask", "read", "place", "revise", "fail"} : p \in Way["revision"]
  /\ \A p \in {"ask", "read", "place", "send", "held", "retire", "fail"} : p \in Way["rename"]
  /\ \A p \in {"ask", "read", "place", "find", "trash", "trashed", "fail"} : p \in Way["trash"]
BY DEF Way

(* The kind of op an attempt is at, from where it is. *)
LEMMA KindAt ==
  ASSUME Inv, NEW w \in Workers, pc[w] # "idle"
  PROVE  /\ job[w].kind \in {"create", "revision", "trash", "rename"}
         /\ pc[w] \in {"twin", "note", "clash", "repoint", "discard"} => job[w].kind = "create"
         /\ pc[w] = "revise" => job[w].kind = "revision"
         /\ pc[w] = "find" => job[w].kind = "trash"
         /\ pc[w] \in {"send", "held", "retire"} => job[w].kind \in {"create", "rename"}
         /\ pc[w] \in {"trash", "trashed"} => job[w].kind \in {"create", "trash"}
<1>1. job[w].kind \in {"create", "revision", "trash", "rename"} /\ pc[w] \in Way[job[w].kind]
  BY AtWork, JobFields DEF JobFits
<1> QED BY <1>1, Ways

(* The node of an earlier attempt is taken for the create's. *)
LEMMA AdoptEffect ==
  ASSUME TypeOK, NEW w \in Workers, NEW r \in 1 .. nnode, AdoptTwin(w, r)
  PROVE  /\ OneJob(w, job'[w]) /\ SameOp(job[w], job'[w])
         /\ job'[w].node = r /\ job'[w].seen = node[r].name /\ job'[w].sent = node[r].name
         /\ job'[w].landed \in {Empty, job[w].blob}
         /\ job'[w].landed # Empty => node[r].body = job'[w].landed
         /\ node[r].name \in Name
<1> DEFINE b == IF node[r].body = job[w].blob THEN job[w].blob ELSE Empty
           j == [job[w] EXCEPT !.node = r, !.seen = node[r].name, !.landed = b,
                               !.sent = node[r].name]
<1>1. job' = [job EXCEPT ![w] = j] BY DEF AdoptTwin
<1>2. job[w] \in Job /\ node[r] \in Node /\ nnode \in Uid BY DEF TypeOK
<1>3. node[r].name \in Name /\ r \in Uid /\ b \in {Empty} \cup Blob /\ b \in {Empty, job[w].blob}
  BY <1>2, NodeFields, JobFields, Constants DEF Uid
<1> HIDE DEF b
<1>4. j \in Job BY <1>2, <1>3, JobEdits
<1>5. /\ SameOp(job[w], j) /\ j.node = r /\ j.seen = node[r].name /\ j.sent = node[r].name
      /\ j.landed = b
  BY <1>2 DEF Job, SameOp
<1> HIDE DEF j
<1>6. OneJob(w, j) /\ job'[w] = j BY <1>1, <1>4, OneTypes DEF OneJob
<1> QED BY <1>3, <1>5, <1>6 DEF b

(* A create's look at the folder ends with a node to adopt or without. *)
LEMMA LookEffect ==
  ASSUME Inv, NEW w \in Workers, CreateLook(w) \/ CreateClash(w)
  PROVE  /\ pc[w] \in {"twin", "clash"}
         /\ UNCHANGED <<dbVars, treeVars, callVars, sweepVars, driveVars, toldVars, boundVars>>
         /\ OnePc(w, pc'[w])
         /\ \/ job' = job /\ pc'[w] \in {"fail", "note", "held"}
            \/ /\ pc'[w] = "retire"
               /\ \E n \in row[F(w)].to \cup {job[w].name} : \E r \in AdoptableTwin(w, n) :
                    r \in 1 .. nnode /\ AdoptTwin(w, r)
<1> USE AtWork
<1>1. {"fail", "note", "held", "retire"} \subseteq WorkerPc BY DEF WorkerPc
<1>2. \A n : AdoptableTwin(w, n) \subseteq 1 .. nnode BY DEF AdoptableTwin, Twin, Unclaimed, Live
<1>3. CASE CreateLook(w)
  BY <1>3, <1>1, OneTypes, <1>2 DEF CreateLook, EarlierTwin, OnePc, Inv
<1>4. CASE CreateClash(w)
  BY <1>4, <1>1, OneTypes, <1>2 DEF CreateClash, OnePc, Inv
<1> QED BY <1>3, <1>4

(* What is about to be sent is noted. *)
LEMMA NoteEffect ==
  ASSUME Inv, NEW w \in Workers, CreateNote(w)
  PROVE  /\ pc[w] = "note" /\ OneRow(F(w), row'[F(w)])
         /\ LET x == row'[F(w)]  y == row[F(w)] IN
              /\ x.kind = y.kind /\ x.owner = y.owner /\ x.parked = y.parked /\ x.name = y.name
              /\ x.blob = y.blob /\ x.at = y.at
              /\ x.to = y.to \cup {SendName(w)}
         /\ OnePc(w, pc'[w]) /\ pc'[w] \in {"send", "fail"} /\ job' = job
         /\ pc'[w] = "send" => job[w].blob \in staged \cup {Empty}
<1> DEFINE f == F(w)
           t == row[f].to \cup {SendName(w)}
           c == IF row[f].to = {} THEN ncrash ELSE row[f].first
           s == IF job[w].blob \in staged THEN row[f].sha \cup {job[w].blob} ELSE row[f].sha
           x == [row[f] EXCEPT !.to = t, !.first = c, !.sha = s]
           p == IF job[w].blob \in staged \cup {Empty} THEN "send" ELSE "fail"
<1>1. pc[w] = "note" /\ row' = [row EXCEPT ![f] = x] /\ Goto(w, p) /\ job' = job BY DEF CreateNote
<1>2. f \in Files /\ row[f] \in Row /\ job[w] \in Job /\ TypeOK /\ job[w].name \in Name
  <2>1. job[w].kind = "create" BY <1>1, KindAt
  <2> QED BY <1>1, <2>1, AtWork, NameFacts DEF JobFits
<1>3. SendName(w) \in Name /\ t \in SUBSET Name /\ c \in 0 .. MaxCrash /\ s \in SUBSET Blob
  BY <1>2, NameFacts, RowFields DEF SendName, TypeOK
<1> HIDE DEF t, c, s
<1>4. x \in Row BY <1>2, <1>3, RowEdits
<1>5. /\ x.kind = row[f].kind /\ x.owner = row[f].owner /\ x.parked = row[f].parked
      /\ x.name = row[f].name /\ x.blob = row[f].blob /\ x.at = row[f].at /\ x.to = t
  BY <1>2 DEF Row
<1> HIDE DEF x
<1>6. OneRow(f, x) /\ row'[f] = x BY <1>1, <1>2, <1>4, OneTypes DEF OneRow
<1>7. OnePc(w, p) /\ pc'[w] = p
  <2>1. p \in WorkerPc BY DEF WorkerPc
  <2> QED BY <1>1, <1>2, <2>1, OneTypes DEF OnePc
<1> QED BY <1>1, <1>5, <1>6, <1>7 DEF t

(* The name was taken. *)
LEMMA TakenEffect ==
  ASSUME Inv, NEW w \in Workers, pc[w] = "send", AfterTaken(w)
  PROVE  /\ OnePc(w, pc'[w]) /\ OneJob(w, job'[w])
         /\ SameOp(job[w], job'[w])
         /\ job'[w].node = job[w].node /\ job'[w].sent = job[w].sent
         /\ job'[w].landed = job[w].landed /\ job'[w].seen = job[w].seen
         /\ job[w].kind = "create" => pc'[w] \in {"note", "clash"}
         /\ job[w].kind = "rename" => pc'[w] \in {"send", "held"}
<1> DEFINE p == CASE job[w].stage = "again" -> IF job[w].kind = "create" THEN "note" ELSE "send"
                  [] OTHER -> IF job[w].kind = "create" THEN "clash" ELSE "held"
           t == IF job[w].stage = "again" THEN "alt" ELSE job[w].stage
           j == [job[w] EXCEPT !.stage = t]
<1>1. Goto(w, p) /\ job' = [job EXCEPT ![w] = j] BY DEF AfterTaken
<1>2. job[w] \in Job /\ TypeOK /\ t \in {"first", "again", "alt"} BY AtWork, JobFields
<1>3. /\ job[w].kind = "create" => p \in {"note", "clash"}
      /\ job[w].kind = "rename" => p \in {"send", "held"}
      /\ p \in WorkerPc
  <2>1. CASE job[w].stage = "again" BY <2>1 DEF WorkerPc
  <2>2. CASE job[w].stage # "again" BY <2>2, Zenon DEF WorkerPc
  <2> QED BY <2>1, <2>2
<1> HIDE DEF p, t
<1>4. j \in Job BY <1>2, JobEdits
<1>5. /\ SameOp(job[w], j) /\ j.node = job[w].node /\ j.sent = job[w].sent
      /\ j.landed = job[w].landed /\ j.seen = job[w].seen
  BY <1>2 DEF Job, SameOp
<1> HIDE DEF j
<1>6. OneJob(w, j) /\ job'[w] = j /\ OnePc(w, p) /\ pc'[w] = p
  BY <1>1, <1>2, <1>3, <1>4, OneTypes DEF OneJob, OnePc
<1> QED BY <1>3, <1>5, <1>6

LEMMA AppliedEffect ==
  ASSUME Inv, NEW w \in Workers, pc[w] = "send", Applied(w)
  PROVE  /\ SendName(w) \in Name /\ SendName(w) \in {job[w].name, ConflictName(F(w))}
         /\ job[w].kind = "create" => NewNode(SendName(w), job[w].blob, F(w))
         /\ job[w].kind # "create" => RenamedNode(job[w].node, SendName(w))
<1>1. /\ F(w) \in Files /\ job[w].name \in Names /\ job[w] \in Job /\ TypeOK
  BY AtWork, KindAt DEF JobFits
<1>2. SendName(w) \in Name /\ SendName(w) \in {job[w].name, ConflictName(F(w))}
  BY <1>1, NameFacts DEF SendName
<1>3. ASSUME job[w].kind = "create" PROVE NewNode(SendName(w), job[w].blob, F(w))
  <2>1. /\ nnode < MaxNode /\ nnode' = nnode + 1
        /\ node' = Made(SendName(w), job[w].blob, F(w))
    BY <1>3 DEF Applied
  <2>2. job[w].blob \in 0 .. MaxBlob + 1 BY <1>1, JobFields, Numbers, Constants
  <2> QED BY <1>1, <1>2, <2>1, <2>2, MadeType DEF NewNode
<1>4. ASSUME job[w].kind # "create" PROVE RenamedNode(job[w].node, SendName(w))
  <2> DEFINE r == job[w].node
             n == SendName(w)
             x == [node[r] EXCEPT !.name = n]
  <2>1. node' = [node EXCEPT ![r].name = n] /\ nnode' = nnode BY <1>4 DEF Applied
  <2>2. node' = [node EXCEPT ![r] = x] BY <2>1
  <2>3. node \in [1 .. nnode -> Node] /\ nnode \in Uid BY <1>1 DEF TypeOK
  <2>4. \A m \in Node, k \in Name : LET y == [m EXCEPT !.name = k] IN
          /\ y \in Node /\ y.by = m.by /\ y.body = m.body /\ y.trashed = m.trashed /\ y.name = k
          /\ y.epoch = m.epoch /\ y.inline = m.inline
    BY DEF Node
  <2>5. r \in 1 .. nnode => 
          /\ x \in Node /\ x.by = node[r].by /\ x.body = node[r].body
          /\ x.trashed = node[r].trashed /\ x.name = n
          /\ x.epoch = node[r].epoch /\ x.inline = node[r].inline
    BY <1>2, <2>3, <2>4
  <2> HIDE DEF x, r, n
  <2>6. node' \in [1 .. nnode -> Node] BY <2>2, <2>3, <2>5
  <2>7. \A q \in 1 .. nnode : node'[q] = IF q = r THEN x ELSE node[q] BY <2>2, <2>3
  <2>8. RenamedNode(r, n) BY <2>1, <2>3, <2>5, <2>6, <2>7 DEF RenamedNode, DriveType
  <2> QED BY <2>8 DEF r, n
<1> QED BY <1>2, <1>3, <1>4

(* The outcomes of a call of Drive. *)
LEMMA SendEffect ==
  ASSUME Inv, NEW w \in Workers, Send(w)
  PROVE  /\ pc[w] = "send" /\ UNCHANGED <<dbVars, treeVars, callVars, sweepVars, toldVars>>
         /\ BoundType' /\ OnePc(w, pc'[w])
         /\ \/ AfterTaken(w) /\ UNCHANGED driveVars
            \/ /\ Applied(w) /\ pc'[w] = "retire"
               /\ OneJob(w, job'[w]) /\ SameOp(job[w], job'[w]) /\ job'[w].sent = job[w].sent
               /\ job'[w].seen = SendName(w) /\ job'[w].landed = job[w].blob
               /\ job'[w].node = IF job[w].kind = "create" THEN nnode + 1 ELSE job[w].node
            \/ Applied(w) /\ pc'[w] = "fail" /\ job' = job /\ "answer" \in Faults
            \/ UNCHANGED driveVars /\ pc'[w] = "fail" /\ job' = job
<1>1. /\ pc[w] = "send" /\ UNCHANGED <<dbVars, treeVars, callVars, sweepVars, toldVars>>
      /\ TypeOK /\ job[w] \in Job
  BY AtWork DEF Send
<1>2. ASSUME AfterTaken(w), UNCHANGED <<driveVars, boundVars>>
      PROVE  BoundType' /\ OnePc(w, pc'[w])
  BY <1>1, <1>2, TakenEffect, TypeFrames
<1>3. ASSUME Goto(w, "fail") PROVE OnePc(w, pc'[w]) /\ pc'[w] = "fail"
  <2>1. OnePc(w, "fail") BY <1>1, <1>3, OneTypes DEF WorkerPc
  <2> QED BY <2>1 DEF OnePc
<1>4. ASSUME NEW k, Fault(k) PROVE BoundType' /\ k \in Faults BY <1>1, <1>4, BoundSteps DEF Fault
<1>5. ASSUME Applied(w), Goto(w, "retire"), UNCHANGED boundVars,
             job' = [job EXCEPT ![w].seen = SendName(w), ![w].landed = job[w].blob,
                           ![w].node = IF job[w].kind = "create" THEN nnode + 1 ELSE @]
      PROVE  /\ BoundType' /\ OnePc(w, pc'[w]) /\ pc'[w] = "retire"
             /\ OneJob(w, job'[w]) /\ SameOp(job[w], job'[w]) /\ job'[w].sent = job[w].sent
             /\ job'[w].seen = SendName(w) /\ job'[w].landed = job[w].blob
             /\ job'[w].node = IF job[w].kind = "create" THEN nnode + 1 ELSE job[w].node
  <2> DEFINE n == SendName(w)
             b == job[w].blob
             r == IF job[w].kind = "create" THEN nnode + 1 ELSE job[w].node
             j == [job[w] EXCEPT !.seen = n, !.landed = b, !.node = r]
  <2>1. job' = [job EXCEPT ![w] = j] BY <1>5
  <2>2. n \in Name /\ b \in {Empty} \cup Blob BY <1>1, <1>5, AppliedEffect, JobFields
  <2>3. r \in Uid
    <3>1. CASE job[w].kind = "create"
      <4>1. nnode < MaxNode BY <1>5, <3>1 DEF Applied
      <4> QED BY <1>1, <3>1, <4>1, Constants DEF TypeOK, Uid
    <3>2. CASE job[w].kind # "create" BY <1>1, <3>2, JobFields, Zenon
    <3> QED BY <3>1, <3>2
  <2> HIDE DEF n, b, r
  <2>4. j \in Job BY <1>1, <2>2, <2>3, JobEdits
  <2>5. SameOp(job[w], j) /\ j.sent = job[w].sent /\ j.seen = n /\ j.landed = b /\ j.node = r
    BY <1>1 DEF Job, SameOp
  <2> HIDE DEF j
  <2>6. OneJob(w, j) /\ job'[w] = j BY <1>1, <2>1, <2>4, OneTypes DEF OneJob
  <2>7. OnePc(w, "retire") BY <1>1, <1>5, OneTypes DEF WorkerPc
  <2>8. BoundType' BY <1>1, <1>5, TypeFrames
  <2> QED BY <2>5, <2>6, <2>7, <2>8 DEF OnePc, n, b, r
<1> QED BY <1>1, <1>2, <1>3, <1>4, <1>5 DEF Send

(* The name is held, or the call is tried again. *)
LEMMA HeldEffect ==
  ASSUME Inv, NEW w \in Workers, CheckHeld(w)
  PROVE  /\ pc[w] = "held" /\ OnePc(w, pc'[w]) /\ OneJob(w, job'[w])
         /\ SameOp(job[w], job'[w])
         /\ job'[w].node = job[w].node /\ job'[w].sent = job[w].sent
         /\ job'[w].landed = job[w].landed /\ job'[w].seen = job[w].seen
         /\ job[w].kind = "create" => pc'[w] \in {"note", "fail"}
         /\ job[w].kind = "rename" => pc'[w] \in {"send", "fail"}
<1>1. pc[w] = "held" /\ TypeOK /\ job[w] \in Job BY AtWork DEF CheckHeld
<1>2. ASSUME Goto(w, "fail"), UNCHANGED job
      PROVE  /\ OnePc(w, "fail") /\ pc'[w] = "fail" /\ OneJob(w, job'[w]) /\ job'[w] = job[w]
  BY <1>1, <1>2, OneTypes DEF WorkerPc, OnePc, OneJob, TypeOK
<1>3. ASSUME job' = [job EXCEPT ![w].stage = "again"],
             Goto(w, IF job[w].kind = "create" THEN "note" ELSE "send")
      PROVE  /\ OnePc(w, pc'[w]) /\ pc'[w] = (IF job[w].kind = "create" THEN "note" ELSE "send")
             /\ OneJob(w, job'[w]) /\ job'[w] = [job[w] EXCEPT !.stage = "again"]
  <2> DEFINE j == [job[w] EXCEPT !.stage = "again"]
             p == IF job[w].kind = "create" THEN "note" ELSE "send"
  <2>1. job' = [job EXCEPT ![w] = j] BY <1>3, Zenon
  <2>2. j \in Job BY <1>1, JobEdits
  <2>3. p \in WorkerPc BY DEF WorkerPc
  <2>4. OneJob(w, j) /\ OnePc(w, p) BY <1>1, <1>3, <2>1, <2>2, <2>3, OneTypes
  <2> QED BY <2>4 DEF OneJob, OnePc
<1>4. LET j == [job[w] EXCEPT !.stage = "again"] IN
        /\ SameOp(job[w], j) /\ j.node = job[w].node /\ j.sent = job[w].sent
        /\ j.landed = job[w].landed /\ j.seen = job[w].seen
  BY <1>1 DEF Job, SameOp
<1>5. CASE NameIsHeld(w) BY <1>1, <1>2, <1>5 DEF CheckHeld, SameOp
<1>6. CASE ~NameIsHeld(w) BY <1>1, <1>3, <1>4, <1>6 DEF CheckHeld
<1> QED BY <1>5, <1>6

(* A worker that is done with its op. *)
LEMMA IdleEffect ==
  ASSUME TypeOK, NEW w \in Workers, Goto(w, "idle"), job' = [job EXCEPT ![w] = NoJob]
  PROVE  OnePc(w, "idle") /\ OneJob(w, NoJob) /\ pc'[w] = "idle" /\ job'[w] = NoJob
<1>1. OnePc(w, "idle") /\ OneJob(w, NoJob) BY Blanks, OneTypes DEF WorkerPc
<1> QED BY <1>1 DEF OnePc, OneJob

(* The attempt failed. *)
LEMMA FailEffect ==
  ASSUME Inv, NEW w \in Workers, Fail(w)
  PROVE  LET f == F(w) IN
         /\ pc[w] = "fail" /\ OnePc(w, "idle") /\ OneJob(w, NoJob)
         /\ OneRow(f, row'[f])
         /\ LET x == row'[f]  y == row[f] IN
              /\ x.kind = y.kind /\ x.name = y.name /\ x.blob = y.blob /\ x.at = y.at
              /\ x.to = y.to /\ x.parked = y.parked
              /\ x.owner = y.owner \/ (y.owner = w /\ x.owner = NoOne)
              /\ y.owner = w /\ job[w].kind # "rename" => x.owner = NoOne
         /\ OneRen(f, ren'[f]) /\ RenType(ren'[f])
         /\ \/ ren'[f] = ren[f]
            \/ /\ ren[f] # <<>> /\ ren[f][1].owner = w
               /\ \/ Len(ren[f]) > 1 /\ ren'[f] = Tail(ren[f])
                  \/ /\ Len(ren'[f]) = Len(ren[f]) /\ ren'[f] # <<>>
                     /\ \A i \in 1 .. Len(ren[f]) : ren'[f][i].name = ren[f][i].name
<1> DEFINE f == F(w)
<1>1. /\ pc[w] = "fail" /\ TypeOK /\ f \in Files /\ row[f] \in Row
      /\ OnePc(w, "idle") /\ OneJob(w, NoJob)
  BY AtWork, IdleEffect DEF Fail
<1>2. \A n \in 0 .. HoldAttempts : Grown(n) \in 0 .. HoldAttempts BY Constants DEF Grown
<1>3. CASE /\ job[w].kind # "rename" /\ ren' = ren
           /\ row' = IF row[f].owner # w THEN row
                  ELSE [row EXCEPT ![f].owner = NoOne,
                          ![f].tries = IF row[f].kind = job[w].kind THEN Grown(@) ELSE @]
  <2>1. OneRen(f, ren[f]) /\ ren'[f] = ren[f] /\ RenType(ren[f])
    BY <1>1, <1>3, TypeParts DEF OneRen, DbType
  <2>2. CASE row[f].owner # w
    <3>1. row' = row BY <1>3, <2>2
    <3>2. OneRow(f, row'[f]) /\ row'[f] = row[f] BY <1>1, <3>1 DEF OneRow, TypeOK
    <3> QED BY <1>1, <2>1, <2>2, <3>2
  <2>3. CASE row[f].owner = w
    <3> DEFINE t == IF row[f].kind = job[w].kind THEN Grown(row[f].tries) ELSE row[f].tries
               x == [row[f] EXCEPT !.owner = NoOne, !.tries = t]
    <3>1. row' = [row EXCEPT ![f] = x] BY <1>3, <2>3
    <3>2. t \in 0 .. HoldAttempts BY <1>1, <1>2, RowFields
    <3> HIDE DEF t
    <3>3. x \in Row BY <1>1, <3>2, RowEdits
    <3>4. /\ x.kind = row[f].kind /\ x.name = row[f].name /\ x.blob = row[f].blob
          /\ x.at = row[f].at /\ x.to = row[f].to /\ x.parked = row[f].parked /\ x.owner = NoOne
      BY <1>1 DEF Row
    <3> HIDE DEF x
    <3>5. OneRow(f, x) /\ row'[f] = x BY <1>1, <3>1, <3>3, OneTypes DEF OneRow
    <3> QED BY <1>1, <2>1, <2>3, <3>4, <3>5
  <2> QED BY <2>2, <2>3
<1>4. CASE /\ job[w].kind = "rename" /\ row' = row
           /\ ren' = IF ren[f] = <<>> \/ ren[f][1].owner # w THEN ren
                  ELSE IF Len(ren[f]) > 1 THEN [ren EXCEPT ![f] = Tail(@)]
                  ELSE [ren EXCEPT ![f][1].owner = NoOne, ![f][1].tries = Grown(@)]
  <2>1. OneRow(f, row'[f]) /\ row'[f] = row[f] BY <1>1, <1>4 DEF OneRow, TypeOK
  <2>2. CASE ren[f] = <<>> \/ ren[f][1].owner # w
    <3>1. ren' = ren BY <1>4, <2>2
    <3>2. OneRen(f, ren'[f]) /\ ren'[f] = ren[f] /\ RenType(ren'[f])
      BY <1>1, <3>1, TypeParts DEF OneRen, DbType
    <3> QED BY <1>1, <1>4, <2>1, <3>2
  <2>3. CASE ren[f] # <<>> /\ ren[f][1].owner = w /\ Len(ren[f]) > 1
    BY <1>4, <2>3, <1>1, RenTail, OneTypes, <2>1 DEF OneRen, RenType
  <2>4. CASE ren[f] # <<>> /\ ren[f][1].owner = w /\ ~(Len(ren[f]) > 1)
    <3> DEFINE t == Grown(ren[f][1].tries)
               x == Handed(ren[f], NoOne, t)
    <3>1. ren' = [ren EXCEPT ![f] = x] BY <1>4, <2>4 DEF Handed
    <3>2. t \in 0 .. HoldAttempts
      <4>1. ren[f] \in Seq(Ren) /\ Len(ren[f]) \in 1 .. 2 BY <1>1, <2>4, RenTail DEF TypeOK
      <4>2. ren[f][1] \in Ren BY <4>1
      <4> QED BY <1>2, <4>2, RenFields
    <3> HIDE DEF t
    <3>3. /\ RenType(x) /\ x # <<>> /\ Len(x) = Len(ren[f])
          /\ \A i \in 1 .. Len(ren[f]) : x[i].name = ren[f][i].name
      <4>1. NoOne \in Workers \cup {NoOne} OBVIOUS
      <4> QED BY <1>1, <2>4, <3>2, <4>1, RenOwner, Zenon
    <3> HIDE DEF x
    <3>4. OneRen(f, x) /\ ren'[f] = x BY <1>1, <3>1, <3>3, OneTypes DEF OneRen, RenType
    <3> QED BY <1>1, <1>4, <2>1, <2>4, <3>3, <3>4
  <2> QED BY <2>2, <2>3, <2>4
<1> QED BY <1>3, <1>4 DEF Fail

LEMMA ClaimRenameEffect ==
  ASSUME Inv, NEW w \in Workers, NEW f \in Files, ClaimRename(w, f)
  PROVE  /\ pc[w] = "idle" /\ ren[f] # <<>> /\ Free(f)
         /\ OneRen(f, ren'[f]) /\ RenType(ren'[f]) /\ ren'[f] # <<>>
         /\ Len(ren'[f]) = Len(ren[f])
         /\ ren'[f][1].owner = w
         /\ \A i \in 1 .. Len(ren[f]) : ren'[f][i].name = ren[f][i].name
         /\ ren'[f][1].name = ren[f][1].name /\ ren[f][1].name \in Names
         /\ OneJob(w, job'[w])
         /\ job'[w].file = f /\ job'[w].kind = "rename" /\ job'[w].name = ren[f][1].name
         /\ job'[w].blob = Empty /\ job'[w].landed = Empty /\ job'[w].node = uid[f]
         /\ OnePc(w, pc'[w]) /\ pc'[w] = (IF f \in unadopted THEN "ask" ELSE "send")
<1> DEFINE t == ren[f][1].tries
           x == [ren[f] EXCEPT ![1] = [ren[f][1] EXCEPT !.owner = w]]
           y == Handed(ren[f], w, t)
           j == [NoJob EXCEPT !.file = f, !.kind = "rename", !.name = ren[f][1].name, !.tries = t,
                   !.node = uid[f]]
           p == IF f \in unadopted THEN "ask" ELSE "send"
<1>1. /\ pc[w] = "idle" /\ ren[f] # <<>> /\ Free(f) /\ ren' = [ren EXCEPT ![f] = x]
      /\ job' = [job EXCEPT ![w] = j] /\ Goto(w, p) /\ TypeOK /\ FileFits(f)
  BY DEF ClaimRename, Inv
<1>2. ren[f] \in Seq(Ren) /\ Len(ren[f]) \in 1 .. 2 BY <1>1, RenTail DEF TypeOK
<1>3. ren[f][1] \in Ren /\ 1 \in 1 .. Len(ren[f]) BY <1>2
<1>4. /\ t \in 0 .. HoldAttempts /\ ren[f][1].name \in Names /\ ren[f][1].name \in Name
      /\ uid[f] \in Uid
  BY <1>1, <1>3, RenFields, NameFacts DEF FileFits, RenFits, TypeOK
<1>5. [ren[f][1] EXCEPT !.owner = w] = [ren[f][1] EXCEPT !.owner = w, !.tries = t] BY <1>3 DEF Ren
<1>6. x = y BY <1>5, Zenon DEF Handed
<1> HIDE DEF t
<1>7. /\ RenType(y) /\ y # <<>> /\ Len(y) = Len(ren[f]) /\ y[1].owner = w
      /\ y[1].name = ren[f][1].name
      /\ \A i \in 1 .. Len(ren[f]) : y[i].name = ren[f][i].name
  <2>1. w \in Workers \cup {NoOne} OBVIOUS
  <2> QED BY <1>1, <1>4, <2>1, RenOwner, Zenon
<1> HIDE DEF x, y
<1>8. OneRen(f, x) /\ ren'[f] = x BY <1>1, <1>6, <1>7, OneTypes DEF OneRen, RenType
<1>9. j \in Job BY <1>4, Blanks DEF Job, NoJob
<1>10. /\ j.file = f /\ j.kind = "rename" /\ j.name = ren[f][1].name
       /\ j.blob = Empty /\ j.landed = Empty /\ j.node = uid[f]
  BY DEF NoJob
<1> HIDE DEF j
<1>11. OneJob(w, j) /\ job'[w] = j BY <1>1, <1>9, OneTypes DEF OneJob
<1>12. OnePc(w, p) /\ pc'[w] = p BY <1>1, OneTypes DEF OnePc, WorkerPc
<1> QED BY <1>1, <1>4, <1>6, <1>7, <1>8, <1>10, <1>11, <1>12

(* A landed create is retired, or found withdrawn. *)
LEMMA RetireEffect ==
  ASSUME Inv, NEW w \in Workers, CreateRetire(w)
  PROVE  LET f == F(w) IN
         /\ pc[w] = "retire" /\ job[w].kind = "create" /\ job' = job
         /\ OneRow(f, row'[f])
         /\ OnePc(w, pc'[w])
         /\ row[f].kind = "create" =>
              /\ pc'[w] = "repoint" /\ hidden' = hidden
              /\ uid' = [uid EXCEPT ![f] = job[w].node] /\ uid'[f] = job[w].node
              /\ OneRen(f, ren'[f]) /\ RenType(ren'[f])
              /\ row'[f].to = {} /\ row'[f].parked = FALSE
              /\ \/ /\ row'[f].kind = "none" /\ row'[f].blob = Empty /\ row'[f].at = Local
                    /\ row[f].blob = Empty \/ row[f].blob = job[w].landed
                 \/ /\ row'[f].kind = "revision" /\ row'[f].blob = row[f].blob
                    /\ row'[f].at = job[w].node /\ row'[f].owner = w
                    /\ row[f].blob # Empty /\ row[f].blob # job[w].landed
              /\ \/ row[f].name = job[w].sent /\ ren'[f] = <<>>
                 \/ /\ Len(ren'[f]) = 1 /\ ren'[f] # <<>> /\ ren'[f][1].name = row[f].name
                    /\ ren'[f][1].owner = NoOne
         /\ row[f].kind # "create" =>
              /\ pc'[w] = "trash" /\ hidden' = hidden \cup {job[w].node}
              /\ ren' = ren /\ uid' = uid
              /\ row'[f].kind = "trash" /\ row'[f].at = job[w].node
              /\ row'[f].to \in {row[f].to, {}} /\ row'[f].blob \in {row[f].blob, Empty}
<1> DEFINE f == F(w)
           r == job[w].node
<1>1. /\ pc[w] = "retire" /\ job[w].kind = "create" /\ job' = job /\ TypeOK /\ f \in Files
      /\ row[f] \in Row /\ job[w] \in Job /\ r \in Uid /\ job[w].seen \in Name
      /\ job[w].seen \in Name \cup {NoName}
  <2>1. pc[w] = "retire" /\ job[w].kind = "create" /\ job' = job BY DEF CreateRetire
  <2> QED BY <2>1, AtWork, JobFields DEF CreateFits
<1>2. CASE row[f].kind = "create"
  <2>1. /\ row' = [row EXCEPT ![f] = Retired(w)] /\ ren' = [ren EXCEPT ![f] = RenameOwed(w)]
        /\ uid' = [uid EXCEPT ![f] = r] /\ Goto(w, "repoint") /\ hidden' = hidden
    BY <1>1, <1>2 DEF CreateRetire
  <2>2. /\ row[f].blob \in {Empty} \cup Blob /\ row[f].name \in Names /\ row[f].name \in Name
    BY <1>1, <1>2, RowFields, AtWork, NameFacts DEF FileFits, RowFits
  <2>3. /\ Retired(w) \in Row
        /\ Retired(w).to = {} /\ Retired(w).parked = FALSE
        /\ \/ /\ Retired(w).kind = "none" /\ Retired(w).blob = Empty /\ Retired(w).at = Local
              /\ row[f].blob = Empty \/ row[f].blob = job[w].landed
           \/ /\ Retired(w).kind = "revision" /\ Retired(w).blob = row[f].blob
              /\ Retired(w).at = r /\ Retired(w).owner = w
              /\ row[f].blob # Empty /\ row[f].blob # job[w].landed
    <3>1. CASE row[f].blob # Empty /\ row[f].blob # job[w].landed
      <4> DEFINE b == row[f].blob
                 x == [NoRow EXCEPT !.kind = "revision", !.owner = w, !.blob = b, !.at = r]
      <4>1. Retired(w) = x BY <3>1 DEF Retired
      <4>2. NoRow \in Row /\ b \in Blob /\ w \in Workers \cup {NoOne} BY <2>2, <3>1, Blanks
      <4> HIDE DEF b, r
      <4>3. x \in Row BY <1>1, <4>2, RowEdits
      <4>4. /\ x.kind = "revision" /\ x.blob = b /\ x.at = r /\ x.owner = w /\ x.to = {}
            /\ x.parked = FALSE
        BY DEF NoRow
      <4> QED BY <3>1, <4>1, <4>3, <4>4 DEF b
    <3>2. CASE row[f].blob = Empty \/ row[f].blob = job[w].landed
      <4>1. Retired(w) = NoRow BY <3>2 DEF Retired
      <4> QED BY <3>2, <4>1, Blanks DEF NoRow
    <3> QED BY <3>1, <3>2
  <2>4. OneRow(f, Retired(w)) /\ row'[f] = Retired(w) BY <1>1, <2>1, <2>3, OneTypes DEF OneRow
  <2>5. /\ RenType(RenameOwed(w))
        /\ \/ row[f].name = job[w].sent /\ RenameOwed(w) = <<>>
           \/ /\ Len(RenameOwed(w)) = 1 /\ RenameOwed(w) # <<>>
              /\ RenameOwed(w)[1].name = row[f].name /\ RenameOwed(w)[1].owner = NoOne
    <3>1. CASE row[f].name # job[w].sent
      <4> DEFINE x == [name |-> row[f].name, orig |-> job[w].seen, owner |-> NoOne, tries |-> 0]
      <4>1. RenameOwed(w) = <<x>> BY <3>1 DEF RenameOwed
      <4>2. x \in Ren /\ x.name = row[f].name /\ x.owner = NoOne BY <1>1, <2>2, Constants DEF Ren
      <4> HIDE DEF x
      <4>3. /\ <<x>> \in Seq(Ren) /\ Len(<<x>>) = 1 /\ <<x>>[1] = x /\ <<x>> # <<>> BY <4>2
      <4> QED BY <4>1, <4>2, <4>3 DEF RenType
    <3>2. CASE row[f].name = job[w].sent BY <3>2, EmptySeq DEF RenameOwed, RenType
    <3> QED BY <3>1, <3>2
  <2>6. OneRen(f, RenameOwed(w)) /\ ren'[f] = RenameOwed(w)
    BY <1>1, <2>1, <2>5, OneTypes DEF OneRen, RenType
  <2>7. OnePc(w, "repoint") /\ pc'[w] = "repoint" BY <1>1, <2>1, OneTypes DEF OnePc, WorkerPc
  <2>8. uid'[f] = r BY <1>1, <2>1 DEF TypeOK
  <2> QED BY <1>1, <1>2, <2>1, <2>3, <2>4, <2>5, <2>6, <2>7, <2>8
<1>3. CASE row[f].kind # "create"
  <2> DEFINE x == IF row[f].kind = "trash" THEN [row[f] EXCEPT !.at = r, !.name = job[w].seen]
                  ELSE [NoRow EXCEPT !.kind = "trash", !.owner = w, !.at = r,
                                     !.name = job[w].seen]
  <2>1. /\ row' = [row EXCEPT ![f] = x] /\ hidden' = hidden \cup {r} /\ Goto(w, "trash")
        /\ ren' = ren /\ uid' = uid
    BY <1>1, <1>3 DEF CreateRetire
  <2>2. /\ x \in Row /\ x.kind = "trash" /\ x.at = r
        /\ x.to \in {row[f].to, {}} /\ x.blob \in {row[f].blob, Empty}
    <3> DEFINE n == job[w].seen
    <3> HIDE DEF r, n
    <3>0. n \in Name \cup {NoName} /\ r \in Uid BY <1>1 DEF n
    <3>1. CASE row[f].kind = "trash"
      <4> DEFINE y == [row[f] EXCEPT !.at = r, !.name = n]
      <4>1. y \in Row BY <1>1, <3>0, RowEdits
      <4>2. y.kind = row[f].kind /\ y.at = r /\ y.to = row[f].to /\ y.blob = row[f].blob
        BY <1>1 DEF Row
      <4>3. x = y BY <3>1 DEF n
      <4> QED BY <3>1, <4>1, <4>2, <4>3, Zenon
    <3>2. CASE row[f].kind # "trash"
      <4> DEFINE y == [NoRow EXCEPT !.kind = "trash", !.owner = w, !.at = r, !.name = n]
      <4>1. y \in Row
        <5>1. NoRow \in Row /\ w \in Workers \cup {NoOne} BY Blanks
        <5> QED BY <3>0, <5>1, RowEdits
      <4>2. y.kind = "trash" /\ y.at = r /\ y.to = {} /\ y.blob = Empty BY DEF NoRow
      <4>3. x = y BY <3>2 DEF n
      <4> QED BY <4>1, <4>2, <4>3, Zenon
    <3> QED BY <3>1, <3>2
  <2> HIDE DEF x
  <2>3. OneRow(f, x) /\ row'[f] = x BY <1>1, <2>1, <2>2, OneTypes DEF OneRow
  <2>4. OnePc(w, "trash") /\ pc'[w] = "trash" BY <1>1, <2>1, OneTypes DEF OnePc, WorkerPc
  <2> QED BY <1>1, <1>3, <2>1, <2>2, <2>3, <2>4
<1> QED BY <1>2, <1>3

(* The tree is asked and the node read back. *)
LEMMA AskEffect ==
  ASSUME Inv, NEW w \in Workers, AdoptAsk(w)
  PROVE  /\ pc[w] = "ask" /\ OnePc(w, "read") /\ pc'[w] = "read"
         /\ OneJob(w, job'[w]) /\ SameOp(job[w], job'[w]) /\ job'[w].node = job[w].node
         /\ job'[w].sent = job[w].sent /\ job'[w].landed = job[w].landed
         /\ job'[w].seen = job[w].seen
<1> DEFINE b == ren[F(w)] # <<>>
           j == [job[w] EXCEPT !.renaming = b]
<1>1. /\ pc[w] = "ask" /\ Goto(w, "read") /\ job' = [job EXCEPT ![w] = j] /\ TypeOK
      /\ job[w] \in Job /\ b \in BOOLEAN
  BY AtWork, Zenon DEF AdoptAsk
<1> HIDE DEF b
<1>2. j \in Job BY <1>1, JobEdits
<1>3. /\ SameOp(job[w], j) /\ j.node = job[w].node /\ j.sent = job[w].sent
      /\ j.landed = job[w].landed /\ j.seen = job[w].seen
  BY <1>1 DEF Job, SameOp
<1> HIDE DEF j
<1>4. OneJob(w, j) /\ job'[w] = j /\ OnePc(w, "read") /\ pc'[w] = "read"
  BY <1>1, <1>2, OneTypes DEF OneJob, OnePc, WorkerPc
<1> QED BY <1>1, <1>3, <1>4

LEMMA ReadEffect ==
  ASSUME Inv, NEW w \in Workers, AdoptRead(w)
  PROVE  /\ pc[w] = "read" /\ OnePc(w, pc'[w]) /\ BoundType'
         /\ OneJob(w, job'[w]) /\ SameOp(job[w], job'[w]) /\ job'[w].node = job[w].node
         /\ job'[w].sent = job[w].sent /\ job'[w].landed = job[w].landed
         /\ \/ /\ pc'[w] = "place" /\ unadopted' = unadopted
               /\ job'[w].seen = node[job[w].node].name /\ job'[w].seen \in Name
            \/ /\ job' = job
               /\ IF job[w].kind = "create"
                    THEN pc'[w] = "discard" /\ unadopted' = unadopted \cup {F(w)}
                    ELSE pc'[w] = "fail" /\ unadopted' = unadopted
<1> DEFINE n == node[job[w].node].name
           j == [job[w] EXCEPT !.seen = n]
<1>1. pc[w] = "read" /\ TypeOK /\ job[w] \in Job /\ n \in Name
  <2>1. pc[w] = "read" /\ pc[w] \in Adopts BY DEF AdoptRead, Adopts
  <2>2. /\ job[w].node = uid[F(w)] /\ uid[F(w)] # Local /\ job[w].node \in 0 .. nnode
        /\ TypeOK /\ job[w] \in Job
    BY <2>1, AtWork DEF JobFits
  <2>3. nnode \in Uid /\ node \in [1 .. nnode -> Node] BY <2>2 DEF TypeOK
  <2>4. job[w].node \in 1 .. nnode BY <2>2, <2>3, Constants, SMTT(20) DEF Uid
  <2> QED BY <2>1, <2>2, <2>3, <2>4, NodeFields
<1> HIDE DEF n
<1>2. CASE /\ job' = [job EXCEPT ![w] = j] /\ Goto(w, "place")
           /\ UNCHANGED <<unadopted, boundVars>>
  <2>1. j \in Job BY <1>1, JobEdits
  <2>2. /\ SameOp(job[w], j) /\ j.node = job[w].node /\ j.sent = job[w].sent
        /\ j.landed = job[w].landed /\ j.seen = n
    BY <1>1 DEF Job, SameOp
  <2> HIDE DEF j
  <2>3. OneJob(w, j) /\ job'[w] = j /\ OnePc(w, "place") /\ pc'[w] = "place"
    BY <1>1, <1>2, <2>1, OneTypes DEF OneJob, OnePc, WorkerPc
  <2>4. BoundType' BY <1>1, <1>2, TypeFrames
  <2> QED BY <1>1, <1>2, <2>2, <2>3, <2>4 DEF n
<1>3. CASE /\ Fault("readback") /\ job' = job
           /\ unadopted' = IF job[w].kind = "create" THEN unadopted \cup {F(w)} ELSE unadopted
           /\ Goto(w, IF job[w].kind = "create" THEN "discard" ELSE "fail")
  <2> DEFINE p == IF job[w].kind = "create" THEN "discard" ELSE "fail"
  <2>1. OneJob(w, job'[w]) /\ job'[w] = job[w] /\ SameOp(job[w], job[w])
    BY <1>1, <1>3 DEF OneJob, SameOp, TypeOK
  <2>2. OnePc(w, p) /\ pc'[w] = p BY <1>1, <1>3, OneTypes DEF OnePc, WorkerPc
  <2>3. BoundType' BY <1>1, <1>3, BoundSteps
  <2> QED BY <1>1, <1>3, <2>1, <2>2, <2>3
<1> QED BY <1>2, <1>3 DEF AdoptRead, n

LEMMA PlaceEffect ==
  ASSUME Inv, NEW w \in Workers, AdoptPlace(w)
  PROVE  /\ pc[w] = "place" /\ OnePc(w, pc'[w]) /\ job' = job
         /\ pc'[w] = Onward(w)
         /\ job[w].kind = "create" => pc'[w] = "discard"
         /\ job[w].kind = "revision" => pc'[w] = "revise"
         /\ job[w].kind = "rename" => pc'[w] = "send"
         /\ job[w].kind = "trash" => pc'[w] = "trash"
<1>1. pc[w] = "place" /\ job' = job /\ Goto(w, Onward(w)) /\ TypeOK BY AtWork DEF AdoptPlace
<1>2. /\ job[w].kind = "create" => Onward(w) = "discard"
      /\ job[w].kind = "revision" => Onward(w) = "revise"
      /\ job[w].kind = "rename" => Onward(w) = "send"
      /\ job[w].kind = "trash" => Onward(w) = "trash"
  BY DEF Onward
<1>3. job[w].kind \in {"create", "revision", "trash", "rename"} BY <1>1, KindAt
<1>4. Onward(w) \in WorkerPc BY <1>2, <1>3 DEF WorkerPc
<1>5. OnePc(w, Onward(w)) /\ pc'[w] = Onward(w) BY <1>1, <1>4, OneTypes DEF OnePc
<1> QED BY <1>1, <1>2, <1>5

(* The claim is given back. *)
LEMMA EndEffect ==
  ASSUME Inv, NEW w \in Workers, CreateEnd(w)
  PROVE  LET f == F(w) IN
         /\ pc[w] = "discard" /\ OnePc(w, "idle") /\ OneJob(w, NoJob) /\ OneRow(f, row'[f])
         /\ LET x == row'[f]  y == row[f] IN
              /\ x.kind = y.kind /\ x.name = y.name /\ x.blob = y.blob /\ x.at = y.at
              /\ x.to = y.to /\ x.parked = y.parked
              /\ x.owner = y.owner \/ (y.owner = w /\ x.owner = NoOne)
              /\ y.owner = w => x.owner = NoOne
<1> DEFINE f == F(w)
           x == [row[f] EXCEPT !.owner = NoOne]
<1>1. /\ pc[w] = "discard" /\ TypeOK /\ f \in Files /\ row[f] \in Row
      /\ OnePc(w, "idle") /\ OneJob(w, NoJob) /\ row' = Unowned(f, w)
  BY AtWork, IdleEffect DEF CreateEnd, Idle
<1>2. CASE row[f].owner = w
  <2>1. row' = [row EXCEPT ![f] = x] BY <1>1, <1>2 DEF Unowned
  <2>2. x \in Row BY <1>1, RowEdits
  <2>3. /\ x.kind = row[f].kind /\ x.name = row[f].name /\ x.blob = row[f].blob
        /\ x.at = row[f].at /\ x.to = row[f].to /\ x.parked = row[f].parked /\ x.owner = NoOne
    BY <1>1 DEF Row
  <2> HIDE DEF x
  <2>4. OneRow(f, x) /\ row'[f] = x BY <1>1, <2>1, <2>2, OneTypes DEF OneRow
  <2> QED BY <1>1, <1>2, <2>3, <2>4
<1>3. CASE row[f].owner # w
  <2>1. row' = row BY <1>1, <1>3 DEF Unowned
  <2>2. OneRow(f, row'[f]) /\ row'[f] = row[f] BY <1>1, <2>1 DEF OneRow, TypeOK
  <2> QED BY <1>1, <1>3, <2>2
<1> QED BY <1>2, <1>3

LEMMA ChangeEffect ==
  ASSUME TypeOK, NEW r \in 1 .. nnode, nnode' = nnode
  PROVE  /\ \A b \in 0 .. MaxBlob + 1 : node' = [node EXCEPT ![r].body = b] =>
              ChangedNode(r, b, node[r].trashed)
         /\ node' = [node EXCEPT ![r].trashed = TRUE] => ChangedNode(r, node[r].body, TRUE)
<1>1. node \in [1 .. nnode -> Node] /\ nnode \in Uid BY DEF TypeOK
<1>2. ASSUME NEW b \in 0 .. MaxBlob + 1, node' = [node EXCEPT ![r].body = b]
      PROVE  ChangedNode(r, b, node[r].trashed)
  <2> DEFINE x == [node[r] EXCEPT !.body = b]
  <2>1. node' = [node EXCEPT ![r] = x] BY <1>2
  <2>2. x \in Node /\ x.by = node[r].by /\ x.name = node[r].name /\ x.body = b
        /\ x.trashed = node[r].trashed
        /\ x.epoch = node[r].epoch /\ x.inline = node[r].inline
    BY <1>1 DEF Node
  <2> HIDE DEF x
  <2>3. /\ node' \in [1 .. nnode -> Node]
        /\ \A q \in 1 .. nnode : node'[q] = IF q = r THEN x ELSE node[q]
    BY <1>1, <2>1, <2>2
  <2> QED BY <1>1, <2>2, <2>3 DEF ChangedNode, DriveType
<1>3. ASSUME node' = [node EXCEPT ![r].trashed = TRUE]
      PROVE  ChangedNode(r, node[r].body, TRUE)
  <2> DEFINE x == [node[r] EXCEPT !.trashed = TRUE]
  <2>1. node' = [node EXCEPT ![r] = x] BY <1>3
  <2>2. x \in Node /\ x.by = node[r].by /\ x.name = node[r].name /\ x.body = node[r].body
        /\ x.trashed = TRUE
        /\ x.epoch = node[r].epoch /\ x.inline = node[r].inline
    BY <1>1 DEF Node
  <2> HIDE DEF x
  <2>3. /\ node' \in [1 .. nnode -> Node]
        /\ \A q \in 1 .. nnode : node'[q] = IF q = r THEN x ELSE node[q]
    BY <1>1, <2>1, <2>2
  <2> QED BY <1>1, <2>2, <2>3 DEF ChangedNode, DriveType
<1> QED BY <1>2, <1>3

(* A revision is uploaded, unless its row is another's by now. *)
LEMMA ReviseEffect ==
  ASSUME Inv, NEW w \in Workers, Revise(w)
  PROVE  LET f == F(w) IN
         /\ pc[w] = "revise" /\ job[w].kind = "revision"
         /\ OnePc(w, "idle") /\ OneJob(w, NoJob)
         /\ job[w].node = uid[f] /\ uid[f] \in 1 .. nnode
         /\ \/ /\ row[f].owner = w /\ row[f].kind = "revision" /\ row[f].blob = job[w].blob
               /\ ChangedNode(uid[f], job[w].blob, node[uid[f]].trashed)
               /\ OneRow(f, NoRow) /\ staged' = staged \ {job[w].blob}
            \/ UNCHANGED <<node, nnode, row, staged>>
<1> DEFINE f == F(w)
<1>1. /\ pc[w] = "revise" /\ TypeOK /\ f \in Files /\ job[w].kind = "revision"
      /\ OnePc(w, "idle") /\ OneJob(w, NoJob) /\ job[w] \in Job
      /\ job[w].node = uid[f] /\ uid[f] # Local /\ job[w].node \in 0 .. nnode
      /\ RevisionFits(w) /\ nnode' = nnode
  BY AtWork, KindAt, IdleEffect DEF Revise, Idle, JobFits
<1>2. uid[f] \in 1 .. nnode /\ job[w].blob \in 0 .. MaxBlob + 1
  <2>1. nnode \in Nat BY <1>1, Constants DEF TypeOK, Uid
  <2> QED BY <1>1, <2>1, Constants, Numbers, JobFields
<1>3. CASE row[f].owner = w
  BY <1>1, <1>3, Blanks, OneTypes, <1>2, ChangeEffect DEF Revise, RevisionFits
<1>4. CASE row[f].owner # w BY <1>1, <1>2, <1>4 DEF Revise
<1> QED BY <1>3, <1>4

(* A rename is done with. *)
LEMMA RenamedEffect ==
  ASSUME Inv, NEW w \in Workers, RenameRetire(w)
  PROVE  LET f == F(w) IN
         /\ pc[w] = "retire" /\ job[w].kind = "rename"
         /\ OnePc(w, "idle") /\ OneJob(w, NoJob)
         /\ OneRen(f, ren'[f]) /\ RenType(ren'[f])
         /\ \/ ren' = ren /\ (ren[f] = <<>> \/ ren[f][1].owner # w)
            \/ ren[f] # <<>> /\ ren[f][1].owner = w /\ ren'[f] = Tail(ren[f])
         /\ place' \in [Files -> Name \cup {NoName}]
         /\ \A g \in Files : (place[g] = NoName <=> place'[g] = NoName)
<1> DEFINE f == F(w)
<1>1. /\ pc[w] = "retire" /\ job[w].kind = "rename" /\ TypeOK /\ f \in Files
      /\ OnePc(w, "idle") /\ OneJob(w, NoJob)
  BY AtWork, IdleEffect DEF RenameRetire, Idle
<1>2. /\ place' \in [Files -> Name \cup {NoName}]
      /\ \A g \in Files : (place[g] = NoName <=> place'[g] = NoName)
  BY <1>1, NameFacts DEF TypeOK, RenameRetire
<1>3. CASE ren[f] # <<>> /\ ren[f][1].owner = w
  BY <1>1, <1>3, RenTail, OneTypes, <1>2 DEF RenameRetire, OneRen, RenType
<1>4. CASE ren[f] = <<>> \/ ren[f][1].owner # w
  <2>1. ren' = ren BY <1>1, <1>4 DEF RenameRetire
  <2>2. OneRen(f, ren'[f]) /\ RenType(ren'[f]) BY <1>1, <2>1, TypeParts DEF OneRen, DbType
  <2> QED BY <1>1, <1>2, <1>4, <2>1, <2>2
<1> QED BY <1>1, <1>2, <1>3, <1>4

(* The trash of a withdrawn create looks for a node. *)
LEMMA FindEffect ==
  ASSUME Inv, NEW w \in Workers, TrashFind(w)
  PROVE  /\ pc[w] = "find" /\ job[w].kind = "trash" /\ OnePc(w, pc'[w])
         /\ OneJob(w, job'[w]) /\ SameOp(job[w], job'[w])
         /\ job'[w].landed = job[w].landed /\ job'[w].sent = job[w].sent
         /\ job'[w].seen = job[w].seen
         /\ \/ pc'[w] = "trashed" /\ job' = job /\ hidden' = hidden
            \/ /\ pc'[w] = "trash"
               /\ \E n \in row[F(w)].to \cup {row[F(w)].name} : \E r \in Twin(w, n) :
                    r \in 1 .. nnode /\ job'[w].node = r /\ hidden' = hidden \cup {r}
<1>1. pc[w] = "find" /\ job[w].kind = "trash" /\ TypeOK /\ job[w] \in Job
  BY AtWork, KindAt DEF TrashFind
<1>2. CASE Goto(w, "trashed") /\ UNCHANGED <<job, hidden>>
  <2>1. OnePc(w, "trashed") /\ pc'[w] = "trashed" /\ OneJob(w, job'[w]) /\ job'[w] = job[w]
    BY <1>1, <1>2, OneTypes DEF OnePc, OneJob, WorkerPc, TypeOK
  <2> QED BY <1>1, <1>2, <2>1 DEF SameOp
<1>3. ASSUME NEW r \in WithdrawnTwin(w), job' = [job EXCEPT ![w].node = r],
             hidden' = hidden \cup {r}, Goto(w, "trash")
      PROVE  /\ OnePc(w, pc'[w]) /\ OneJob(w, job'[w]) /\ SameOp(job[w], job'[w])
             /\ job'[w].landed = job[w].landed /\ job'[w].sent = job[w].sent
             /\ job'[w].seen = job[w].seen
             /\ pc'[w] = "trash" /\ job'[w].node = r /\ r \in 1 .. nnode
             /\ \E n \in row[F(w)].to \cup {row[F(w)].name} : r \in Twin(w, n)
  <2> DEFINE j == [job[w] EXCEPT !.node = r]
  <2>1. job' = [job EXCEPT ![w] = j] BY <1>3
  <2>2. \E n \in row[F(w)].to \cup {row[F(w)].name} : r \in Twin(w, n) BY DEF WithdrawnTwin
  <2>3. r \in 1 .. nnode /\ r \in Uid
    BY <1>1, <2>2, Constants, SMTT(20) DEF Twin, Unclaimed, Live, TypeOK, Uid
  <2>4. j \in Job BY <1>1, <2>3, JobEdits
  <2>5. /\ SameOp(job[w], j) /\ j.node = r /\ j.sent = job[w].sent /\ j.landed = job[w].landed
        /\ j.seen = job[w].seen
    BY <1>1 DEF Job, SameOp
  <2> HIDE DEF j
  <2>6. OneJob(w, j) /\ job'[w] = j /\ OnePc(w, "trash") /\ pc'[w] = "trash"
    BY <1>1, <1>3, <2>1, <2>4, OneTypes, Zenon DEF OneJob, OnePc, WorkerPc
  <2> QED BY <2>2, <2>3, <2>5, <2>6
<1>4. \/ Goto(w, "trashed") /\ UNCHANGED <<job, hidden>>
      \/ \E r \in WithdrawnTwin(w) : /\ job' = [job EXCEPT ![w].node = r]
                                     /\ hidden' = hidden \cup {r} /\ Goto(w, "trash")
  BY DEF TrashFind
<1> QED BY <1>1, <1>2, <1>3, <1>4

(* The node is trashed, or it is not. *)
LEMMA TrashSendEffect ==
  ASSUME Inv, NEW w \in Workers, TrashSend(w)
  PROVE  /\ pc[w] = "trash" /\ job' = job /\ BoundType' /\ OnePc(w, pc'[w])
         /\ job[w].node \in 1 .. nnode
         /\ \/ pc'[w] = "trashed" /\ ChangedNode(job[w].node, node[job[w].node].body, TRUE)
            \/ pc'[w] = "fail" /\ UNCHANGED driveVars
<1>1. /\ pc[w] = "trash" /\ job' = job /\ TypeOK /\ nnode' = nnode
      /\ job[w].node \in 0 .. nnode /\ job[w].node # Local
  BY AtWork DEF TrashSend, JobFits
<1>2. job[w].node \in 1 .. nnode BY <1>1, Constants DEF TypeOK, Uid
<1>3. CASE /\ node' = [node EXCEPT ![job[w].node].trashed = TRUE]
           /\ Goto(w, "trashed") /\ UNCHANGED boundVars
  <2>1. OnePc(w, "trashed") /\ pc'[w] = "trashed" BY <1>1, <1>3, OneTypes DEF OnePc, WorkerPc
  <2>2. BoundType' BY <1>1, <1>3, TypeFrames
  <2> QED BY <1>1, <1>2, <1>3, <2>1, <2>2, ChangeEffect
<1>4. ASSUME NEW k, Fault(k), Goto(w, "fail"), node' = node
      PROVE  BoundType' /\ OnePc(w, pc'[w]) /\ pc'[w] = "fail" /\ UNCHANGED driveVars
  <2>1. OnePc(w, "fail") /\ pc'[w] = "fail" BY <1>1, <1>4, OneTypes DEF OnePc, WorkerPc
  <2>2. BoundType' BY <1>1, <1>4, BoundSteps
  <2> QED BY <1>1, <1>4, <2>1, <2>2 DEF driveVars
<1> QED BY <1>1, <1>2, <1>3, <1>4 DEF TrashSend

(* A restart: claims and what was in memory are gone. *)
LEMMA CrashEffect ==
  ASSUME TypeOK, Crash
  PROVE  /\ \A f \in Files :
              /\ row'[f] \in Row /\ row'[f].owner = NoOne
              /\ row'[f].kind = row[f].kind /\ row'[f].name = row[f].name
              /\ row'[f].blob = row[f].blob /\ row'[f].at = row[f].at
              /\ row'[f].to = row[f].to /\ row'[f].parked = row[f].parked
         /\ \A f \in Files :
              /\ RenType(ren'[f]) /\ Len(ren'[f]) = Len(ren[f])
              /\ ren'[f] = <<>> <=> ren[f] = <<>>
              /\ \A i \in 1 .. Len(ren[f]) : ren'[f][i].name = ren[f][i].name
         /\ ren' \in [Files -> Seq(Ren)] /\ row' \in [Files -> Row]
         /\ pc' = [w \in Workers |-> "idle"] /\ job' = [w \in Workers |-> NoJob]
<1> DEFINE rw(f) == [row[f] EXCEPT !.owner = NoOne]
           rn(f) == [i \in 1 .. Len(ren[f]) |-> [ren[f][i] EXCEPT !.owner = NoOne]]
<1>1. /\ row' = [f \in Files |-> rw(f)] /\ ren' = [f \in Files |-> rn(f)]
      /\ pc' = [w \in Workers |-> "idle"] /\ job' = [w \in Workers |-> NoJob]
  BY DEF Crash
<1>2. ASSUME NEW f \in Files
      PROVE  /\ rw(f) \in Row /\ rw(f).owner = NoOne
             /\ rw(f).kind = row[f].kind /\ rw(f).name = row[f].name
             /\ rw(f).blob = row[f].blob /\ rw(f).at = row[f].at
             /\ rw(f).to = row[f].to /\ rw(f).parked = row[f].parked
  <2>1. row[f] \in Row BY DEF TypeOK
  <2> QED BY <2>1 DEF Row
<1>3. ASSUME NEW f \in Files
      PROVE  /\ RenType(rn(f)) /\ Len(rn(f)) = Len(ren[f])
             /\ rn(f) = <<>> <=> ren[f] = <<>>
             /\ \A i \in 1 .. Len(ren[f]) : rn(f)[i].name = ren[f][i].name
  <2>1. ren[f] \in Seq(Ren) /\ Len(ren[f]) \in Nat /\ Len(ren[f]) <= 2 BY DEF TypeOK
  <2>2. \A x \in Ren : LET y == [x EXCEPT !.owner = NoOne] IN
          y \in Ren /\ y.name = x.name /\ y.owner = NoOne
    BY DEF Ren
  <2>3. \A i \in 1 .. Len(ren[f]) : ren[f][i] \in Ren BY <2>1
  <2>4. \A i \in 1 .. Len(ren[f]) : LET y == [ren[f][i] EXCEPT !.owner = NoOne] IN
          y \in Ren /\ y.name = ren[f][i].name /\ y.owner = NoOne
    BY <2>2, <2>3
  <2>5. rn(f) \in [1 .. Len(ren[f]) -> Ren] BY <2>4
  <2>6. rn(f) \in Seq(Ren) /\ Len(rn(f)) = Len(ren[f])
    <3>1. DOMAIN rn(f) = 1 .. Len(ren[f]) OBVIOUS
    <3> HIDE DEF rn
    <3> QED BY <2>1, <2>5, <3>1, IsASeq
  <2>7. \A i \in 1 .. Len(ren[f]) : rn(f)[i].name = ren[f][i].name /\ rn(f)[i].owner = NoOne
    BY <2>4
  <2> HIDE DEF rn
  <2>8. Len(rn(f)) = 2 => rn(f)[2].owner = NoOne BY <2>6, <2>7
  <2>9. rn(f) = <<>> <=> ren[f] = <<>> BY <2>1, <2>6, EmptySeq
  <2>10. Len(rn(f)) <= 2 BY <2>1, <2>6
  <2> QED BY <2>6, <2>7, <2>8, <2>9, <2>10 DEF RenType
<1> HIDE DEF rw, rn
<1>4. \A f \in Files : row'[f] = rw(f) /\ ren'[f] = rn(f) BY <1>1
<1>5. ren' \in [Files -> Seq(Ren)] /\ row' \in [Files -> Row] BY <1>1, <1>2, <1>3 DEF RenType
<1> QED BY <1>1, <1>2, <1>3, <1>4, <1>5

LEMMA CrashType ==
  ASSUME TypeOK, Crash
  PROVE  TypeOK'
<1>1. DbType'
  BY CrashEffect, TypeParts DEF Crash, RenType, DbType
<1>2. TreeType'
  <2>1. \A f \in Files : uid[f] \in Uid /\ row[f].at \in Uid /\ place[f] \in Name \cup {NoName}
    BY RowFields DEF TypeOK
  <2>2. treeUid' \in [Files -> Uid] BY <2>1, Numbers DEF Crash
  <2>3. place' \in [Files -> Name \cup {NoName}] BY <2>1 DEF Crash
  <2>4. hidden' \subseteq Uid BY <2>1 DEF Crash
  <2>5. open' \subseteq Files /\ unadopted' \subseteq Files BY DEF Crash
  <2> QED BY <2>2, <2>3, <2>4, <2>5 DEF TreeType
<1>3. CallType'
  <2>1. \A f \in Files : call[f] \in {"none", "minting", "idle", "renaming", "dropping", "gone"}
    BY DEF TypeOK
  <2>2. \A f \in Files : call'[f] \in {"none", "minting", "idle", "renaming", "dropping", "gone"}
    <3> TAKE f \in Files
    <3>1. call'[f] = CASE call[f] \in {"minting", "dropping"} -> "gone"
                       [] call[f] = "renaming" -> "idle" [] OTHER -> call[f]
      BY DEF Crash
    <3>2. CASE call[f] \in {"minting", "dropping"} BY <3>1, <3>2
    <3>3. CASE call[f] = "renaming" BY <3>1, <3>3
    <3>4. CASE call[f] \notin {"minting", "dropping", "renaming"} BY <2>1, <3>1, <3>4
    <3> QED BY <3>2, <3>3, <3>4
  <2>3. call' = [f \in Files |-> call'[f]] BY DEF Crash
  <2>4. target' \in [Files -> Name \cup {NoName}] BY DEF Crash
  <2>5. call' \in [Files -> {"none", "minting", "idle", "renaming", "dropping", "gone"}]
    BY <2>2, <2>3
  <2> QED BY <2>4, <2>5 DEF CallType
<1>4. DrainType' BY Blanks DEF Crash, DrainType, WorkerPc
<1>5. SweepType' /\ ToldType' BY TypeParts DEF Crash, SweepType, ToldType
<1>6. BoundType' BY TypeParts, Constants DEF Crash, BoundType
<1>7. DriveType' BY TypeFrames DEF Crash
<1> QED BY <1>1, <1>2, <1>3, <1>4, <1>5, <1>6, <1>7, TypePartsNext

(* ------------ Types: the drain ------------ *)
LEMMA ClaimType ==
  ASSUME Inv, NEW w \in Workers, NEW f \in Files, ClaimRow(w, f) \/ ClaimRename(w, f)
  PROVE  TypeOK'
<1> USE DEF Inv
<1>1. CASE ClaimRow(w, f)
  <2>1. UNCHANGED <<ren, uid, listed, staged, treeVars, callVars, sweepVars, driveVars,
                    toldVars, boundVars>>
    BY <1>1 DEF ClaimRow
  <2>2. TypeOK /\ staged' \subseteq Blob BY <2>1, TypeParts DEF DbType
  <2>3. OneRow(f, row'[f]) /\ OneJob(w, job'[w]) /\ OnePc(w, pc'[w])
    BY <1>1, <2>2, ClaimRowEffect, ClaimRowWay
  <2>4. DbType' BY <2>1, <2>2, <2>3, OneRowType
  <2>5. DrainType' BY <2>3, OneJobType
  <2> QED BY <2>1, <2>2, <2>4, <2>5, TypeFrames, TypePartsNext
<1>2. CASE ClaimRename(w, f)
  <2>1. UNCHANGED <<row, uid, listed, staged, treeVars, callVars, sweepVars, driveVars,
                    toldVars>>
    BY <1>2 DEF ClaimRename
  <2>0. BoundType' BY <1>2, CrossedType DEF ClaimRename
  <2>2. OneRen(f, ren'[f]) /\ RenType(ren'[f]) /\ DrainType' BY <1>2, ClaimRenameEffect, OneJobType
  <2>3. \A g \in Files : RenType(ren'[g]) BY <2>2, TypeParts DEF OneRen, DbType
  <2>4. \A g \in Files : RenType(ren[g])' BY <2>3 DEF RenType
  <2>5. DbType' BY <2>1, <2>2, <2>4, TypeParts DEF DbType, OneRen
  <2> QED BY <2>0, <2>1, <2>2, <2>5, TypeFrames, TypePartsNext
<1> QED BY <1>1, <1>2

(* What a step of the drain does to the database. *)
LEMMA OneDbType ==
  ASSUME TypeOK, NEW f \in Files,
         row' = row \/ OneRow(f, row'[f]),
         ren' = ren \/ (OneRen(f, ren'[f]) /\ RenType(ren'[f])),
         uid' = uid \/ \E r \in Uid : uid' = [uid EXCEPT ![f] = r],
         listed' \subseteq listed, staged' \subseteq staged
  PROVE  DbType'
<1>1. \A g \in Files : RenType(ren'[g]) BY TypeParts DEF OneRen, DbType
<1>2. \A g \in Files : RenType(ren[g])' BY <1>1 DEF RenType
<1>3. row' \in [Files -> Row] /\ ren' \in [Files -> Seq(Ren)] /\ uid' \in [Files -> Uid]
  BY TypeParts DEF OneRow, OneRen, DbType
<1> QED BY <1>2, <1>3, TypeParts DEF DbType

LEMMA StepType ==
  ASSUME Inv, NEW w \in Workers, Step(w)
  PROVE  TypeOK'
<1> DEFINE f == F(w)
<1>0. TypeOK BY DEF Inv
<1>1. CASE CreateLook(w) \/ CreateClash(w)
  <2>1. /\ UNCHANGED <<dbVars, treeVars, callVars, sweepVars, driveVars, toldVars, boundVars>>
        /\ OnePc(w, pc'[w]) /\ (job' = job \/ OneJob(w, job'[w]))
    BY <1>0, <1>1, LookEffect, AdoptEffect
  <2>2. DrainType' BY <1>0, <2>1, OneJobType, OnePcType
  <2> QED BY <1>0, <2>1, <2>2, TypeFrames, TypePartsNext
<1>2. CASE CreateNote(w)
  BY <1>2, NoteEffect, AtWork, <1>0, OneDbType, OnePcType, TypeFrames, TypePartsNext DEF CreateNote
<1>3. CASE RenameGone(w)
  <2>1. OnePc(w, "retire") BY <1>0, <1>3, OneTypes DEF RenameGone, WorkerPc
  <2> QED BY <1>0, <1>3, <2>1, OnePcType, TypeFrames, TypePartsNext DEF RenameGone
<1>4. CASE Send(w)
  <2>1. pc[w] = "send" /\ job[w].kind \in {"create", "rename"} BY <1>4, KindAt, SendEffect
  <2>2. DriveType'
    BY <1>0, <1>4, <2>1, SendEffect, AppliedEffect, TypeFrames DEF NewNode, RenamedNode
  <2>3. DrainType' BY <1>0, <1>4, <2>1, SendEffect, TakenEffect, OneJobType, OnePcType
  <2> QED BY <1>0, <1>4, <2>2, <2>3, SendEffect, TypeFrames, TypePartsNext
<1>5. CASE CheckHeld(w)
  <2>1. DrainType' BY <1>0, <1>5, HeldEffect, OneJobType
  <2> QED BY <1>0, <1>5, <2>1, TypeFrames, TypePartsNext DEF CheckHeld
<1>6. CASE Fail(w)
  <2>1. f \in Files /\ OneRow(f, row'[f]) /\ OneRen(f, ren'[f]) /\ RenType(ren'[f]) /\ DrainType'
    BY <1>6, FailEffect, AtWork, OneJobType
  <2>2. UNCHANGED <<uid, listed, staged, treeVars, callVars, sweepVars, driveVars, toldVars,
                    boundVars>>
    BY <1>6 DEF Fail
  <2>3. DbType' BY <1>0, <2>1, <2>2, OneDbType
  <2> QED BY <1>0, <2>1, <2>2, <2>3, TypeFrames, TypePartsNext
<1>7. CASE CreateRetire(w)
  <2>1. /\ f \in Files /\ OneRow(f, row'[f]) /\ OnePc(w, pc'[w]) /\ job' = job
        /\ ren' = ren \/ (OneRen(f, ren'[f]) /\ RenType(ren'[f]))
        /\ uid' = uid \/ uid' = [uid EXCEPT ![f] = job[w].node]
        /\ hidden' = hidden \/ hidden' = hidden \cup {job[w].node}
        /\ job[w].node \in Uid
    BY <1>7, RetireEffect, AtWork, JobFields
  <2>2. UNCHANGED <<listed, staged, place, treeUid, open, unadopted, callVars, sweepVars,
                    driveVars, toldVars, boundVars>>
    BY <1>7 DEF CreateRetire
  <2>3. DbType' /\ DrainType' BY <1>0, <2>1, <2>2, OneDbType, OnePcType
  <2>4. TreeType' BY <1>0, <2>1, <2>2, TypeParts DEF TreeType
  <2> QED BY <1>0, <2>2, <2>3, <2>4, TypeFrames, TypePartsNext
<1>8. CASE Repoint(w) \/ AdoptPlace(w)
  <2>1. OnePc(w, pc'[w]) /\ job' = job /\ pc[w] # "idle"
    <3>1. CASE Repoint(w) BY <1>0, <3>1, OneTypes DEF Repoint, OnePc, WorkerPc
    <3>2. CASE AdoptPlace(w) BY <3>2, PlaceEffect
    <3> QED BY <1>8, <3>1, <3>2
  <2>2. f \in Files /\ job[w].node \in Uid /\ job[w].seen \in Name \cup {NoName}
    BY <2>1, AtWork, JobFields
  <2>3. UNCHANGED <<dbVars, open, hidden, callVars, sweepVars, driveVars, toldVars, boundVars>>
    BY <1>8 DEF Repoint, AdoptPlace
  <2>4. TreeType'
    BY <1>0, <1>8, <2>2, <2>3, TypeParts DEF Repoint, AdoptPlace, TypeOK, TreeType
  <2>5. DrainType' BY <1>0, <2>1, OnePcType
  <2> QED BY <1>0, <2>3, <2>4, <2>5, TypeFrames, TypePartsNext
<1>9. CASE AdoptAsk(w)
  <2>1. DrainType' BY <1>0, <1>9, AskEffect, OneJobType
  <2> QED BY <1>0, <1>9, <2>1, TypeFrames, TypePartsNext DEF AdoptAsk
<1>10. CASE AdoptRead(w)
  BY <1>10, ReadEffect, AtWork, OneJobType, <1>0, TypeParts, TypeFrames, TypePartsNext DEF
    AdoptRead, TreeType
<1>11. CASE CreateEnd(w)
  BY <1>11, EndEffect, AtWork, OneJobType, <1>0, OneDbType, TypeFrames, TypePartsNext DEF CreateEnd
<1>12. CASE Revise(w)
  BY <1>0, <1>12, ReviseEffect, AtWork, OneJobType, TypeFrames, OneDbType, TypePartsNext DEF
    OneRow, ChangedNode, driveVars, Revise
<1>13. CASE RenameRetire(w)
  BY <1>13, RenamedEffect, AtWork, OneJobType, <1>0, OneDbType, TypeParts, TypeFrames,
    TypePartsNext DEF RenameRetire, TreeType
<1>14. CASE TrashFind(w)
  <2>1. DrainType' BY <1>14, FindEffect, OneJobType
  <2>2. hidden' \subseteq Uid
    <3>1. hidden' = hidden \/ \E r \in 1 .. nnode : hidden' = hidden \cup {r} BY <1>14, FindEffect
    <3>2. hidden \subseteq Uid /\ nnode \in Uid /\ \A r \in 1 .. nnode : r \in Uid
      BY <1>0, Constants DEF TypeOK, Uid
    <3> QED BY <3>1, <3>2
  <2>3. UNCHANGED <<dbVars, place, treeUid, open, unadopted, callVars, sweepVars, driveVars,
                    toldVars>>
    BY <1>14 DEF TrashFind
  <2>4. TreeType' BY <1>0, <2>2, <2>3, TypeParts DEF TreeType
  <2>5. BoundType' BY <1>0, <1>14, CrossedType DEF TrashFind
  <2> QED BY <1>0, <2>1, <2>3, <2>4, <2>5, TypeFrames, TypePartsNext
<1>15. CASE TrashSend(w)
  <2>1. DrainType' /\ BoundType' /\ DriveType'
    BY <1>0, <1>15, TrashSendEffect, OnePcType, TypeFrames DEF ChangedNode
  <2> QED BY <1>0, <1>15, <2>1, TypeFrames, TypePartsNext DEF TrashSend
<1>16. CASE TrashRetire(w)
  <2>1. pc[w] = "trashed" /\ f \in Files /\ OneRow(f, NoRow) /\ DrainType'
    <3>1. pc[w] = "trashed" /\ f \in Files /\ row' = [row EXCEPT ![f] = NoRow]
      BY <1>16, AtWork DEF TrashRetire
    <3> QED BY <1>0, <1>16, <3>1, Blanks, OneTypes, IdleEffect, OneJobType DEF TrashRetire, Idle
  <2>2. /\ UNCHANGED <<ren, uid, treeVars, callVars, sweepVars, driveVars, toldVars, boundVars>>
        /\ listed' \subseteq listed /\ staged' \subseteq staged
    BY <1>16 DEF TrashRetire
  <2>3. DbType' BY <1>0, <2>1, <2>2, OneDbType DEF OneRow
  <2> QED BY <1>0, <2>1, <2>2, <2>3, TypeFrames, TypePartsNext
<1> QED BY <1>1, <1>2, <1>3, <1>4, <1>5, <1>6, <1>7, <1>8, <1>9, <1>10, <1>11, <1>12, <1>13, <1>14,
     <1>15, <1>16 DEF Step

LEMMA NextType == Inv /\ [Next]_vars => TypeOK'
<1> SUFFICES ASSUME Inv, [Next]_vars PROVE TypeOK' OBVIOUS
<1>0. TypeOK BY DEF Inv
<1>1. CASE UserNext
  BY <1>0, <1>1, MintType, OpenType, ReleaseType, RenameType, DeleteType DEF UserNext
<1>2. CASE SweepNext BY <1>0, <1>2, SweepStepType DEF SweepNext
<1>3. CASE \E w \in Workers : Step(w) BY <1>3, StepType
<1>4. CASE \E w \in Workers, f \in Files : ClaimRow(w, f) \/ ClaimRename(w, f) BY <1>4, ClaimType
<1>5. CASE \E n \in Names : ForeignCreate(n) BY <1>0, <1>5, ForeignType
<1>6. CASE Crash BY <1>0, <1>6, CrashType
<1>7. CASE UNCHANGED vars BY <1>0, <1>7, TypeFrames, TypePartsNext DEF vars
<1> QED BY <1>1, <1>2, <1>3, <1>4, <1>5, <1>6, <1>7 DEF Next
(* ------------ The invariant: what a step leaves alone ------------ *)

LEMMA InvParts ==
  /\ Inv <=> /\ TypeOK /\ NotTheirs
             /\ \A f \in Files : FileFits(f)
             /\ \A w \in Workers : IF pc[w] = "idle" THEN job[w] = NoJob ELSE AttemptFits(w)
             /\ \A w, v \in Workers : Creator(w) /\ Creator(v) /\ F(w) = F(v) => w = v
  /\ Inv' <=> /\ TypeOK' /\ NotTheirs'
              /\ \A f \in Files : FileFits(f)'
              /\ \A w \in Workers :
                   IF pc'[w] = "idle" THEN job'[w] = NoJob ELSE AttemptFits(w)'
              /\ \A w, v \in Workers : Creator(w)' /\ Creator(v)' /\ F(w)' = F(v)' => w = v
BY DEF Inv, AttemptFits, OneCreator, Creator, F

LEMMA MoreNodes ==
  ASSUME More
  PROVE  \A r \in 0 .. nnode : r \in 0 .. nnode'
BY DEF More

LEMMA FileFrame ==
  ASSUME NEW f, FileFits(f), FileSame(f), More
  PROVE  FileFits(f)'
<1>1. RowFits(f)' BY MoreNodes DEF FileFits, RowFits, FileSame, Alive
<1>2. RenFits(f)' BY DEF FileFits, RenFits, FileSame
<1>3. CallFits(f)' BY DEF FileFits, CallFits, FileSame, Alive
<1> QED BY <1>1, <1>2, <1>3, MoreNodes DEF FileFits, FileSame

LEMMA AttemptFrame ==
  ASSUME NEW v, AttemptFits(v), Spared(v), More
  PROVE  AttemptFits(v)'
<1> DEFINE f == F(v)
<1>0. F(v)' = f BY DEF F, Spared
<1>1. JobFits(v)' BY <1>0, MoreNodes DEF AttemptFits, JobFits, Spared
<1>2. CreateFits(v)' BY <1>0 DEF AttemptFits, CreateFits, Spared
<1>3. RevisionFits(v)' BY <1>0 DEF AttemptFits, RevisionFits, Spared
<1>4. RenameFits(v)' BY <1>0 DEF AttemptFits, RenameFits, Spared
<1> QED BY <1>1, <1>2, <1>3, <1>4 DEF AttemptFits

(* An attempt at another file, or at one a step does nothing to. *)
LEMMA SparedFile ==
  ASSUME Inv, NEW v \in Workers, pc[v] # "idle", pc'[v] = pc[v], job'[v] = job[v],
         FileSame(F(v))
  PROVE  Spared(v)
BY AtWork DEF F, Spared, FileSame, Alive, JobFits

(* A create that is queued has no attempt at its file but its own. *)
LEMMA CreateAlone ==
  ASSUME Inv, NEW v \in Workers, pc[v] # "idle", row[F(v)].kind = "create"
  PROVE  row[F(v)].owner = v /\ job[v].kind = "create" /\ pc[v] \in Early \cup {"fail"}
BY AtWork DEF JobFits

LEMMA KnownNodes ==
  ASSUME Inv
  PROVE  /\ Known(Local)
         /\ \A f \in Files : Known(uid[f]) /\ Known(row[f].at)
         /\ \A w \in Workers : Known(job[w].node) /\ job[w].node \in 0 .. nnode
<1>1. 0 \in 0 .. nnode BY Constants DEF Inv, TypeOK, Uid
<1>2. Known(Local) BY <1>1, Constants DEF Known, Ours
<1>3. \A f \in Files : Known(uid[f]) /\ Known(row[f].at)
  BY DEF Inv, FileFits, RowFits, NotTheirs, Known
<1>4. \A w \in Workers : job[w].node \in 0 .. nnode BY <1>1, Constants DEF Inv, JobFits, NoJob
<1>5. \A w \in Workers : Known(job[w].node) BY <1>4 DEF Inv, NotTheirs, Known
<1> QED BY <1>2, <1>3, <1>4, <1>5

LEMMA KnownStay ==
  ASSUME DriveKept, NEW r, Known(r)
  PROVE  r \in 0 .. nnode' /\ (r # Local => node'[r].by # Other)
<1>1. nnode \in Nat /\ nnode' \in Nat /\ nnode <= nnode' /\ Local = 0
  BY Constants DEF DriveKept, More
<1>2. CASE r \in 0 .. nnode /\ Ours(r)
  <2>1. r \in 0 .. nnode' /\ (r # 0 => r \in 1 .. nnode) BY <1>1, <1>2
  <2> QED BY <1>1, <1>2, <2>1 DEF DriveKept, Ours
<1>3. CASE r \in nnode + 1 .. nnode' /\ node'[r].by # Other
  <2>1. r \in 0 .. nnode' BY <1>1, <1>3
  <2> QED BY <1>3, <2>1
<1> QED BY <1>2, <1>3 DEF Known

LEMMA OursFrame ==
  ASSUME Inv, DriveKept, \A f \in Files : Known(uid'[f]) /\ Known(row'[f].at),
         \A w \in Workers : Known(job'[w].node)
  PROVE  NotTheirs'
<1>1. \A r \in 1 .. nnode' : r \in 1 .. nnode \/ r \in nnode + 1 .. nnode' BY DEF DriveKept, More
<1>2. \A r \in 1 .. nnode' : node'[r].by = Other => node'[r].body = Theirs /\ ~node'[r].trashed
  BY <1>1 DEF DriveKept, Inv, NotTheirs
<1> QED BY <1>2, KnownStay DEF NotTheirs, Ours

(* The steps by what they do on Drive. *)
LEMMA DriveSteps ==
  ASSUME Inv
  PROVE  /\ UNCHANGED driveVars => DriveKept
         /\ \A n, b, who : NewNode(n, b, who) /\ (who = Other => b = Theirs) => DriveKept
         /\ \A r, n : RenamedNode(r, n) => DriveKept
         /\ \A r, b, t : ChangedNode(r, b, t) /\ r \in 1 .. nnode /\ Ours(r) => DriveKept
<1>1. nnode \in Nat /\ Local = 0 BY Constants DEF Inv, TypeOK, Uid
<1>2. nnode' = nnode => \A r \in nnode + 1 .. nnode' : FALSE BY <1>1
<1>3. nnode' = nnode => More BY <1>1 DEF More
<1>4. UNCHANGED driveVars => DriveKept BY <1>2, <1>3 DEF DriveKept, driveVars
<1>5. ASSUME NEW n, NEW b, NEW who, NewNode(n, b, who), who = Other => b = Theirs
      PROVE  DriveKept
  <2>1. More /\ \A r \in nnode + 1 .. nnode' : r = nnode + 1 BY <1>1, <1>5 DEF NewNode, More
  <2> QED BY <1>5, <2>1 DEF NewNode, DriveKept
<1>6. ASSUME NEW r, NEW n, RenamedNode(r, n) PROVE DriveKept
  BY <1>2, <1>3, <1>6 DEF RenamedNode, DriveKept
<1>7. ASSUME NEW r, NEW b, NEW t, ChangedNode(r, b, t), r \in 1 .. nnode, Ours(r)
      PROVE  DriveKept
  <2>1. r # 0 /\ node[r].by # Other BY <1>1, <1>7 DEF Ours
  <2> QED BY <1>2, <1>3, <1>7, <2>1 DEF ChangedNode, DriveKept
<1> QED BY <1>4, <1>5, <1>6, <1>7

(* A step of the user or of the sweep, on one file. *)
LEMMA FileStep ==
  ASSUME Inv, TypeOK', UNCHANGED drainVars, DriveKept, NEW f \in Files,
         \A g \in Files : g # f => FileSame(g),
         FileFits(f)', Known(uid'[f]), Known(row'[f].at),
         \A v \in Workers : pc[v] # "idle" /\ F(v) = f => Spared(v)
  PROVE  Inv'
<1>1. pc' = pc /\ job' = job /\ More BY DEF drainVars, DriveKept
<1>2. \A g \in Files : FileFits(g)' BY <1>1, FileFrame DEF Inv
<1>3. ASSUME NEW v \in Workers
      PROVE  IF pc'[v] = "idle" THEN job'[v] = NoJob ELSE AttemptFits(v)'
  <2>1. CASE pc[v] = "idle" BY <1>1, <2>1 DEF Inv
  <2>2. CASE pc[v] # "idle"
    <3>1. Spared(v) BY <1>1, <2>2, AtWork, SparedFile
    <3> QED BY <1>1, <2>2, <3>1, AttemptFrame, InvParts
  <2> QED BY <2>1, <2>2
<1>4. \A w, v \in Workers : Creator(w)' /\ Creator(v)' /\ F(w)' = F(v)' => w = v
  BY <1>1, InvParts DEF Creator, F
<1>5. NotTheirs' BY <1>1, OursFrame, KnownNodes DEF FileSame
<1> QED BY <1>2, <1>3, <1>4, <1>5, InvParts

(* A step of a worker, on one file. *)
LEMMA WorkerStep ==
  ASSUME Inv, TypeOK', DriveKept, NEW w \in Workers, NEW f \in Files,
         \A v \in Workers : v # w => pc'[v] = pc[v] /\ job'[v] = job[v],
         \A g \in Files : g # f => FileSame(g),
         FileFits(f)', Known(uid'[f]), Known(row'[f].at), Known(job'[w].node),
         \A v \in Workers : v # w /\ pc[v] # "idle" /\ F(v) = f => Spared(v),
         IF pc'[w] = "idle" THEN job'[w] = NoJob ELSE AttemptFits(w)',
         Creator(w)' => \A v \in Workers : v # w /\ Creator(v) => F(v) # F(w)'
  PROVE  Inv'
<1>1. More BY DEF DriveKept
<1>2. \A g \in Files : FileFits(g)' BY <1>1, FileFrame DEF Inv
<1>3. ASSUME NEW v \in Workers, v # w
      PROVE  IF pc'[v] = "idle" THEN job'[v] = NoJob ELSE AttemptFits(v)'
  <2>1. CASE pc[v] = "idle" BY <1>3, <2>1 DEF Inv
  <2>2. CASE pc[v] # "idle"
    <3>1. Spared(v) BY <1>3, <2>2, AtWork, SparedFile
    <3> QED BY <1>1, <1>3, <2>2, <3>1, AttemptFrame, InvParts
  <2> QED BY <2>1, <2>2
<1>4. \A v \in Workers : v # w => (Creator(v)' <=> Creator(v)) /\ F(v)' = F(v) BY DEF Creator, F
<1>5. \A u, v \in Workers : Creator(u)' /\ Creator(v)' /\ F(u)' = F(v)' => u = v BY <1>4, InvParts
<1>6. NotTheirs' BY OursFrame, KnownNodes DEF FileSame
<1> QED BY <1>2, <1>3, <1>5, <1>6, InvParts

(* ------------ The invariant: the user and the sweep ------------ *)
(* What a step on one file leaves of the other files.                      *)
LEMMA Others ==
  ASSUME NEW f \in Files, NEW g \in Files, g # f,
         row' = row \/ OneRow(f, row'[f]),
         ren' = ren \/ OneRen(f, ren'[f]),
         uid'[g] = uid[g], call'[g] = call[g], age'[g] = age[g], verdict'[g] = verdict[g],
         g \in named' => g \in named, g \in listed => g \in listed',
         g \in unadopted' => g \in unadopted
  PROVE  FileSame(g)
BY DEF OneRow, OneRen, FileSame

LEMMA MintDrive ==
  ASSUME TypeOK, NEW f \in Files, NEW n \in Names, Mint(f, n) \/ MintUnanswered(f, n)
  PROVE  UNCHANGED driveVars \/ (NewNode(n, Empty, f) /\ n \notin Transient /\ "inline" \in Faults)
<1>1. CASE Mint(f, n) BY <1>1 DEF Mint
<1>2. CASE MintUnanswered(f, n)
  <2>1. n \in Name /\ Empty \in 0 .. MaxBlob + 1 /\ nnode < MaxNode /\ nnode' = nnode + 1
    BY <1>2, NameFacts, Constants DEF MintUnanswered
  <2>2. NewNode(n, Empty, f) BY <1>2, <2>1, MadeType DEF MintUnanswered, NewNode
  <2> QED BY <1>2, <2>2 DEF MintUnanswered, Fault
<1> QED BY <1>1, <1>2

LEMMA MintInv ==
  ASSUME Inv, TypeOK', NEW f \in Files, NEW n \in Names, Mint(f, n) \/ MintUnanswered(f, n)
  PROVE  Inv'
<1>0. TypeOK /\ FileFits(f) BY DEF Inv
<1>1. QueueLocalNode(f, n) /\ UNCHANGED drainVars BY DEF Mint, MintUnanswered, QueueLocalNode
<1>2. DriveKept BY <1>0, MintDrive, DriveSteps, Constants
<1>3. OneRow(f, row'[f]) /\ row'[f].kind = "create" /\ row'[f].name = n /\ row'[f].at = Local
  BY <1>0, <1>1, QueueEffect DEF OneRow
<1>4. /\ call[f] = "none" /\ call' = [call EXCEPT ![f] = "minting"]
      /\ ren' = ren /\ uid' = uid /\ listed' = listed /\ unadopted' = unadopted
      /\ age' = age /\ verdict' = verdict
      /\ named' = IF n \in Transient THEN named ELSE named \cup {f}
  BY <1>1 DEF QueueLocalNode, treeVars, sweepVars
<1>5. uid[f] = Local /\ ren[f] = <<>> /\ age[f] = "new" /\ verdict[f] # "drop"
  BY <1>0, <1>4 DEF FileFits, CallFits, RenFits
<1>6. call'[f] = "minting" /\ \A g \in Files : g # f => call'[g] = call[g] BY <1>0, <1>4 DEF TypeOK
<1>7. \A g \in Files : g # f => FileSame(g) BY <1>3, <1>4, <1>6, Others
<1>8. Known(Local) /\ More BY <1>2, KnownNodes DEF DriveKept
<1>9. FileFits(f)'
  BY <1>2, <1>3, <1>4, <1>5, <1>8, KnownStay, Numbers, <1>6, <1>0 DEF RowFits, RenFits, CallFits,
    Alive, FileFits
<1>10. \A v \in Workers : pc[v] # "idle" /\ F(v) = f => Spared(v) BY <1>4, AtWork DEF JobFits
<1> QED BY <1>1, <1>2, <1>3, <1>4, <1>5, <1>7, <1>8, <1>9, <1>10, FileStep

LEMMA OpenInv ==
  ASSUME Inv, TypeOK', NEW f \in Files, Intern(f) \/ Open(f) \/ Close(f) \/ Walk(f)
  PROVE  Inv'
<1>0. TypeOK /\ FileFits(f) BY DEF Inv
<1>1. /\ UNCHANGED <<drainVars, driveVars, sweepVars, toldVars>>
      /\ row' = row /\ ren' = ren /\ uid' = uid /\ unadopted' = unadopted
      /\ \/ call' = call /\ listed' = listed
         \/ call[f] = "minting" /\ call' = [call EXCEPT ![f] = "idle"] /\ listed' = listed \cup {f}
  BY DEF Intern, Open, Close, Walk, dbVars, callVars
<1>2. DriveKept /\ More BY <1>1, DriveSteps DEF DriveKept
<1>3. /\ \A g \in Files : g # f => call'[g] = call[g]
      /\ age' = age /\ verdict' = verdict /\ named' = named
      /\ listed \subseteq listed'
      /\ call'[f] = call[f] \/ (call[f] = "minting" /\ call'[f] = "idle" /\ f \in listed')
  BY <1>0, <1>1 DEF TypeOK, sweepVars, toldVars
<1>4. \A g \in Files : g # f => FileSame(g) BY <1>1, <1>3 DEF FileSame
<1>5. FileFits(f)'
  <2>1. CASE call'[f] = call[f] BY <1>0, <1>1, <1>2, <1>3, <2>1, FileFrame DEF FileSame
  <2>2. CASE call[f] = "minting" /\ call'[f] = "idle" /\ f \in listed'
    BY <1>0, <1>1, <1>3, <2>2, <1>2, MoreNodes DEF FileFits, CallFits, Alive, RowFits, RenFits
  <2> QED BY <1>3, <2>1, <2>2
<1>6. ASSUME NEW v \in Workers, pc[v] # "idle", F(v) = f PROVE Spared(v)
  <2>1. pc'[v] = pc[v] /\ job'[v] = job[v] /\ call[f] # "none"
    BY <1>1, <1>6, AtWork DEF drainVars, JobFits
  <2> QED BY <1>1, <1>3, <1>6, <2>1 DEF F, Spared, Alive
<1> QED BY <1>1, <1>2, <1>4, <1>5, <1>6, KnownNodes, FileStep

LEMMA ReleaseInv ==
  ASSUME Inv, TypeOK', NEW f \in Files, Release(f)
  PROVE  Inv'
<1> DEFINE b == nblob + 1
<1>0. TypeOK /\ FileFits(f) /\ call[f] = "idle" /\ f \in listed
  BY DEF Inv, Release, FileFits, CallFits
<1>1. b \in Blob BY <1>0, Constants DEF TypeOK, Release, Blob
<1>2. /\ row' = [row EXCEPT ![f] = Written(f, b)]
      /\ UNCHANGED <<drainVars, driveVars, sweepVars>>
      /\ ren' = ren /\ uid' = uid /\ unadopted' = unadopted /\ call' = call /\ listed' = listed
      /\ age' = age /\ verdict' = verdict /\ named' = named
  BY DEF Release, callVars, sweepVars
<1> HIDE DEF b
<1>3. /\ OneRow(f, row'[f])
      /\ row[f].kind = "create" =>
           /\ row'[f].kind = "create" /\ row'[f].owner = row[f].owner
           /\ row'[f].name = row[f].name /\ row'[f].at = row[f].at
      /\ row[f].kind # "create" =>
           row'[f].kind = "revision" /\ row'[f].owner = NoOne /\ row'[f].at = uid[f]
  BY <1>0, <1>1, <1>2, WrittenEffect DEF OneRow
<1>4. DriveKept /\ More BY <1>2, DriveSteps DEF DriveKept
<1>5. \A g \in Files : g # f => FileSame(g) BY <1>2, <1>3, Others
<1>6. Alive(f) /\ (row[f].kind # "create" => uid[f] # Local) BY <1>0 DEF FileFits, CallFits, Alive
<1>7. FileFits(f)'
  BY <1>0, <1>2, <1>3, <1>4, <1>6, MoreNodes DEF FileFits, RowFits, RenFits, CallFits, Alive
<1>8. ASSUME NEW v \in Workers, pc[v] # "idle", F(v) = f PROVE Spared(v)
  BY <1>0, <1>2, Constants, <1>8, CreateAlone, <1>3 DEF drainVars, F, Spared, Alive
<1>9. Known(uid'[f]) /\ Known(row'[f].at) BY <1>2, <1>3, KnownNodes
<1> QED BY <1>2, <1>4, <1>5, <1>7, <1>8, <1>9, FileStep

LEMMA RenameInv ==
  ASSUME Inv, TypeOK', NEW f \in Files,
         RenameEnd(f) \/ \E n \in Names : RenameStart(f, n)
  PROVE  Inv'
<1>0. /\ TypeOK /\ FileFits(f) /\ call[f] \in {"idle", "renaming"} /\ f \in listed
      /\ Alive(f) /\ (row[f].kind # "create" => uid[f] # Local)
  BY DEF Inv, RenameStart, RenameEnd, FileFits, CallFits, Alive
<1>1. /\ UNCHANGED <<drainVars, driveVars, sweepVars>>
      /\ uid' = uid /\ unadopted' = unadopted /\ listed' = listed /\ age' = age
      /\ verdict' = verdict
      /\ \E c \in {"idle", "renaming"} : call' = [call EXCEPT ![f] = c]
      /\ named' \in {named, named \cup {f}}
  BY DEF RenameStart, RenameEnd, treeVars, sweepVars, toldVars
<1>2. call'[f] \in {"idle", "renaming"} /\ \A g \in Files : g # f => call'[g] = call[g]
  BY <1>0, <1>1 DEF TypeOK
<1>3. DriveKept /\ More BY <1>1, DriveSteps DEF DriveKept
<1>4. /\ row' = row \/ OneRow(f, row'[f])
      /\ row'[f].kind = row[f].kind /\ row'[f].owner = row[f].owner /\ row'[f].at = row[f].at
      /\ row'[f].blob = row[f].blob
      /\ row[f].kind = "create" => row'[f].name \in Names
      /\ \/ ren' = ren
         \/ /\ OneRen(f, ren'[f]) /\ row[f].kind # "create"
            /\ ren[f] # <<>> /\ ren[f][1].owner # NoOne =>
                 ren'[f] # <<>> /\ ren'[f][1] = ren[f][1]
            /\ \A i \in 1 .. Len(ren'[f]) : ren'[f][i].name \in Names
  <2>1. ASSUME NEW n \in Names, RenameStart(f, n) PROVE <1>4!:
    <3>1. place[f] # NoName /\ Retarget(f, n) BY <2>1 DEF RenameStart
    <3>2. CASE row[f].kind = "create" BY <1>0, <3>1, <3>2, RetargetEffect DEF OneRow
    <3>3. CASE row[f].kind # "create"
      <4>1. row' = row /\ OneRen(f, Renamed(f, n)) /\ ren'[f] = Renamed(f, n)
        BY <1>0, <3>1, <3>3, RetargetEffect DEF OneRen
      <4>2. \A i \in 1 .. Len(Renamed(f, n)) : Renamed(f, n)[i].name \in Names
        <5>1. Len(ren[f]) \in Nat /\ (Len(ren[f]) >= 1 => 1 \in 1 .. Len(ren[f]))
          BY <1>0 DEF TypeOK
        <5>2. Len(ren[f]) >= 1 => ren[f][1].name \in Names BY <1>0, <5>1 DEF FileFits, RenFits
        <5> QED BY <1>0, <3>1, <5>2, RenamedType
      <4>3. /\ Renamed(f, n) # <<>>
            /\ ren[f] # <<>> /\ ren[f][1].owner # NoOne => Renamed(f, n)[1] = ren[f][1]
        BY <1>0, <3>1, RenamedType
      <4> QED BY <3>3, <4>1, <4>2, <4>3
    <3> QED BY <3>2, <3>3
  <2>2. CASE RenameEnd(f)
    <3>1. row[f] \in Row /\ ren' = ren BY <1>0, <2>2 DEF TypeOK, RenameEnd
    <3>2. \E p \in BOOLEAN : row' = [row EXCEPT ![f].parked = p]
      BY <2>2, <3>1, RowFields DEF RenameEnd
    <3>3. PICK p \in BOOLEAN : row' = [row EXCEPT ![f] = [row[f] EXCEPT !.parked = p]] BY <3>2
    <3>4. OneRow(f, [row[f] EXCEPT !.parked = p]) BY <1>0, <3>1, <3>3, RowEdits, OneTypes
    <3>5. OneRow(f, row'[f]) /\ row'[f] = [row[f] EXCEPT !.parked = p] BY <3>4 DEF OneRow
    <3> QED BY <1>0, <3>1, <3>5 DEF FileFits, RowFits, Row
  <2> QED BY <2>1, <2>2
<1>5. \A g \in Files : g # f => FileSame(g) BY <1>1, <1>2, <1>4, Others
<1>6. FileFits(f)'
  BY <1>0, <1>1, <1>2, <1>3, <1>4, MoreNodes DEF FileFits, RowFits, Alive, RenFits, CallFits
<1>7. ASSUME NEW v \in Workers, pc[v] # "idle", F(v) = f PROVE Spared(v)
  BY <1>1, <1>7, Constants, <1>4, <1>0, <1>2 DEF drainVars, F, Spared, Alive
<1>8. Known(uid'[f]) /\ Known(row'[f].at) BY <1>1, <1>4, KnownNodes
<1> QED BY <1>1, <1>3, <1>5, <1>6, <1>7, <1>8, FileStep

(* The file goes, or its create does, with its ops. *)
LEMMA DropInv ==
  ASSUME Inv, TypeOK', NEW f \in Files, UNCHANGED <<drainVars, driveVars>>,
         call'[f] \in {"dropping", "gone"}, \A g \in Files : g # f => call'[g] = call[g],
         DropOps(f) \/ QueueTrash(f) \/ (row' = row /\ ren' = ren /\ ~Alive(f)),
         uid' = uid, listed' \in {listed, listed \ {f}}, age' = age,
         verdict' = verdict \/ verdict' = [verdict EXCEPT ![f] = "none"],
         named' = named, unadopted' = unadopted
  PROVE  Inv'
<1>0. TypeOK /\ FileFits(f) BY DEF Inv
<1>1. DriveKept /\ More BY DriveSteps DEF DriveKept
<1>2. /\ row' = row \/ OneRow(f, row'[f])
      /\ ren' = ren \/ OneRen(f, <<>>)
      /\ \/ row' = row /\ ~Alive(f)
         \/ row'[f] = NoRow
         \/ /\ row[f].kind = "create" /\ row'[f].kind = "trash" /\ row'[f].owner = row[f].owner
            /\ row'[f].at = row[f].at
         \/ row'[f].kind = "trash" /\ row'[f].owner = NoOne /\ row'[f].at = uid[f]
  BY <1>0, DropEffect, TrashEffect DEF OneRow
<1>3. ren' = ren \/ (OneRen(f, ren'[f]) /\ ren'[f] = <<>>) BY <1>2 DEF OneRen
<1>4. verdict'[f] \in {verdict[f], "none"} /\ \A g \in Files : g # f => verdict'[g] = verdict[g]
  BY <1>0 DEF TypeOK
<1>5. \A g \in Files : g # f => FileSame(g) BY <1>2, <1>3, <1>4, Others
<1>6. FileFits(f)'
  <2>1. 0 \in 0 .. nnode' /\ Local = 0 /\ NoRow.at = Local /\ NoRow.kind = "none"
    BY <1>1, Constants DEF More, NoRow
  <2>2. RowFits(f)' BY <1>0, <1>1, <1>2, <1>3, <2>1, MoreNodes DEF FileFits, RowFits, Alive
  <2>3. RenFits(f)' BY <1>0, <1>3, Numbers DEF FileFits, RenFits
  <2>4. CallFits(f)' BY <1>0, <1>4 DEF CallFits, Alive
  <2> QED BY <1>0, <1>1, <2>2, <2>3, <2>4, MoreNodes DEF FileFits
<1>7. ASSUME NEW v \in Workers, pc[v] # "idle", F(v) = f PROVE Spared(v)
  BY <1>7, Constants, CreateAlone, <1>2 DEF drainVars, F, NoRow, Spared, Alive
<1>8. Known(uid'[f]) /\ Known(row'[f].at) BY <1>2, KnownNodes DEF NoRow
<1> QED BY <1>1, <1>5, <1>6, <1>7, <1>8, FileStep

LEMMA DeleteInv ==
  ASSUME Inv, TypeOK', NEW f \in Files, DeleteLocal(f) \/ DeleteLanded(f) \/ DeleteReal(f)
  PROVE  Inv'
<1>1. TypeOK BY DEF Inv
<1>2. UNCHANGED <<drainVars, driveVars, sweepVars>> /\ uid' = uid /\ unadopted' = unadopted
      /\ named' = named
  BY DEF DeleteLocal, DeleteLanded, DeleteReal, Forgotten, treeVars, toldVars
<1>3. \E c \in {"dropping", "gone"} : call' = [call EXCEPT ![f] = c]
  BY DEF DeleteLocal, DeleteLanded, DeleteReal, Forgotten
<1>4. listed' \in {listed, listed \ {f}} BY DEF DeleteLocal, DeleteLanded, DeleteReal
<1>5. DropOps(f) \/ QueueTrash(f) \/ (row' = row /\ ren' = ren /\ call[f] = "dropping")
  BY DEF DeleteLocal, DeleteLanded, DeleteReal
<1>6. call'[f] \in {"dropping", "gone"} /\ \A g \in Files : g # f => call'[g] = call[g]
  BY <1>1, <1>3 DEF TypeOK
<1>7. call[f] = "dropping" => ~Alive(f) BY DEF Alive
<1> QED BY <1>2, <1>4, <1>5, <1>6, <1>7, DropInv DEF sweepVars

LEMMA SweepInv ==
  ASSUME Inv, TypeOK', NEW f \in Files, Grow(f) \/ SweepJudge(f) \/ SweepAct(f)
  PROVE  Inv'
<1>0. TypeOK /\ FileFits(f) /\ row[f] \in Row BY DEF Inv, TypeOK
<1>1. /\ UNCHANGED <<drainVars, driveVars, callVars, treeVars, toldVars>>
      /\ uid' = uid /\ listed' = listed
  BY DEF Grow, SweepJudge, SweepAct, dbVars
<1>2. /\ call' = call /\ unadopted' = unadopted /\ named' = named /\ DriveKept /\ More
  BY <1>1, DriveSteps DEF callVars, treeVars, toldVars, DriveKept
<1>3. CASE Grow(f)
  <2>1. /\ row' = row /\ ren' = ren /\ verdict' = verdict /\ row[f].parked
        /\ \A g \in Files : g # f => age'[g] = age[g]
        /\ call[f] = "minting" => age[f] # "new"
    BY <1>0, <1>3 DEF Grow, dbVars, TypeOK
  <2>2. \A g \in Files : g # f => FileSame(g) BY <1>1, <1>2, <2>1 DEF FileSame
  <2>3. FileFits(f)'
    BY <1>0, <1>1, <1>2, <2>1, MoreNodes DEF FileFits, RowFits, RenFits, CallFits, Alive
  <2>4. \A v \in Workers : pc[v] # "idle" /\ F(v) = f => Spared(v)
    BY <1>1, <1>2, <2>1, AtWork DEF F, Spared, drainVars, Alive, JobFits
  <2> QED BY <1>1, <1>2, <2>1, <2>2, <2>3, <2>4, KnownNodes, FileStep
<1>4. CASE SweepJudge(f)
  <2>1. /\ row' = row /\ ren' = ren /\ age' = age /\ row[f].kind = "create"
        /\ \A g \in Files : g # f => verdict'[g] = verdict[g]
        /\ verdict'[f] = ParkVerdict(f)
    BY <1>0, <1>4 DEF SweepJudge, dbVars, TypeOK
  <2>2. ParkVerdict(f) = "drop" => f \notin listed /\ age[f] # "new" BY DEF ParkVerdict
  <2>3. \A g \in Files : g # f => FileSame(g) BY <1>1, <1>2, <2>1 DEF FileSame
  <2>4. call[f] \in {"none", "minting", "idle", "renaming", "dropping", "gone"} BY <1>0 DEF TypeOK
  <2>5. CallFits(f)' BY <1>0, <1>1, <1>2, <2>1, <2>2, <2>4 DEF FileFits, CallFits, Alive
  <2>6. FileFits(f)'
    BY <1>0, <1>1, <1>2, <2>1, <2>5, MoreNodes DEF FileFits, RowFits, RenFits, Alive
  <2>7. \A v \in Workers : pc[v] # "idle" /\ F(v) = f => Spared(v)
    BY <1>1, <1>2, <2>1, AtWork DEF F, Spared, drainVars, Alive, JobFits
  <2> QED BY <1>1, <1>2, <2>1, <2>3, <2>6, <2>7, KnownNodes, FileStep
<1>5. CASE SweepAct(f)
  <2>1. /\ age' = age /\ verdict' = [verdict EXCEPT ![f] = "none"] /\ verdict[f] # "none"
        /\ \/ /\ row' = [row EXCEPT ![f] = [row[f] EXCEPT !.parked = FALSE]]
              /\ ren' = ren
           \/ verdict[f] = "drop" /\ DropOps(f)
    BY <1>5 DEF SweepAct
  <2>2. CASE verdict[f] = "drop" /\ DropOps(f)
    <3>1. call'[f] \in {"dropping", "gone"} BY <1>0, <1>2, <2>2 DEF FileFits, CallFits
    <3> QED BY <1>1, <1>2, <2>1, <2>2, <3>1, DropInv
  <2>3. CASE /\ row' = [row EXCEPT ![f] = [row[f] EXCEPT !.parked = FALSE]]
             /\ ren' = ren
    <3>1. OneRow(f, [row[f] EXCEPT !.parked = FALSE]) BY <1>0, <2>3, RowEdits, OneTypes
    <3>2. /\ row'[f].kind = row[f].kind /\ row'[f].owner = row[f].owner /\ row'[f].at = row[f].at
          /\ row'[f].blob = row[f].blob /\ row'[f].name = row[f].name /\ row'[f].parked = FALSE
          /\ OneRow(f, row'[f])
      BY <1>0, <3>1 DEF OneRow, Row
    <3>3. verdict'[f] = "none" /\ \A g \in Files : g # f => verdict'[g] = verdict[g]
      BY <1>0, <2>1 DEF TypeOK
    <3>4. \A g \in Files : g # f => FileSame(g) BY <1>1, <1>2, <2>1, <2>3, <3>2, <3>3, Others
    <3>5. FileFits(f)'
      BY <1>0, <1>1, <1>2, <2>1, <2>3, <3>2, <3>3, MoreNodes DEF FileFits, RowFits, RenFits,
        CallFits, Alive
    <3>6. \A v \in Workers : pc[v] # "idle" /\ F(v) = f => Spared(v)
      BY <1>1, <1>2, <2>3, <3>2, AtWork DEF F, Spared, drainVars, Alive, JobFits
    <3> QED BY <1>1, <1>2, <3>2, <3>4, <3>5, <3>6, KnownNodes, FileStep
  <2> QED BY <2>1, <2>2, <2>3
<1> QED BY <1>3, <1>4, <1>5

LEMMA ForeignInv ==
  ASSUME Inv, TypeOK', NEW n \in Names, ForeignCreate(n)
  PROVE  Inv'
<1>1. /\ UNCHANGED <<dbVars, treeVars, callVars, drainVars, sweepVars, toldVars>>
      /\ nnode < MaxNode /\ node' = Made(n, Theirs, Other) /\ nnode' = nnode + 1
  BY DEF ForeignCreate
<1>2. n \in Name /\ Theirs \in 0 .. MaxBlob + 1 /\ TypeOK BY NameFacts, Constants DEF Inv
<1>3. NewNode(n, Theirs, Other) BY <1>1, <1>2, MadeType DEF NewNode
<1>4. DriveKept /\ More BY <1>3, DriveSteps DEF DriveKept
<1>5. \A g \in Files : FileSame(g)
  BY <1>1 DEF FileSame, dbVars, treeVars, callVars, sweepVars, toldVars
<1>6. \A g \in Files : FileFits(g)' BY <1>4, <1>5, FileFrame DEF Inv
<1>7. pc' = pc /\ job' = job BY <1>1 DEF drainVars
<1>8. ASSUME NEW v \in Workers
      PROVE  IF pc'[v] = "idle" THEN job'[v] = NoJob ELSE AttemptFits(v)'
  <2>1. CASE pc[v] = "idle" BY <1>7, <2>1 DEF Inv
  <2>2. CASE pc[v] # "idle"
    <3>1. Spared(v) BY <1>5, <1>7, <2>2, AtWork, SparedFile
    <3> QED BY <1>4, <1>7, <2>2, <3>1, AttemptFrame, InvParts
  <2> QED BY <2>1, <2>2
<1>9. \A w, v \in Workers : Creator(w)' /\ Creator(v)' /\ F(w)' = F(v)' => w = v
  BY <1>7, InvParts DEF Creator, F
<1>10. NotTheirs' BY <1>4, <1>5, <1>7, OursFrame, KnownNodes DEF FileSame
<1> QED BY <1>6, <1>8, <1>9, <1>10, InvParts

LEMMA CrashInv ==
  ASSUME Inv, TypeOK', Crash
  PROVE  Inv'
<1>0. TypeOK /\ UNCHANGED driveVars BY DEF Inv, Crash
<1>1. DriveKept /\ More BY <1>0, DriveSteps DEF DriveKept
<1>2. ASSUME NEW f \in Files PROVE FileFits(f)'
  <2>1. FileFits(f) /\ call[f] \in {"none", "minting", "idle", "renaming", "dropping", "gone"}
    BY <1>0 DEF Inv, TypeOK
  <2>2. /\ uid' = uid /\ listed' = listed /\ age' = age /\ named' = named
        /\ verdict'[f] = "none" /\ f \notin unadopted'
    BY DEF Crash
  <2>3. call'[f] = CASE call[f] \in {"minting", "dropping"} -> "gone"
                     [] call[f] = "renaming" -> "idle" [] OTHER -> call[f]
    BY DEF Crash
  <2>4. /\ call[f] \in {"minting", "dropping"} => call'[f] = "gone"
        /\ call[f] = "renaming" => call'[f] = "idle"
        /\ call[f] \notin {"minting", "dropping", "renaming"} => call'[f] = call[f]
    BY <2>3
  <2>5. /\ row'[f].kind = row[f].kind /\ row'[f].name = row[f].name /\ row'[f].at = row[f].at
        /\ row'[f].parked = row[f].parked
        /\ (ren'[f] = <<>> <=> ren[f] = <<>>) /\ Len(ren'[f]) = Len(ren[f])
        /\ \A i \in 1 .. Len(ren[f]) : ren'[f][i].name = ren[f][i].name
    BY <1>0, CrashEffect
  <2>6. RowFits(f)' BY <1>1, <2>1, <2>2, <2>4, <2>5, MoreNodes DEF FileFits, RowFits, Alive
  <2>7. RenFits(f)' /\ CallFits(f)'
    BY <2>1, <2>2, <2>4, <2>5 DEF FileFits, RenFits, CallFits, Alive
  <2> QED BY <1>1, <2>1, <2>2, <2>6, <2>7, MoreNodes DEF FileFits
<1>3. \A w \in Workers : pc'[w] = "idle" /\ job'[w] = NoJob BY <1>0, CrashEffect
<1>4. \A w \in Workers : ~Creator(w)' BY <1>3 DEF Creator, Early
<1>5. \A f \in Files : Known(uid'[f]) /\ Known(row'[f].at)
  BY <1>0, CrashEffect, KnownNodes DEF Crash
<1>6. \A w \in Workers : Known(job'[w].node) BY <1>3, KnownNodes DEF NoJob
<1> QED BY <1>1, <1>2, <1>3, <1>4, <1>5, <1>6, OursFrame, InvParts

(* ------------ The invariant: claims ------------ *)
LEMMA ClaimRowInv ==
  ASSUME Inv, TypeOK', NEW w \in Workers, NEW f \in Files, ClaimRow(w, f)
  PROVE  Inv'
<1>0. /\ TypeOK /\ FileFits(f) /\ pc[w] = "idle" /\ row[f].kind # "none" /\ Free(f)
      /\ row[f] \in Row /\ w # NoOne
  BY Constants DEF Inv, TypeOK, ClaimRow
<1>1. /\ UNCHANGED <<ren, uid, listed, staged, treeVars, callVars, sweepVars, driveVars, toldVars>>
  BY DEF ClaimRow
<1>2. /\ ren' = ren /\ uid' = uid /\ listed' = listed /\ unadopted' = unadopted /\ call' = call
      /\ age' = age /\ verdict' = verdict /\ named' = named /\ DriveKept /\ More /\ nnode' = nnode
  BY <1>1, DriveSteps DEF treeVars, callVars, sweepVars, toldVars, driveVars, DriveKept
<1>3. /\ OneRow(f, row'[f]) /\ OneJob(w, job'[w]) /\ OnePc(w, pc'[w])
      /\ row'[f].owner = w /\ row'[f].kind = row[f].kind /\ row'[f].blob = row[f].blob
      /\ row'[f].at = row[f].at /\ row'[f].name = row[f].name /\ row'[f].parked = row[f].parked
      /\ job'[w].file = f /\ job'[w].kind = row[f].kind /\ job'[w].name = row[f].name
      /\ job'[w].blob = row[f].blob /\ job'[w].node = row[f].at /\ job'[w].sent = row[f].name
  BY <1>0, ClaimRowEffect, ClaimRowWay
<1>4. /\ row[f].kind \in {"create", "revision", "trash"}
      /\ row[f].kind = "create" => pc'[w] = "twin"
      /\ row[f].kind = "revision" => pc'[w] \in {"ask", "revise"}
      /\ row[f].kind = "trash" => pc'[w] \in {"ask", "find", "trash"}
      /\ pc'[w] = "ask" => f \in unadopted
      /\ pc'[w] = "trash" => row[f].at # Local
  BY <1>0, ClaimRowWay
<1>5. \A g \in Files : g # f => FileSame(g) BY <1>2, <1>3, Others
<1>6. FileFits(f)' BY <1>0, <1>2, <1>3 DEF FileFits, RowFits, RenFits, CallFits, Alive
<1>7. ASSUME NEW v \in Workers, v # w, pc[v] # "idle", F(v) = f PROVE Spared(v)
  BY <1>3, <1>7, AtWork, Constants, <1>0, CreateAlone, <1>2 DEF OnePc, OneJob, F, JobFits, Free,
    Spared, Alive
<1>8. row[f].kind \in {"create", "revision", "trash"} BY <1>4
<1>9. F(w)' = f BY <1>3 DEF F
<1>10. AttemptFits(w)'
  <2>1. row[f].kind = "create" => /\ uid[f] = Local /\ row[f].name \in Names
                                  /\ pc'[w] = "twin" /\ pc'[w] \in Way["create"]
    BY <1>0, <1>4, WaysIn DEF FileFits, RowFits
  <2>2. row[f].kind = "revision" => /\ row[f].at = uid[f] /\ uid[f] # Local
                                    /\ pc'[w] \in {"ask", "revise"} /\ pc'[w] \in Way["revision"]
    BY <1>0, <1>4, WaysIn DEF FileFits, RowFits
  <2>3. row[f].kind = "trash" => /\ ~Alive(f)
                                 /\ pc'[w] \in {"ask", "find", "trash"} /\ pc'[w] \in Way["trash"]
                                 /\ pc'[w] = "ask" => uid[f] # Local /\ row[f].at = uid[f]
                                 /\ pc'[w] = "trash" => row[f].at # Local
    BY <1>0, <1>4, WaysIn DEF FileFits, RowFits
  <2>4. call[f] # "none" /\ row[f].at \in 0 .. nnode BY <1>0 DEF FileFits, CallFits, RowFits
  <2>5. JobFits(w)'
    BY <1>2, <1>3, <1>9, <2>1, <2>4, <2>2, <2>3, <1>8 DEF JobFits, Early, Adopts, Alive
  <2>6. CreateFits(w)' BY <1>2, <1>3, <1>9, <2>1 DEF CreateFits, Early
  <2>7. RevisionFits(w)' /\ RenameFits(w)' BY <1>3, <1>8, <1>9 DEF RevisionFits, RenameFits
  <2> QED BY <2>5, <2>6, <2>7 DEF AttemptFits
<1>11. pc'[w] # "idle" BY <1>4, <1>8
<1>12. Creator(w)' => \A v \in Workers : v # w /\ Creator(v) => F(v) # F(w)'
  <2> SUFFICES ASSUME Creator(w)', NEW v \in Workers, v # w, Creator(v), F(v) = f PROVE FALSE
    BY <1>9
  <2>1. row[f].kind = "create" /\ pc[v] # "idle" BY <1>3 DEF Creator, Early
  <2> QED BY <1>0, <2>1, CreateAlone, Constants DEF Free
<1>13. \A v \in Workers : v # w => pc'[v] = pc[v] /\ job'[v] = job[v] BY <1>3 DEF OnePc, OneJob
<1>14. Known(uid'[f]) /\ Known(row'[f].at) /\ Known(job'[w].node) BY <1>2, <1>3, KnownNodes
<1> QED BY <1>2, <1>5, <1>6, <1>7, <1>10, <1>11, <1>12, <1>13, <1>14, WorkerStep

LEMMA ClaimRenameInv ==
  ASSUME Inv, TypeOK', NEW w \in Workers, NEW f \in Files, ClaimRename(w, f)
  PROVE  Inv'
<1>0. TypeOK /\ FileFits(f) /\ w # NoOne BY Constants DEF Inv
<1>1. /\ UNCHANGED <<row, uid, listed, staged, treeVars, callVars, sweepVars, driveVars, toldVars>>
  BY DEF ClaimRename
<1>2. /\ row' = row /\ uid' = uid /\ listed' = listed /\ unadopted' = unadopted /\ call' = call
      /\ age' = age /\ verdict' = verdict /\ named' = named /\ DriveKept /\ More /\ nnode' = nnode
  BY <1>1, DriveSteps DEF treeVars, callVars, sweepVars, toldVars, driveVars, DriveKept
<1>3. /\ pc[w] = "idle" /\ ren[f] # <<>> /\ Free(f)
      /\ OneRen(f, ren'[f]) /\ ren'[f] # <<>> /\ Len(ren'[f]) = Len(ren[f])
      /\ ren'[f][1].owner = w
      /\ \A i \in 1 .. Len(ren[f]) : ren'[f][i].name = ren[f][i].name
      /\ ren'[f][1].name = ren[f][1].name /\ ren[f][1].name \in Names
      /\ OneJob(w, job'[w])
      /\ job'[w].file = f /\ job'[w].kind = "rename" /\ job'[w].name = ren[f][1].name
      /\ job'[w].node = uid[f]
      /\ OnePc(w, pc'[w]) /\ pc'[w] \in {"ask", "send"}
  BY ClaimRenameEffect
<1>4. /\ uid[f] # Local /\ row[f].kind # "create" /\ call[f] # "none" /\ uid[f] \in 0 .. nnode
  BY <1>0, <1>3 DEF FileFits, RenFits, RowFits, CallFits
<1>5. ren[f][1].owner = NoOne
  <2>1. 1 \in 1 .. Len(ren[f]) BY <1>0, <1>3 DEF TypeOK
  <2> QED BY <1>3, <2>1 DEF Free
<1>6. \A g \in Files : g # f => FileSame(g) BY <1>2, <1>3, Others
<1>7. FileFits(f)' BY <1>0, <1>2, <1>3 DEF FileFits, RowFits, RenFits, CallFits, Alive
<1>8. ASSUME NEW v \in Workers, v # w, pc[v] # "idle", F(v) = f PROVE Spared(v)
  <2>1. pc'[v] = pc[v] /\ job'[v] = job[v] /\ f = job[v].file /\ v # NoOne
    BY <1>3, <1>8, Constants DEF OnePc, OneJob, F
  <2> QED BY <1>2, <1>4, <1>5, <1>8, <2>1 DEF F, Spared, Alive
<1>9. F(w)' = f BY <1>3 DEF F
<1>10. AttemptFits(w)'
  <2>1. pc'[w] \in Way["rename"] BY <1>3, WaysIn
  <2>2. JobFits(w)' BY <1>2, <1>3, <1>4, <1>9, <2>1 DEF JobFits
  <2> QED BY <1>3, <1>9, <2>2 DEF AttemptFits, CreateFits, RevisionFits, RenameFits
<1>11. ~Creator(w)' BY <1>3 DEF Creator
<1>12. \A v \in Workers : v # w => pc'[v] = pc[v] /\ job'[v] = job[v] BY <1>3 DEF OnePc, OneJob
<1>13. Known(uid'[f]) /\ Known(row'[f].at) /\ Known(job'[w].node) BY <1>2, <1>3, KnownNodes
<1> QED BY <1>2, <1>3, <1>6, <1>7, <1>8, <1>10, <1>11, <1>12, <1>13, WorkerStep

(* ------------ The invariant: attempts ------------ *)
(* An attempt that goes on with its op, on a file nothing is done to.      *)
LEMMA GoesOn ==
  ASSUME Inv, TypeOK', DriveKept, NEW w \in Workers, pc[w] # "idle", pc'[w] # "idle",
         OnePc(w, pc'[w]),
         job' = job \/ OneJob(w, job'[w]), SameOp(job[w], job'[w]),
         \A g \in Files : FileSame(g),
         Known(job'[w].node),
         pc'[w] \in Way[job[w].kind],
         row[F(w)].kind = "create" => pc'[w] \in Early \cup {"fail"},
         \/ job[w].kind \in {"revision", "rename"}
         \/ pc'[w] \in Adopts \cup {"repoint", "discard"} =>
              job'[w].node = uid[F(w)] /\ uid[F(w)] # Local,
         job[w].kind \in {"revision", "rename"} => job'[w].node = job[w].node,
         pc'[w] \in {"find", "trash", "trashed"} => ~Alive(F(w)),
         pc'[w] = "trash" => job'[w].node # Local,
         job[w].kind = "create" =>
           /\ pc'[w] \in Early => pc[w] \in Early
           /\ pc'[w] = "fail" /\ Alive(F(w)) => row[F(w)].kind = "create"
           /\ pc'[w] \in Early \ {"retire"} => job'[w].sent = job'[w].name
           /\ pc'[w] = "retire" => job'[w].node # Local /\ job'[w].seen \in Name
  PROVE  Inv'
<1> DEFINE f == F(w)
<1>1. f \in Files /\ AttemptFits(w) /\ F(w)' = f /\ FileSame(f) /\ More
  BY AtWork DEF F, SameOp, AttemptFits, DriveKept
<1>2. job'[w].node \in 0 .. nnode' BY KnownStay
<1>3. JobFits(w)'
  <2> USE DEF SameOp
  <2>1. \/ job'[w].kind \in {"revision", "rename"} => job'[w].node = uid'[f] /\ uid'[f] # Local
    BY <1>1 DEF AttemptFits, JobFits, FileSame
  <2>2. pc'[w] \in Adopts \cup {"repoint", "discard"} => job'[w].node = uid'[f] /\ uid'[f] # Local
    BY <1>1, <2>1 DEF FileSame
  <2>3. job'[w].kind = "trash" \/ pc'[w] \in {"find", "trash", "trashed"} => ~Alive(f)'
    BY <1>1 DEF AttemptFits, JobFits, FileSame, Alive
  <2>4. row'[f].kind = "create" =>
          row'[f].owner = w /\ job'[w].kind = "create" /\ pc'[w] \in Early \cup {"fail"}
    BY <1>1 DEF AttemptFits, JobFits, FileSame
  <2>5. call'[f] # "none" /\ (job'[w].kind \in {"create", "rename"} => job'[w].name \in Names)
    BY <1>1 DEF AttemptFits, JobFits, FileSame
  <2> QED BY <1>1, <1>2, <2>1, <2>2, <2>3, <2>4, <2>5 DEF JobFits
<1>4. CreateFits(w)' /\ RevisionFits(w)' /\ RenameFits(w)'
  BY <1>1 DEF AttemptFits, CreateFits, RevisionFits, RenameFits, FileSame, SameOp, Alive, Early
<1>5. AttemptFits(w)' BY <1>3, <1>4 DEF AttemptFits
<1>6. FileFits(f)' BY <1>1, FileFrame DEF Inv
<1>7. \A v \in Workers : v # w => pc'[v] = pc[v] /\ job'[v] = job[v] BY DEF OnePc, OneJob
<1>8. \A v \in Workers : v # w /\ pc[v] # "idle" /\ F(v) = f => Spared(v) BY <1>1, <1>7, SparedFile
<1>9. Creator(w)' => \A v \in Workers : v # w /\ Creator(v) => F(v) # F(w)'
  <2>1. Creator(w)' => Creator(w) BY DEF Creator, SameOp
  <2> QED BY <1>1, <2>1, InvParts
<1>10. Known(uid'[f]) /\ Known(row'[f].at) BY <1>1, KnownNodes DEF FileSame
<1> QED BY <1>1, <1>5, <1>6, <1>7, <1>8, <1>9, <1>10, WorkerStep

(* A node taken for one an attempt made was made here. *)
LEMMA TwinOurs ==
  ASSUME Inv, NEW w \in Workers, pc[w] # "idle", NEW n, NEW r \in Twin(w, n)
  PROVE  /\ r \in 1 .. nnode /\ Ours(r) /\ r # Local /\ Known(r)
         /\ ~node[r].trashed /\ node[r].name = n /\ r \notin hidden /\ ~InTree(r)
<1>1. /\ r \in 1 .. nnode /\ HoldsOurs(w, r) /\ ~node[r].trashed /\ node[r].name = n
      /\ r \notin hidden /\ ~InTree(r)
  BY DEF Twin, Unclaimed, Live
<1>2. staged \subseteq Blob /\ row[F(w)].sha \subseteq Blob BY AtWork, RowFields DEF TypeOK
<1>3. node[r].body \in {Empty} \cup Blob BY <1>1, <1>2 DEF HoldsOurs
<1>4. node[r].by # Other BY <1>1, <1>3, Numbers DEF Inv, NotTheirs
<1>5. r # Local /\ r \in 0 .. nnode BY <1>1, Constants DEF Inv, TypeOK, Uid
<1> QED BY <1>1, <1>4, <1>5 DEF Known, Ours

LEMMA AdoptableTwins ==
  ASSUME NEW w, NEW n, NEW r \in AdoptableTwin(w, n)
  PROVE  r \in Twin(w, n) /\ ~Creating(w, n)
BY DEF AdoptableTwin

(* A step that leaves everything but the attempt alone. *)
LEMMA AllSame ==
  ASSUME UNCHANGED <<dbVars, callVars, sweepVars, toldVars>>,
         \A g \in unadopted' : g \in unadopted \/ uid[g] # Local
  PROVE  \A g \in Files : FileSame(g)
BY DEF FileSame, dbVars, callVars, sweepVars, toldVars

LEMMA LookInv ==
  ASSUME Inv, TypeOK', NEW w \in Workers, CreateLook(w) \/ CreateClash(w)
  PROVE  Inv'
<1>1. /\ pc[w] \in {"twin", "clash"}
      /\ UNCHANGED <<dbVars, treeVars, callVars, sweepVars, driveVars, toldVars, boundVars>>
      /\ OnePc(w, pc'[w])
  BY LookEffect
<1>2. pc[w] # "idle" /\ job[w].kind = "create" /\ TypeOK /\ unadopted' = unadopted
  BY <1>1, KindAt DEF Inv, treeVars
<1>3. DriveKept /\ \A g \in Files : FileSame(g) BY <1>1, <1>2, DriveSteps, AllSame
<1>4. pc[w] \in Early /\ (Alive(F(w)) => row[F(w)].kind = "create") /\ job[w].sent = job[w].name
  BY <1>1, <1>2, AtWork DEF CreateFits, Early
<1>5. \/ job' = job /\ pc'[w] \in {"fail", "note", "held"}
      \/ /\ pc'[w] = "retire"
         /\ \E n \in row[F(w)].to \cup {job[w].name} : \E r \in AdoptableTwin(w, n) :
              r \in 1 .. nnode /\ AdoptTwin(w, r)
  BY LookEffect
<1>6. CASE job' = job /\ pc'[w] \in {"fail", "note", "held"}
  <2>1. pc'[w] \in Way[job[w].kind] /\ Known(job'[w].node) /\ SameOp(job[w], job'[w])
    BY <1>2, <1>6, WaysIn, KnownNodes DEF SameOp
  <2> QED BY <1>1, <1>2, <1>3, <1>4, <1>6, <2>1, GoesOn DEF Early, Adopts
<1>7. CASE /\ pc'[w] = "retire"
           /\ \E n \in row[F(w)].to \cup {job[w].name} : \E r \in AdoptableTwin(w, n) :
                r \in 1 .. nnode /\ AdoptTwin(w, r)
  <2>0. PICK n \in row[F(w)].to \cup {job[w].name} :
          \E r \in AdoptableTwin(w, n) : r \in 1 .. nnode /\ AdoptTwin(w, r)
    BY <1>7
  <2>1. PICK r \in AdoptableTwin(w, n) : r \in 1 .. nnode /\ AdoptTwin(w, r) BY <2>0
  <2>2. r \in Twin(w, n) /\ Known(r) /\ r # Local BY <1>2, <2>1, AdoptableTwins, TwinOurs
  <2>3. /\ OneJob(w, job'[w]) /\ SameOp(job[w], job'[w]) /\ job'[w].node = r
        /\ job'[w].seen \in Name
    BY <1>2, <2>1, AdoptEffect
  <2>4. pc'[w] \in Way[job[w].kind] BY <1>2, <1>7, WaysIn
  <2> QED BY <1>1, <1>2, <1>3, <1>4, <1>7, <2>2, <2>3, <2>4, GoesOn DEF Early, Adopts
<1> QED BY <1>5, <1>6, <1>7

LEMMA NoteInv ==
  ASSUME Inv, TypeOK', NEW w \in Workers, CreateNote(w)
  PROVE  Inv'
<1>0. PICK f \in Files : f = F(w) BY AtWork DEF CreateNote
<1>1. /\ pc[w] = "note" /\ OneRow(f, row'[f]) /\ OnePc(w, pc'[w]) /\ pc'[w] \in {"send", "fail"}
      /\ job' = job
      /\ row'[f].kind = row[f].kind /\ row'[f].owner = row[f].owner /\ row'[f].at = row[f].at
      /\ row'[f].parked = row[f].parked /\ row'[f].name = row[f].name /\ row'[f].blob = row[f].blob
  BY <1>0, NoteEffect
<1>2. /\ UNCHANGED <<ren, uid, listed, staged, treeVars, callVars, sweepVars, driveVars, toldVars>>
      /\ f \in Files /\ FileFits(f) /\ AttemptFits(w) /\ job[w].kind = "create"
  BY <1>0, <1>1, AtWork, KindAt DEF CreateNote, AttemptFits
<1>3. /\ ren' = ren /\ uid' = uid /\ listed' = listed /\ unadopted' = unadopted /\ call' = call
      /\ age' = age /\ verdict' = verdict /\ named' = named /\ DriveKept /\ More /\ nnode' = nnode
  BY <1>2, DriveSteps DEF treeVars, callVars, sweepVars, toldVars, driveVars, DriveKept
<1>4. \A g \in Files : g # f => FileSame(g) BY <1>1, <1>2, <1>3, Others
<1>5. FileFits(f)' BY <1>1, <1>2, <1>3 DEF FileFits, RowFits, RenFits, CallFits, Alive
<1>6. \A v \in Workers : v # w => pc'[v] = pc[v] /\ job'[v] = job[v] BY <1>1 DEF OnePc
<1>7. ASSUME NEW v \in Workers, v # w, pc[v] # "idle", F(v) = f PROVE Spared(v)
  <2>1. f = job[v].file /\ call[f] # "none" BY <1>7, AtWork DEF F, JobFits
  <2> QED BY <1>1, <1>3, <1>6, <1>7, <2>1 DEF F, Spared, Alive
<1>8. F(w)' = f BY <1>0, <1>1 DEF F
<1>9. AttemptFits(w)'
  BY <1>1, WaysIn, <1>0, <1>2, <1>3, <1>8 DEF AttemptFits, JobFits, Early, Adopts, Alive,
    CreateFits, RevisionFits, RenameFits
<1>10. Creator(w)' => \A v \in Workers : v # w /\ Creator(v) => F(v) # F(w)'
  BY <1>0, <1>1, <1>2, <1>8, InvParts DEF Creator, Early
<1>11. Known(uid'[f]) /\ Known(row'[f].at) /\ Known(job'[w].node) /\ pc'[w] # "idle"
  BY <1>1, <1>2, <1>3, KnownNodes
<1> QED BY <1>2, <1>3, <1>4, <1>5, <1>6, <1>7, <1>9, <1>10, <1>11, WorkerStep

LEMMA SendInv ==
  ASSUME Inv, TypeOK', NEW w \in Workers, Send(w) \/ RenameGone(w)
  PROVE  Inv'
<1>0. TypeOK /\ pc[w] = "send" /\ pc[w] # "idle" BY DEF Inv, Send, RenameGone
<1>1. /\ UNCHANGED <<dbVars, treeVars, callVars, sweepVars, toldVars>>
      /\ OnePc(w, pc'[w])
  <2>1. CASE Send(w) BY <2>1, SendEffect
  <2>2. CASE RenameGone(w) BY <1>0, <2>2, OneTypes DEF RenameGone, WorkerPc, OnePc
  <2> QED BY <2>1, <2>2
<1>2. (\A g \in Files : FileSame(g)) /\ job[w].kind \in {"create", "rename"}
  BY <1>0, <1>1, AllSame, KindAt DEF treeVars
<1>3. /\ F(w) \in Files /\ nnode \in Nat /\ Local = 0 /\ Known(job[w].node)
      /\ job[w].kind = "create" => /\ Alive(F(w)) => row[F(w)].kind = "create"
                                   /\ job[w].sent = job[w].name
      /\ job[w].kind = "rename" => row[F(w)].kind # "create"
  BY <1>0, AtWork, KnownNodes, Constants, SMTT(20) DEF CreateFits, JobFits, Early, TypeOK, Uid
<1>4. /\ job[w].kind = "create" => pc'[w] \in {"note", "clash", "retire", "fail"}
      /\ job[w].kind = "rename" => pc'[w] \in {"send", "held", "retire", "fail"}
      /\ DriveKept /\ SameOp(job[w], job'[w]) /\ (job' = job \/ OneJob(w, job'[w]))
      /\ Known(job'[w].node) /\ job'[w].sent = job[w].sent
      /\ job[w].kind = "rename" => job'[w].node = job[w].node
      /\ job[w].kind = "create" /\ pc'[w] = "retire" =>
           job'[w].node # Local /\ job'[w].seen \in Name
  <2>1. CASE RenameGone(w)
    BY <2>1, <1>0, <1>3, DriveSteps DEF RenameGone, Renameless, Goto, TypeOK, SameOp
  <2>2. CASE Send(w) /\ AfterTaken(w) /\ UNCHANGED driveVars
    BY <1>0, <1>3, <2>2, TakenEffect, DriveSteps
  <2>3. CASE Send(w) /\ UNCHANGED driveVars /\ pc'[w] = "fail" /\ job' = job
    BY <1>3, <2>3, DriveSteps DEF SameOp
  <2>4. ASSUME Applied(w)
        PROVE  /\ SendName(w) \in Name /\ DriveKept
               /\ job[w].kind = "create" => Known(nnode + 1) /\ nnode + 1 # Local
    <3>1. SendName(w) \in Name /\ DriveKept
      BY <1>0, <1>2, <1>3, <2>4, AppliedEffect, DriveSteps, Constants
    <3>2. job[w].kind = "create" =>
            nnode' = nnode + 1 /\ node'[nnode + 1].by = F(w) /\ node'[nnode + 1].by # Other
      BY <1>0, <1>3, <2>4, AppliedEffect, Constants DEF NewNode
    <3> QED BY <1>3, <3>1, <3>2 DEF Known
  <2>5. CASE /\ Applied(w) /\ pc'[w] = "retire"
             /\ OneJob(w, job'[w]) /\ SameOp(job[w], job'[w]) /\ job'[w].sent = job[w].sent
             /\ job'[w].seen = SendName(w)
             /\ job'[w].node = IF job[w].kind = "create" THEN nnode + 1 ELSE job[w].node
    BY <1>2, <1>3, <2>4, <2>5
  <2>6. CASE Applied(w) /\ pc'[w] = "fail" /\ job' = job BY <1>2, <1>3, <2>4, <2>6 DEF SameOp
  <2> QED BY <2>1, <2>2, <2>3, <2>5, <2>6, SendEffect
<1>5. pc'[w] \in Way[job[w].kind] /\ pc'[w] # "idle" BY <1>2, <1>4, WaysIn
<1>6. CASE job[w].kind = "create"
  BY <1>0, <1>1, <1>2, <1>3, <1>4, <1>5, <1>6, GoesOn DEF Early, Adopts, SameOp
<1>7. CASE job[w].kind = "rename" BY <1>0, <1>1, <1>2, <1>3, <1>4, <1>5, <1>7, GoesOn
<1> QED BY <1>2, <1>6, <1>7

(* An attempt that is over, with what it did to its file. *)
LEMMA Ends ==
  ASSUME Inv, TypeOK', DriveKept, NEW w \in Workers, NEW f \in Files, f = F(w), pc[w] # "idle",
         OnePc(w, "idle"), OneJob(w, NoJob),
         row' = row \/ OneRow(f, row'[f]),
         ren' = ren \/ OneRen(f, ren'[f]),
         uid' = uid, call' = call, age' = age, verdict' = verdict, named' = named,
         listed' \in {listed, listed \ {f}}, unadopted' = unadopted,
         Known(row'[f].at),
         RowFits(f)', RenFits(f)', listed' = listed \/ ~Alive(f),
         row'[f].parked => row[f].parked,
         row'[f].kind = row[f].kind \/ row'[f].kind = "none",
         row[f].kind = "create" => row'[f].kind = "create",
         row'[f].owner \in {row[f].owner, NoOne}, row'[f].blob = row[f].blob \/ row'[f].kind = "none",
         row'[f].kind = "none" => row'[f].owner \in {NoOne, w} \/ row[f].kind = "none",
         ren'[f] = ren[f] \/ ren[f][1].owner = w
  PROVE  Inv'
<1>1. FileFits(f) /\ AttemptFits(w) /\ More /\ call[f] # "none" /\ w # NoOne
  BY AtWork, Constants DEF AttemptFits, DriveKept, JobFits
<1>2. \A g \in Files : g # f => FileSame(g) BY Others
<1>3. FileFits(f)'
  <2>1. CallFits(f)' BY <1>1 DEF FileFits, CallFits, Alive
  <2> QED BY <1>1, <2>1, MoreNodes DEF FileFits
<1>4. \A v \in Workers : v # w => pc'[v] = pc[v] /\ job'[v] = job[v] BY DEF OnePc, OneJob
<1>5. pc'[w] = "idle" /\ job'[w] = NoJob BY DEF OnePc, OneJob
<1>6. ASSUME NEW v \in Workers, v # w, pc[v] # "idle", F(v) = f PROVE Spared(v)
  BY <1>6, CreateAlone, Constants, AtWork, <1>1, <1>4 DEF F, RevisionFits, Spared, Alive
<1>7. ~Creator(w)' BY <1>5 DEF Creator, Early
<1>8. Known(uid'[f]) /\ Known(job'[w].node) BY <1>5, KnownNodes DEF NoJob
<1> QED BY <1>2, <1>3, <1>4, <1>5, <1>6, <1>7, <1>8, WorkerStep

LEMMA RetireInv ==
  ASSUME Inv, TypeOK', NEW w \in Workers, CreateRetire(w)
  PROVE  Inv'
<1>0. PICK f \in Files : f = F(w) BY AtWork DEF CreateRetire
<1>1. /\ pc[w] = "retire" /\ job[w].kind = "create" /\ job' = job
      /\ OneRow(f, row'[f]) /\ OnePc(w, pc'[w])
  BY <1>0, RetireEffect
<1>2. /\ UNCHANGED <<listed, staged, place, treeUid, open, unadopted, callVars, job, sweepVars,
                     driveVars, toldVars, boundVars>>
      /\ FileFits(f) /\ AttemptFits(w) /\ TypeOK
  BY <1>0, <1>1, AtWork DEF CreateRetire, AttemptFits
<1>3. /\ listed' = listed /\ unadopted' = unadopted /\ call' = call
      /\ age' = age /\ verdict' = verdict /\ named' = named /\ DriveKept /\ More /\ nnode' = nnode
  BY <1>2, DriveSteps DEF callVars, sweepVars, toldVars, driveVars, DriveKept
<1>4. /\ uid[f] = Local /\ call[f] # "none" /\ job[w].node # Local /\ job[w].node \in 0 .. nnode
      /\ Alive(f) => row[f].kind = "create"
  BY <1>0, <1>1, <1>2 DEF AttemptFits, JobFits, CreateFits, Early
<1>5. \A v \in Workers : v # w => pc'[v] = pc[v] /\ job'[v] = job[v] BY <1>1 DEF OnePc
<1>6. F(w)' = f BY <1>0, <1>1 DEF F
<1>7. CASE row[f].kind = "create"
  <2>1. /\ pc'[w] = "repoint" /\ uid' = [uid EXCEPT ![f] = job[w].node] /\ uid'[f] = job[w].node
        /\ OneRen(f, ren'[f])
        /\ \/ row'[f].kind = "none" /\ row'[f].at = Local
           \/ row'[f].kind = "revision" /\ row'[f].at = job[w].node
        /\ \/ ren'[f] = <<>>
           \/ Len(ren'[f]) = 1 /\ ren'[f][1].name = row[f].name
    BY <1>0, <1>7, RetireEffect
  <2>2. \A g \in Files : g # f => uid'[g] = uid[g] BY <1>2, <2>1 DEF TypeOK
  <2>3. \A g \in Files : g # f => FileSame(g) BY <1>1, <1>3, <2>1, <2>2, Others
  <2>4. row[f].name \in Names BY <1>2, <1>7 DEF FileFits, RowFits
  <2>5. FileFits(f)'
    BY <1>3, <1>4, <2>1, KnownNodes, KnownStay, <2>4, Numbers, <1>2 DEF RowFits, RenFits, FileFits,
      CallFits, Alive
  <2>6. \A v \in Workers : v # w /\ pc[v] # "idle" => F(v) # f BY <1>0, <1>1, <1>7, CreateAlone
  <2>7. AttemptFits(w)'
    BY <2>1, WaysIn, <1>1, <1>2, <1>3, <1>4, <1>6, <1>0 DEF AttemptFits, JobFits, CreateFits,
      RevisionFits, RenameFits, Early
  <2>8. ~Creator(w)' /\ pc'[w] # "idle" BY <2>1 DEF Creator, Early
  <2>9. Known(uid'[f]) /\ Known(row'[f].at) /\ Known(job'[w].node) BY <1>1, <2>1, KnownNodes
  <2> QED BY <1>3, <1>5, <2>3, <2>5, <2>6, <2>7, <2>8, <2>9, WorkerStep
<1>8. CASE row[f].kind # "create"
  <2>1. /\ pc'[w] = "trash" /\ ren' = ren /\ uid' = uid
        /\ row'[f].kind = "trash" /\ row'[f].at = job[w].node /\ ~Alive(f)
    BY <1>0, <1>4, <1>8, RetireEffect
  <2>2. \A g \in Files : g # f => FileSame(g) BY <1>1, <1>3, <2>1, Others
  <2>3. FileFits(f)'
    BY <1>2, <1>3, <1>4, <2>1 DEF FileFits, RowFits, RenFits, Alive, CallFits
  <2>4. ASSUME NEW v \in Workers, v # w, pc[v] # "idle", F(v) = f PROVE Spared(v)
    <3>1. f = job[v].file /\ job[v].kind # "revision" BY <1>4, <2>4, AtWork DEF F, JobFits
    <3> QED BY <1>3, <1>4, <1>5, <2>1, <2>4, <3>1 DEF F, Spared, Alive
  <2>5. AttemptFits(w)'
    BY <2>1, WaysIn, <1>1, <1>2, <1>3, <1>4, <1>6, <1>0 DEF AttemptFits, JobFits, Adopts, Alive,
      CreateFits, RevisionFits, RenameFits, Early
  <2>6. ~Creator(w)' /\ pc'[w] # "idle" BY <2>1 DEF Creator, Early
  <2>7. Known(uid'[f]) /\ Known(row'[f].at) /\ Known(job'[w].node) BY <1>1, <2>1, KnownNodes
  <2> QED BY <1>3, <1>5, <2>2, <2>3, <2>4, <2>5, <2>6, <2>7, WorkerStep
<1> QED BY <1>7, <1>8

(* Steps on which the attempt goes on. *)
LEMMA OnwardInv ==
  ASSUME Inv, TypeOK', NEW w \in Workers,
         \/ CheckHeld(w) \/ Repoint(w) \/ AdoptAsk(w) \/ AdoptRead(w) \/ AdoptPlace(w)
         \/ TrashFind(w) \/ TrashSend(w)
  PROVE  Inv'
<1>0. /\ TypeOK /\ pc[w] \in {"held", "repoint", "ask", "read", "place", "find", "trash"}
      /\ pc[w] # "idle"
  BY DEF Inv, CheckHeld, Repoint, AdoptAsk, AdoptRead, AdoptPlace, TrashFind, TrashSend
<1>1. /\ F(w) \in Files /\ AttemptFits(w) /\ Known(job[w].node)
      /\ job[w].kind \in {"create", "revision", "trash", "rename"}
      /\ pc[w] \in Adopts \cup {"repoint"} => job[w].node = uid[F(w)] /\ uid[F(w)] # Local
      /\ job[w].kind = "trash" => ~Alive(F(w))
  BY <1>0, AtWork, KindAt, KnownNodes DEF AttemptFits, JobFits
<1>2. row[F(w)].kind = "create" => pc[w] = "held" /\ job[w].kind = "create"
  BY <1>0, <1>1 DEF AttemptFits, JobFits, Early
<1>3. /\ UNCHANGED <<dbVars, callVars, sweepVars, toldVars>>
      /\ \A g \in unadopted' : g \in unadopted \/ uid[g] # Local
  BY <1>0, <1>1 DEF CheckHeld, Repoint, AdoptAsk, AdoptRead, AdoptPlace, TrashFind, TrashSend,
    treeVars, Adopts
<1>4. \A g \in Files : FileSame(g) BY <1>3, AllSame
<1>5. CASE CheckHeld(w)
  <2>1. /\ pc[w] = "held" /\ OnePc(w, pc'[w]) /\ OneJob(w, job'[w]) /\ SameOp(job[w], job'[w])
        /\ job'[w].node = job[w].node /\ job'[w].sent = job[w].sent
        /\ job[w].kind = "create" => pc'[w] \in {"note", "fail"}
        /\ job[w].kind = "rename" => pc'[w] \in {"send", "fail"}
        /\ job[w].kind \in {"create", "rename"} /\ DriveKept
    BY <1>0, <1>5, HeldEffect, KindAt, DriveSteps DEF CheckHeld
  <2>2. pc'[w] \in Way[job[w].kind] /\ pc'[w] # "idle" BY <2>1, WaysIn
  <2>3. job[w].kind = "create" => /\ Alive(F(w)) => row[F(w)].kind = "create"
                                  /\ job[w].sent = job[w].name
    BY <1>1, <2>1 DEF AttemptFits, CreateFits, Early
  <2>4. CASE job[w].kind = "create"
    BY <1>0, <1>1, <1>4, <2>1, <2>2, <2>3, <2>4, GoesOn DEF Early, Adopts, SameOp
  <2>5. CASE job[w].kind = "rename" BY <1>0, <1>1, <1>2, <1>4, <2>1, <2>2, <2>5, GoesOn
  <2> QED BY <2>1, <2>4, <2>5
<1>6. CASE Repoint(w) \/ AdoptAsk(w)
  <2>1. /\ OnePc(w, pc'[w]) /\ SameOp(job[w], job'[w]) /\ (job' = job \/ OneJob(w, job'[w]))
        /\ job'[w].node = job[w].node /\ DriveKept /\ pc[w] \in Adopts \cup {"repoint"}
        /\ \/ pc'[w] = "read"
           \/ pc'[w] = "ask" /\ job[w].kind = "create"
    <3>1. CASE Repoint(w)
      BY <1>0, <3>1, KindAt, OneTypes, DriveSteps DEF Repoint, WorkerPc, OnePc, SameOp
    <3>2. CASE AdoptAsk(w) BY <3>2, AskEffect, DriveSteps DEF AdoptAsk, Adopts
    <3> QED BY <1>6, <3>1, <3>2
  <2>2. pc'[w] \in Way[job[w].kind] /\ pc'[w] # "idle" BY <1>1, <2>1, WaysIn
  <2> QED BY <1>0, <1>1, <1>2, <1>4, <2>1, <2>2, GoesOn DEF Early, Adopts
<1>7. CASE AdoptRead(w) \/ AdoptPlace(w)
  <2>1. /\ OnePc(w, pc'[w]) /\ SameOp(job[w], job'[w]) /\ (job' = job \/ OneJob(w, job'[w]))
        /\ job'[w].node = job[w].node /\ DriveKept /\ pc[w] \in Adopts
        /\ \/ pc'[w] = "place"
           \/ job[w].kind = "create" /\ pc'[w] = "discard"
           \/ job[w].kind = "revision" /\ pc'[w] \in {"revise", "fail"}
           \/ job[w].kind = "rename" /\ pc'[w] \in {"send", "fail"}
           \/ job[w].kind = "trash" /\ pc'[w] \in {"trash", "fail"}
    <3>1. CASE AdoptRead(w)
      BY <3>1, DriveSteps, ReadEffect, <1>1 DEF AdoptRead, Adopts
    <3>2. CASE AdoptPlace(w)
      <4>1. DriveKept /\ pc[w] \in Adopts BY <3>2, DriveSteps DEF AdoptPlace, Adopts
      <4> QED BY <1>1, <3>2, <4>1, PlaceEffect DEF SameOp
    <3> QED BY <1>7, <3>1, <3>2
  <2>2. pc'[w] \in Way[job[w].kind] /\ pc'[w] # "idle" BY <1>1, <2>1, WaysIn
  <2> QED BY <1>0, <1>1, <1>2, <1>4, <2>1, <2>2, GoesOn DEF Early, Adopts
<1>8. CASE TrashFind(w) \/ TrashSend(w)
  <2>1. /\ OnePc(w, pc'[w]) /\ SameOp(job[w], job'[w]) /\ (job' = job \/ OneJob(w, job'[w]))
        /\ Known(job'[w].node) /\ DriveKept /\ pc[w] \in {"find", "trash"}
        /\ pc'[w] \in {"trash", "trashed", "fail"} /\ job[w].kind \in {"create", "trash"}
        /\ pc'[w] = "trash" => job'[w].node # Local /\ job[w].kind = "trash"
        /\ pc'[w] = "trashed" => job[w].kind = "trash" \/ pc[w] = "trash"
    <3>1. CASE TrashFind(w)
      BY <3>1, DriveSteps, FindEffect, <1>0, <1>1, TwinOurs DEF TrashFind
    <3>2. CASE TrashSend(w)
      BY <3>2, TrashSendEffect, DriveSteps, <1>0, <1>1, KindAt DEF Inv, NotTheirs, SameOp
    <3> QED BY <1>8, <3>1, <3>2
  <2>2. pc'[w] \in Way[job[w].kind] /\ pc'[w] # "idle" BY <1>1, <2>1, WaysIn
  <2>3. ~Alive(F(w)) BY <1>1, <2>1 DEF AttemptFits, JobFits
  <2> QED BY <1>0, <1>1, <1>2, <1>4, <2>1, <2>2, <2>3, GoesOn DEF Early, Adopts
<1> QED BY <1>5, <1>6, <1>7, <1>8

(* The names of what is left of a queue of renames. *)
LEMMA RenamesLeft ==
  ASSUME TypeOK, NEW f \in Files, RenFits(f), uid' = uid, ren[f] # <<>>,
         \/ ren'[f] = Tail(ren[f])
         \/ /\ Len(ren'[f]) = Len(ren[f]) /\ ren'[f] # <<>>
            /\ \A i \in 1 .. Len(ren[f]) : ren'[f][i].name = ren[f][i].name
  PROVE  RenFits(f)'
<1>1. CASE ren'[f] = Tail(ren[f])
  BY <1>1, RenTail DEF RenFits
<1>2. CASE /\ Len(ren'[f]) = Len(ren[f]) /\ ren'[f] # <<>>
           /\ \A i \in 1 .. Len(ren[f]) : ren'[f][i].name = ren[f][i].name
  BY <1>2 DEF RenFits
<1> QED BY <1>1, <1>2

LEMMA EndInv ==
  ASSUME Inv, TypeOK', NEW w \in Workers,
         Fail(w) \/ CreateEnd(w) \/ Revise(w) \/ RenameRetire(w) \/ TrashRetire(w)
  PROVE  Inv'
<1>0. /\ TypeOK /\ pc[w] # "idle"
      /\ UNCHANGED <<uid, callVars, sweepVars, toldVars, open, hidden, unadopted>>
  BY DEF Inv, Fail, CreateEnd, Revise, RenameRetire, TrashRetire, treeVars
<1>1. /\ uid' = uid /\ call' = call /\ age' = age /\ verdict' = verdict /\ named' = named
      /\ unadopted' = unadopted
  BY <1>0 DEF callVars, sweepVars, toldVars
<1>2. PICK f \in Files : f = F(w) BY <1>0, AtWork
<1>3. /\ FileFits(f) /\ AttemptFits(w) /\ Known(row[f].at) /\ Known(Local)
      /\ row[f] \in Row
  BY <1>0, <1>2, AtWork, KnownNodes DEF AttemptFits
<1>4. CASE Fail(w)
  <2>1. /\ UNCHANGED <<listed, driveVars>> /\ DriveKept /\ More /\ nnode' = nnode
    BY <1>4, DriveSteps DEF Fail, DriveKept, driveVars
  <2>2. /\ OnePc(w, "idle") /\ OneJob(w, NoJob) /\ OneRow(f, row'[f]) /\ OneRen(f, ren'[f])
        /\ row'[f].kind = row[f].kind /\ row'[f].name = row[f].name /\ row'[f].blob = row[f].blob
        /\ row'[f].at = row[f].at /\ row'[f].parked = row[f].parked
        /\ row'[f].owner \in {row[f].owner, NoOne}
    BY <1>2, <1>4, FailEffect
  <2>3. \/ ren'[f] = ren[f]
        \/ /\ ren[f] # <<>> /\ ren[f][1].owner = w
           /\ \/ ren'[f] = Tail(ren[f])
              \/ /\ Len(ren'[f]) = Len(ren[f]) /\ ren'[f] # <<>>
                 /\ \A i \in 1 .. Len(ren[f]) : ren'[f][i].name = ren[f][i].name
    BY <1>2, <1>4, FailEffect
  <2>4. RenFits(f)'
    <3>1. CASE ren'[f] = ren[f] BY <1>1, <1>3, <3>1 DEF FileFits, RenFits
    <3> QED BY <1>0, <1>1, <1>3, <2>3, <3>1, RenamesLeft DEF FileFits
  <2>5. row[f].kind = "create" => ren'[f] = <<>> BY <1>3, <2>3 DEF FileFits, RowFits
  <2>6. RowFits(f)' BY <1>1, <1>3, <2>1, <2>2, <2>5 DEF FileFits, RowFits, Alive
  <2>7. row'[f].kind = "none" => row[f].kind = "none" BY <2>2
  <2> QED BY <1>0, <1>1, <1>2, <1>3, <2>1, <2>2, <2>3, <2>4, <2>6, <2>7, Ends
<1>5. CASE CreateEnd(w)
  BY <1>5, DriveSteps, <1>2, EndEffect, <1>1, <1>3, <1>0, Ends DEF CreateEnd, DriveKept, driveVars,
    FileFits, RowFits, RenFits, Alive
<1>6. CASE Revise(w)
  <2>1. /\ OnePc(w, "idle") /\ OneJob(w, NoJob) /\ UNCHANGED <<ren, listed>>
        /\ job[w].node = uid[f] /\ uid[f] \in 1 .. nnode /\ job[w].kind = "revision"
        /\ \/ /\ row[f].owner = w /\ row[f].kind = "revision"
              /\ ChangedNode(uid[f], job[w].blob, node[uid[f]].trashed)
              /\ OneRow(f, NoRow)
           \/ UNCHANGED <<node, nnode, row>>
    BY <1>2, <1>6, ReviseEffect DEF Revise
  <2>2. Ours(uid[f]) BY DEF Inv, NotTheirs
  <2>3. DriveKept /\ nnode' = nnode /\ More
    <3>1. UNCHANGED driveVars \/ ChangedNode(uid[f], job[w].blob, node[uid[f]].trashed)
      BY <2>1 DEF driveVars
    <3>2. DriveKept BY <2>1, <2>2, <3>1, DriveSteps
    <3> QED BY <3>1, <3>2 DEF ChangedNode, driveVars, DriveKept
  <2>4. /\ row' = row \/ OneRow(f, row'[f])
        /\ row'[f] = row[f] \/ (row'[f] = NoRow /\ row[f].kind = "revision" /\ row[f].owner = w)
    BY <2>1 DEF OneRow
  <2>5. 0 \in 0 .. nnode' /\ Local = 0 BY <2>3, Constants DEF More
  <2>6. RowFits(f)' /\ RenFits(f)'
    BY <1>1, <1>3, <2>1, <2>3, <2>4, <2>5 DEF FileFits, RowFits, RenFits, Alive, NoRow
  <2> QED BY <1>0, <1>1, <1>2, <1>3, <2>1, <2>3, <2>4, <2>6, Ends DEF NoRow
<1>7. CASE RenameRetire(w)
  <2>1. /\ UNCHANGED <<row, listed, driveVars>> /\ DriveKept /\ More /\ nnode' = nnode
    BY <1>7, DriveSteps DEF RenameRetire, DriveKept, driveVars
  <2>2. /\ OnePc(w, "idle") /\ OneJob(w, NoJob) /\ OneRen(f, ren'[f]) /\ job[w].kind = "rename"
        /\ \/ ren' = ren
           \/ ren[f] # <<>> /\ ren[f][1].owner = w /\ ren'[f] = Tail(ren[f])
    BY <1>2, <1>7, RenamedEffect
  <2>3. RenFits(f)'
    <3>1. CASE ren' = ren BY <1>1, <1>3, <3>1 DEF FileFits, RenFits
    <3> QED BY <1>0, <1>1, <1>3, <2>2, <3>1, RenamesLeft DEF FileFits
  <2>4. row[f].kind # "create" BY <1>2, <1>3, <2>2 DEF AttemptFits, JobFits
  <2>5. RowFits(f)' BY <1>1, <1>3, <2>1, <2>4 DEF FileFits, RowFits, Alive
  <2> QED BY <1>0, <1>1, <1>2, <1>3, <2>1, <2>2, <2>3, <2>5, Ends
<1>8. CASE TrashRetire(w)
  <2>1. /\ pc[w] = "trashed" /\ UNCHANGED <<ren, driveVars>> /\ DriveKept /\ More /\ nnode' = nnode
        /\ listed' = listed \ {f}
    BY <1>2, <1>8, DriveSteps DEF TrashRetire, DriveKept, driveVars
  <2>2. OnePc(w, "idle") /\ OneJob(w, NoJob) BY <1>0, <1>8, IdleEffect DEF TrashRetire, Idle
  <2>3. OneRow(f, NoRow) BY <1>0, <1>2, <1>8, Blanks, OneTypes DEF TrashRetire
  <2>4. row[f].kind # "create" /\ ~Alive(f) BY <1>2, <1>3, <2>1 DEF AttemptFits, JobFits, Early
  <2>5. row'[f] = NoRow /\ OneRow(f, row'[f]) BY <2>3 DEF OneRow
  <2>6. 0 \in 0 .. nnode' /\ Local = 0 BY <2>1, Constants DEF More
  <2>7. RowFits(f)' /\ RenFits(f)'
    BY <1>1, <1>3, <2>1, <2>5, <2>6 DEF FileFits, RowFits, RenFits, Alive, NoRow
  <2> QED BY <1>0, <1>1, <1>2, <1>3, <2>1, <2>2, <2>4, <2>5, <2>7, Ends DEF NoRow
<1> QED BY <1>4, <1>5, <1>6, <1>7, <1>8

LEMMA InvNext == Inv /\ [Next]_vars => Inv'
<1> SUFFICES ASSUME Inv, [Next]_vars PROVE Inv' OBVIOUS
<1>0. TypeOK' BY NextType
<1>1. CASE UserNext BY <1>0, <1>1, MintInv, OpenInv, ReleaseInv, RenameInv, DeleteInv DEF UserNext
<1>2. CASE SweepNext BY <1>0, <1>2, SweepInv DEF SweepNext
<1>3. CASE \E w \in Workers : Step(w)
  BY <1>0, <1>3, LookInv, NoteInv, SendInv, RetireInv, OnwardInv, EndInv DEF Step
<1>4. CASE \E w \in Workers, f \in Files : ClaimRow(w, f) \/ ClaimRename(w, f)
  BY <1>0, <1>4, ClaimRowInv, ClaimRenameInv
<1>5. CASE \E n \in Names : ForeignCreate(n) BY <1>0, <1>5, ForeignInv
<1>6. CASE Crash BY <1>0, <1>6, CrashInv
<1>7. CASE UNCHANGED vars
  <2>1. Inv' = Inv
    BY <1>7 DEF vars, dbVars, treeVars, callVars, drainVars, sweepVars, driveVars, toldVars,
      boundVars, Inv, TypeOK, FileFits, RowFits, RenFits, CallFits, Alive, JobFits, CreateFits,
      RevisionFits, RenameFits, OneCreator, NotTheirs, Ours, F
  <2> QED BY <2>1
<1> QED BY <1>1, <1>2, <1>3, <1>4, <1>5, <1>6, <1>7 DEF Next

(* Every variable keeps its type, whatever fails and whenever the program  *)
(* is restarted.                                                           *)
THEOREM TypeCorrect == Spec => []TypeOK
<1>1. Init => Inv BY InitInv
<1>2. Inv /\ [Next]_vars => Inv' BY InvNext
<1>3. Inv => TypeOK BY DEF Inv
<1> QED BY <1>1, <1>2, <1>3, PTL DEF Spec

(* The invariant holds in every reachable state. *)
THEOREM Invariant == Spec => []Inv
<1>1. Init => Inv BY InitInv
<1>2. Inv /\ [Next]_vars => Inv' BY InvNext
<1> QED BY <1>1, <1>2, PTL DEF Spec

(* No node another device made is trashed or taken for ours, whoever makes *)
(* what under which name, and across lost answers and restarts (adoptable, *)
(* withdrawn_twin_in).                                                     *)
THEOREM OthersLeftAlone == Spec => []TheirsAlone
<1>1. Inv => TheirsAlone BY DEF Inv, NotTheirs, Ours, TheirsAlone
<1> QED BY <1>1, Invariant, PTL

(* ------------ What a step of an attempt does, in short ------------ *)
LEMMA StepFrame ==
  ASSUME NEW w \in Workers, Step(w)
  PROVE  UNCHANGED <<callVars, sweepVars, toldVars, open>> /\ pc[w] # "idle"
<1>1. UNCHANGED <<callVars, sweepVars, toldVars>> /\ pc[w] # "idle"
  BY ZenonT(30) DEF Step, CreateLook, CreateNote, RenameGone, Send, CreateClash, CheckHeld, Fail,
    CreateRetire, Repoint, AdoptAsk, AdoptRead, AdoptPlace, CreateEnd, Revise, RenameRetire,
    TrashFind, TrashSend, TrashRetire
<1>2. open' = open
  BY Zenon DEF Step, CreateLook, CreateNote, RenameGone, Send, CreateClash, CheckHeld, Fail,
    CreateRetire, Repoint, AdoptAsk, AdoptRead, AdoptPlace, CreateEnd, Revise, RenameRetire,
    TrashFind, TrashSend, TrashRetire, treeVars
<1> QED BY <1>1, <1>2, Zenon

(* The attempt stays at its op, or is over. *)
LEMMA StepJob ==
  ASSUME Inv, NEW w \in Workers, Step(w)
  PROVE  /\ OnePc(w, pc'[w]) /\ (job' = job \/ OneJob(w, job'[w]))
         /\ IF pc'[w] = "idle" THEN job'[w] = NoJob ELSE SameOp(job[w], job'[w])
<1>0. TypeOK /\ pc[w] # "idle" BY StepFrame DEF Inv
<1>1. CASE CreateLook(w) \/ CreateClash(w)
  BY <1>1, LookEffect, <1>0, AdoptEffect DEF SameOp
<1>2. CASE CreateNote(w) \/ AdoptPlace(w) \/ Repoint(w) \/ RenameGone(w) \/ CreateRetire(w)
  <2>1. job' = job /\ SameOp(job[w], job'[w])
    BY <1>2 DEF CreateNote, AdoptPlace, Repoint, RenameGone, CreateRetire, SameOp
  <2>2. OnePc(w, pc'[w])
    <3>1. CASE CreateNote(w) BY <3>1, NoteEffect
    <3>2. CASE AdoptPlace(w) BY <3>2, PlaceEffect
    <3>3. CASE Repoint(w) \/ RenameGone(w)
      BY <1>0, <3>3, OneTypes DEF Repoint, RenameGone, WorkerPc, OnePc
    <3>4. CASE CreateRetire(w) BY <3>4, RetireEffect
    <3> QED BY <1>2, <3>1, <3>2, <3>3, <3>4
  <2>3. pc'[w] # "idle"
    <3>1. CASE CreateNote(w) BY <3>1, NoteEffect
    <3>2. CASE AdoptPlace(w) BY <3>2, PlaceEffect, KindAt
    <3>3. CASE Repoint(w) \/ RenameGone(w) BY <1>0, <3>3 DEF Repoint, RenameGone, Goto, TypeOK
    <3>4. CASE CreateRetire(w) BY <3>4, RetireEffect
    <3> QED BY <1>2, <3>1, <3>2, <3>3, <3>4
  <2> QED BY <2>1, <2>2, <2>3
<1>3. CASE Send(w)
  <2>1. OnePc(w, pc'[w]) /\ job[w].kind \in {"create", "rename"} /\ pc[w] = "send"
    BY <1>3, SendEffect, KindAt, <1>0
  <2>2. CASE AfterTaken(w) BY <2>1, <2>2, TakenEffect
  <2>3. CASE pc'[w] \in {"retire", "fail"}
    <3>1. SameOp(job[w], job'[w]) /\ (job' = job \/ OneJob(w, job'[w]))
      BY <1>3, <2>1, <2>3, SendEffect, TakenEffect DEF SameOp
    <3> QED BY <2>1, <2>3, <3>1
  <2> QED BY <1>3, <2>2, <2>3, SendEffect
<1>4. CASE CheckHeld(w) BY <1>4, HeldEffect, KindAt, <1>0
<1>5. CASE AdoptAsk(w) BY <1>5, AskEffect
<1>6. CASE AdoptRead(w)
  BY <1>6, ReadEffect
<1>7. CASE TrashFind(w) \/ TrashSend(w) BY <1>7, FindEffect, TrashSendEffect DEF SameOp
<1>8. CASE Fail(w) \/ CreateEnd(w) \/ Revise(w) \/ RenameRetire(w) \/ TrashRetire(w)
  <2>1. Goto(w, "idle") /\ job' = [job EXCEPT ![w] = NoJob]
    BY <1>8 DEF Fail, CreateEnd, Revise, RenameRetire, TrashRetire, Idle
  <2> QED BY <1>0, <2>1, IdleEffect
<1> QED BY <1>1, <1>2, <1>3, <1>4, <1>5, <1>6, <1>7, <1>8 DEF Step

(* The create of a file changes hands, or is over; one being sent is noted.*)
LEMMA StepRow ==
  ASSUME Inv, NEW w \in Workers, NEW f \in Files, f = F(w), Step(w)
  PROVE  /\ row' = row \/ OneRow(f, row'[f])
         /\ row'[f].kind = "create" =>
              /\ row[f].kind = "create" /\ row'[f].parked = row[f].parked
              /\ row'[f].name = row[f].name /\ row'[f].blob = row[f].blob
<1>0. TypeOK BY DEF Inv
<1>1. CASE CreateNote(w) BY <1>1, NoteEffect
<1>2. CASE Fail(w) BY <1>2, FailEffect
<1>3. CASE CreateRetire(w) BY <1>3, RetireEffect
<1>4. CASE CreateEnd(w) BY <1>4, EndEffect
<1>5. CASE Revise(w) BY <1>5, ReviseEffect DEF NoRow, OneRow
<1>6. CASE TrashRetire(w)
  <2>1. OneRow(f, NoRow) BY <1>0, <1>6, Blanks, OneTypes DEF TrashRetire
  <2> QED BY <2>1 DEF NoRow, OneRow
<1>7. CASE \/ CreateLook(w) \/ RenameGone(w) \/ Send(w) \/ CreateClash(w) \/ CheckHeld(w)
           \/ Repoint(w) \/ AdoptAsk(w) \/ AdoptRead(w) \/ AdoptPlace(w) \/ RenameRetire(w)
           \/ TrashFind(w) \/ TrashSend(w)
  BY <1>7 DEF CreateLook, RenameGone, Send, CreateClash, CheckHeld, Repoint, AdoptAsk, AdoptRead,
    AdoptPlace, RenameRetire, TrashFind, TrashSend, dbVars
<1> QED BY <1>1, <1>2, <1>3, <1>4, <1>5, <1>6, <1>7 DEF Step

(* Nodes are made by a create that is sent, and by no other step. *)
LEMMA StepDrive ==
  ASSUME Inv, NEW w \in Workers, Step(w)
  PROVE  /\ DriveKept
         /\ \/ nnode' = nnode
            \/ /\ Send(w) /\ job[w].kind = "create" /\ Applied(w)
               /\ NewNode(SendName(w), job[w].blob, F(w))
<1>0. pc[w] # "idle" BY StepFrame
<1>1. CASE Send(w)
  <2>1. pc[w] = "send" /\ job[w].kind \in {"create", "rename"} /\ F(w) \in Files
    BY <1>0, <1>1, SendEffect, KindAt, AtWork
  <2>2. UNCHANGED driveVars \/ Applied(w) BY <1>1, SendEffect
  <2>3. CASE UNCHANGED driveVars BY <2>3, DriveSteps DEF driveVars
  <2>4. CASE Applied(w)
    <3>1. CASE job[w].kind = "create"
      BY <1>1, <2>1, <2>4, <3>1, AppliedEffect, DriveSteps, Constants
    <3>2. CASE job[w].kind = "rename"
      <4>1. RenamedNode(job[w].node, SendName(w)) BY <2>1, <2>4, <3>2, AppliedEffect
      <4>2. DriveKept BY <4>1, DriveSteps
      <4> QED BY <4>1, <4>2 DEF RenamedNode
    <3> QED BY <2>1, <3>1, <3>2
  <2> QED BY <2>2, <2>3, <2>4
<1>2. CASE Revise(w)
  <2>1. /\ Ours(uid[F(w)]) /\ uid[F(w)] \in 1 .. nnode
        /\ \/ ChangedNode(uid[F(w)], job[w].blob, node[uid[F(w)]].trashed)
           \/ UNCHANGED <<node, nnode>>
    BY <1>0, <1>2, ReviseEffect, AtWork DEF Inv, NotTheirs
  <2>2. DriveKept BY <2>1, DriveSteps DEF driveVars
  <2> QED BY <2>1, <2>2 DEF ChangedNode
<1>3. CASE TrashSend(w)
  <2>1. /\ Ours(job[w].node) /\ job[w].node \in 1 .. nnode
        /\ \/ ChangedNode(job[w].node, node[job[w].node].body, TRUE)
           \/ UNCHANGED driveVars
    BY <1>3, TrashSendEffect DEF Inv, NotTheirs
  <2>2. DriveKept BY <2>1, DriveSteps
  <2> QED BY <2>1, <2>2 DEF ChangedNode, driveVars
<1>4. CASE \/ CreateLook(w) \/ CreateNote(w) \/ RenameGone(w) \/ CreateClash(w) \/ CheckHeld(w)
           \/ Fail(w) \/ CreateRetire(w) \/ Repoint(w) \/ AdoptAsk(w) \/ AdoptRead(w)
           \/ AdoptPlace(w) \/ CreateEnd(w) \/ RenameRetire(w) \/ TrashFind(w) \/ TrashRetire(w)
  <2>1. UNCHANGED driveVars
    BY <1>4 DEF CreateLook, CreateNote, RenameGone, CreateClash, CheckHeld, Fail, CreateRetire,
      Repoint, AdoptAsk, AdoptRead, AdoptPlace, CreateEnd, RenameRetire, TrashFind, TrashRetire
  <2> QED BY <2>1, DriveSteps DEF driveVars
<1> QED BY <1>1, <1>2, <1>3, <1>4 DEF Step

(* ------------ A file with no name of its own is not sent ------------ *)
(* A step that gives no such file a node, a create or an attempt.          *)
LEMMA ScratchFrame ==
  ASSUME ScratchInv,
         \A f \in Files : f \in named => f \in named',
         \A f \in Files : age[f] = "expired" => age'[f] = "expired",
         \A r \in 1 .. nnode' :
           \/ r \in 1 .. nnode /\ node'[r].by = node[r].by
           \/ \A f \in Files : node'[r].by = f => ~Scratch(f)',
         \A f \in Files : row'[f].kind = "create" =>
           \/ row[f].kind = "create" /\ row'[f].parked = row[f].parked
           \/ row'[f].parked \/ ~Scratch(f)',
         \A w \in Workers : pc'[w] # "idle" /\ job'[w].kind = "create" =>
           \/ pc[w] # "idle" /\ job[w].kind = "create" /\ job'[w].file = job[w].file
           \/ \A f \in Files : job'[w].file = f => ~Scratch(f)',
         \A f \in Files : f \notin named' /\ call'[f] = "renaming" =>
           \/ target'[f] \in Transient
           \/ call[f] = "renaming" /\ target'[f] = target[f],
         \A f \in Files : verdict'[f] = "release" => age'[f] = "expired" \/ verdict[f] = "release"
  PROVE  ScratchInv'
<1>1. \A f \in Files : Scratch(f)' => Scratch(f) BY DEF Scratch
<1>2. ASSUME NEW f \in Files, Scratch(f)' PROVE \A r \in 1 .. nnode' : node'[r].by # f
  BY <1>1, <1>2 DEF ScratchInv
<1>3. ASSUME NEW f \in Files, Scratch(f)', row'[f].kind = "create" PROVE row'[f].parked
  BY <1>1, <1>3 DEF ScratchInv
<1>4. ASSUME NEW f \in Files, Scratch(f)', NEW w \in Workers, pc'[w] # "idle",
             job'[w].kind = "create"
      PROVE  job'[w].file # f
  BY <1>1, <1>4 DEF ScratchInv, F
<1>5. \A f \in Files : f \notin named' /\ call'[f] = "renaming" => target'[f] \in Transient
  BY DEF ScratchInv
<1>6. \A f \in Files : verdict'[f] = "release" => age'[f] = "expired" BY DEF ScratchInv
<1> QED BY <1>2, <1>3, <1>4, <1>5, <1>6 DEF ScratchInv, F

LEMMA ScratchUser ==
  ASSUME Inv, ScratchInv, UserNext
  PROVE  ScratchInv'
<1>0. TypeOK BY DEF Inv
<1>1. PICK f \in Files : UserStep(f) BY Zenon DEF UserNext, UserStep
<1>2. age' = age /\ verdict' = verdict /\ pc' = pc /\ job' = job
  BY <1>1 DEF UserStep, Mint, MintUnanswered, QueueLocalNode, RenameStart, Intern, Open, Close,
    Release, RenameEnd, DeleteLocal, DeleteLanded, DeleteReal, Walk, sweepVars, drainVars
<1>3. CASE \E n \in Names : Mint(f, n) \/ MintUnanswered(f, n)
  <2>1. PICK n \in Names : Mint(f, n) \/ MintUnanswered(f, n) BY <1>3
  <2>2. QueueLocalNode(f, n) BY <2>1 DEF Mint, MintUnanswered
  <2>3. /\ named' = IF n \in Transient THEN named ELSE named \cup {f}
        /\ call' = [call EXCEPT ![f] = "minting"] /\ target' = target
    BY <2>2 DEF QueueLocalNode
  <2>4. \A g \in Files : call'[g] = "renaming" => call[g] = "renaming" BY <1>0, <2>3 DEF TypeOK
  <2>5. OneRow(f, row'[f]) /\ row'[f].parked = (n \in Transient)
    BY <1>0, <2>2, QueueEffect DEF OneRow
  <2>6. \A g \in Files : row'[g].kind = "create" =>
          \/ row[g].kind = "create" /\ row'[g].parked = row[g].parked
          \/ row'[g].parked \/ ~Scratch(g)'
    BY <2>3, <2>5 DEF OneRow, Scratch
  <2>7. UNCHANGED driveVars \/ (NewNode(n, Empty, f) /\ n \notin Transient)
    BY <1>0, <2>1, MintDrive
  <2>8. ASSUME NEW r \in 1 .. nnode'
        PROVE  \/ r \in 1 .. nnode /\ node'[r].by = node[r].by
               \/ \A g \in Files : node'[r].by = g => ~Scratch(g)'
    <3>1. CASE UNCHANGED driveVars BY <3>1 DEF driveVars
    <3>2. CASE NewNode(n, Empty, f) /\ n \notin Transient
      <4>1. r \in 1 .. nnode \/ r = nnode + 1 BY <3>2 DEF NewNode
      <4> QED BY <2>3, <3>2, <4>1 DEF NewNode, Scratch
    <3> QED BY <2>7, <3>1, <3>2
  <2> QED BY <1>2, <2>3, <2>4, <2>6, <2>8, ScratchFrame
<1>4. CASE \E n \in Names : RenameStart(f, n)
  <2>1. PICK n \in Names : RenameStart(f, n) BY <1>4
  <2>2. /\ named' = IF n \in Transient THEN named ELSE named \cup {f}
        /\ call' = [call EXCEPT ![f] = "renaming"] /\ target' = [target EXCEPT ![f] = n]
        /\ Retarget(f, n) /\ place[f] # NoName /\ UNCHANGED driveVars
    BY <2>1 DEF RenameStart
  <2>3. \A g \in Files : row'[g].kind = "create" =>
          row[g].kind = "create" /\ row'[g].parked = row[g].parked
    BY <1>0, <2>2, RetargetEffect DEF OneRow
  <2>4. \A g \in Files : g \notin named' /\ call'[g] = "renaming" =>
           \/ target'[g] \in Transient
           \/ call[g] = "renaming" /\ target'[g] = target[g]
    BY <1>0, <2>2 DEF TypeOK
  <2> QED BY <1>2, <2>2, <2>3, <2>4, ScratchFrame DEF driveVars
<1>5. CASE RenameEnd(f)
  <2>1. /\ named' = named /\ call' = [call EXCEPT ![f] = "idle"]
        /\ target' = [target EXCEPT ![f] = NoName] /\ UNCHANGED driveVars
        /\ call[f] = "renaming"
    BY <1>5 DEF RenameEnd, toldVars
  <2>2. \A g \in Files : call'[g] = "renaming" => call[g] = "renaming" /\ target'[g] = target[g]
    BY <1>0, <2>1 DEF TypeOK
  <2>3. f \notin named => target[f] \in Transient BY <2>1 DEF ScratchInv
  <2>4. PICK p \in BOOLEAN : /\ row' = [row EXCEPT ![f].parked = p]
                             /\ f \notin named => p = row[f].parked
    <3>1. row[f].parked \in BOOLEAN BY <1>0, RowFields DEF TypeOK
    <3> QED BY <1>5, <2>3, <3>1 DEF RenameEnd
  <2>5. \A g \in Files : g # f => row'[g] = row[g] BY <1>0, <2>4 DEF TypeOK
  <2>6. row'[f].kind = row[f].kind /\ row'[f].parked = p
    <3>1. row'[f] = [row[f] EXCEPT !.parked = p] /\ row[f] \in Row BY <1>0, <2>4 DEF TypeOK
    <3> QED BY <3>1 DEF Row
  <2>7. \A g \in Files : row'[g].kind = "create" =>
          \/ row[g].kind = "create" /\ row'[g].parked = row[g].parked
          \/ ~Scratch(g)'
    BY <2>1, <2>4, <2>5, <2>6 DEF Scratch
  <2> QED BY <1>2, <2>1, <2>2, <2>7, ScratchFrame DEF driveVars
<1>6. CASE \/ Intern(f) \/ Open(f) \/ Close(f) \/ Release(f) \/ DeleteLocal(f) \/ DeleteLanded(f)
           \/ DeleteReal(f) \/ Walk(f)
  <2>1. named' = named /\ target' = target /\ UNCHANGED driveVars
    BY <1>6 DEF Intern, Open, Close, Release, DeleteLocal, DeleteLanded, DeleteReal, Walk,
      Forgotten, toldVars, callVars
  <2>2. \/ call' = call
        \/ \E c \in {"idle", "dropping", "gone"} : call' = [call EXCEPT ![f] = c]
    BY <1>6 DEF Intern, Open, Close, Release, DeleteLocal, DeleteLanded, DeleteReal, Walk,
      Forgotten, callVars
  <2>3. \A g \in Files : call'[g] = "renaming" => call[g] = "renaming" BY <1>0, <2>2 DEF TypeOK
  <2>4. \A g \in Files : row'[g].kind = "create" =>
          row[g].kind = "create" /\ row'[g].parked = row[g].parked
    <3>1. CASE Release(f)
      <4>1. nblob + 1 \in Blob /\ row' = [row EXCEPT ![f] = Written(f, nblob + 1)]
        BY <1>0, <3>1, Constants DEF Release, TypeOK, Blob
      <4> HIDE DEF Written
      <4>2. /\ OneRow(f, row'[f])
            /\ row[f].kind = "create" => row'[f].parked = row[f].parked
            /\ row[f].kind # "create" => row'[f].kind = "revision"
        BY <1>0, <4>1, WrittenEffect DEF OneRow
      <4> QED BY <4>2 DEF OneRow
    <3>2. CASE DropOps(f) BY <1>0, <3>2, DropEffect DEF OneRow, NoRow
    <3>3. CASE QueueTrash(f) BY <1>0, <3>3, TrashEffect DEF OneRow
    <3>4. CASE row' = row BY <3>4
    <3> QED
      BY <1>6, <3>1, <3>2, <3>3, <3>4 DEF Intern, Open, Close, DeleteLocal, DeleteLanded,
        DeleteReal, Walk, dbVars
  <2> QED BY <1>2, <2>1, <2>3, <2>4, ScratchFrame DEF driveVars
<1> QED BY <1>1, <1>3, <1>4, <1>5, <1>6 DEF UserStep

LEMMA ScratchSweep ==
  ASSUME Inv, ScratchInv, NEW f \in Files, Grow(f) \/ SweepJudge(f) \/ SweepAct(f)
  PROVE  ScratchInv'
<1>0. TypeOK BY DEF Inv
<1>1. /\ pc' = pc /\ job' = job /\ UNCHANGED driveVars /\ named' = named /\ call' = call
      /\ target' = target
  BY DEF Grow, SweepJudge, SweepAct, drainVars, callVars, toldVars
<1>2. CASE Grow(f) BY <1>0, <1>1, <1>2, ScratchFrame DEF Grow, dbVars, driveVars, TypeOK
<1>3. CASE SweepJudge(f)
  BY <1>3, <1>0, <1>1, ScratchFrame DEF SweepJudge, dbVars, TypeOK, ParkVerdict, driveVars
<1>4. CASE SweepAct(f)
  <2>1. age' = age /\ verdict' = [verdict EXCEPT ![f] = "none"] BY <1>4 DEF SweepAct
  <2>2. \A g \in Files : verdict'[g] = "release" => verdict[g] = "release" BY <1>0, <2>1 DEF TypeOK
  <2>3. CASE DropOps(f)
    BY <1>0, <2>3, DropEffect, <1>1, <2>1, <2>2, ScratchFrame DEF OneRow, NoRow, driveVars
  <2>4. CASE verdict[f] = "release" /\ row' = [row EXCEPT ![f].parked = FALSE]
    <3>1. ~Scratch(f)' /\ \A g \in Files : g # f => row'[g] = row[g]
      BY <1>0, <2>1, <2>4 DEF ScratchInv, Scratch, TypeOK
    <3>2. row'[f].kind = row[f].kind
      <4>1. row'[f] = [row[f] EXCEPT !.parked = FALSE] /\ row[f] \in Row BY <1>0, <2>4 DEF TypeOK
      <4> QED BY <4>1 DEF Row
    <3> QED BY <1>1, <2>1, <2>2, <3>1, <3>2, ScratchFrame DEF driveVars
  <2> QED BY <1>4, <2>3, <2>4 DEF SweepAct
<1> QED BY <1>2, <1>3, <1>4

LEMMA ScratchStep ==
  ASSUME Inv, ScratchInv, NEW w \in Workers, Step(w)
  PROVE  ScratchInv'
<1>1. /\ named' = named /\ age' = age /\ verdict' = verdict /\ call' = call /\ target' = target
      /\ pc[w] # "idle"
  BY StepFrame DEF callVars, sweepVars, toldVars
<1>2. PICK f \in Files : f = F(w) BY <1>1, AtWork
<1>3. \A g \in Files : row'[g].kind = "create" =>
        row[g].kind = "create" /\ row'[g].parked = row[g].parked
  BY <1>2, StepRow DEF OneRow
<1>4. \A v \in Workers : pc'[v] # "idle" /\ job'[v].kind = "create" =>
        pc[v] # "idle" /\ job[v].kind = "create" /\ job'[v].file = job[v].file
  BY <1>1, StepJob DEF OnePc, OneJob, SameOp
<1>5. DriveKept BY StepDrive
<1>6. ASSUME NEW r \in 1 .. nnode'
      PROVE  \/ r \in 1 .. nnode /\ node'[r].by = node[r].by
             \/ \A g \in Files : node'[r].by = g => ~Scratch(g)'
  <2>1. CASE nnode' = nnode BY <1>5, <2>1 DEF DriveKept
  <2>2. CASE job[w].kind = "create" /\ NewNode(SendName(w), job[w].blob, F(w))
    <3>1. r \in 1 .. nnode \/ r = nnode + 1 BY <2>2 DEF NewNode
    <3>2. ~Scratch(f)' BY <1>1, <1>2, <2>2 DEF ScratchInv, Scratch
    <3> QED BY <1>2, <2>2, <3>1, <3>2 DEF NewNode
  <2> QED BY <2>1, <2>2, StepDrive
<1> QED BY <1>1, <1>3, <1>4, <1>6, ScratchFrame

LEMMA ScratchNext == Inv /\ ScratchInv /\ [Next]_vars => ScratchInv'
<1> SUFFICES ASSUME Inv, ScratchInv, [Next]_vars PROVE ScratchInv' OBVIOUS
<1>0. TypeOK BY DEF Inv
<1>1. CASE UserNext BY <1>1, ScratchUser
<1>2. CASE SweepNext BY <1>2, ScratchSweep DEF SweepNext
<1>3. CASE \E w \in Workers : Step(w) BY <1>3, ScratchStep
<1>4. ASSUME NEW w \in Workers, NEW f \in Files, ClaimRow(w, f) \/ ClaimRename(w, f)
      PROVE  ScratchInv'
  <2>1. UNCHANGED <<callVars, sweepVars, driveVars, toldVars>> BY <1>4 DEF ClaimRow, ClaimRename
  <2>2. /\ named' = named /\ age' = age /\ verdict' = verdict /\ call' = call /\ target' = target
        /\ node' = node /\ nnode' = nnode
    BY <2>1 DEF callVars, sweepVars, driveVars, toldVars
  <2>3. CASE ClaimRow(w, f)
    <3>0. ~row[f].parked BY <2>3 DEF ClaimRow
    <3>1. /\ OneRow(f, row'[f]) /\ row'[f].kind = row[f].kind /\ row'[f].parked = row[f].parked
          /\ OneJob(w, job'[w])
          /\ job'[w].file = f /\ job'[w].kind = row[f].kind
      BY <1>0, <2>3, ClaimRowEffect
    <3>4. OnePc(w, pc'[w]) BY <1>0, <2>3, ClaimRowWay
    <3>2. row[f].kind = "create" => ~Scratch(f)' BY <2>2, <3>0, <3>1 DEF ScratchInv, Scratch
    <3> QED BY <2>2, <3>1, <3>4, <3>2, ScratchFrame DEF OneRow, OneJob, OnePc
  <2>4. CASE ClaimRename(w, f)
    <3>1. /\ row' = row /\ OneJob(w, job'[w]) /\ OnePc(w, pc'[w]) /\ job'[w].kind = "rename"
      BY <2>4, ClaimRenameEffect DEF ClaimRename
    <3> QED BY <2>2, <3>1, ScratchFrame DEF OneJob, OnePc
  <2> QED BY <1>4, <2>3, <2>4
<1>5. ASSUME NEW n \in Names, ForeignCreate(n) PROVE ScratchInv'
  <2>1. /\ UNCHANGED <<dbVars, callVars, drainVars, sweepVars, toldVars>>
        /\ nnode < MaxNode /\ node' = Made(n, Theirs, Other) /\ nnode' = nnode + 1
    BY <1>5 DEF ForeignCreate
  <2>2. n \in Name /\ Theirs \in 0 .. MaxBlob + 1 BY NameFacts, Constants
  <2>3. NewNode(n, Theirs, Other) BY <1>0, <2>1, <2>2, MadeType DEF NewNode
  <2>4. \A r \in 1 .. nnode' : \/ r \in 1 .. nnode /\ node'[r].by = node[r].by
                               \/ \A f \in Files : node'[r].by # f
    BY <2>3, Constants DEF NewNode
  <2> QED BY <2>1, <2>4, ScratchFrame DEF dbVars, callVars, drainVars, sweepVars, toldVars
<1>6. CASE Crash
  <2>1. /\ UNCHANGED driveVars /\ named' = named /\ age' = age
        /\ \A f \in Files : verdict'[f] = "none" /\ call'[f] # "renaming"
    <3>1. ASSUME NEW f \in Files PROVE call'[f] # "renaming"
      BY <1>6 DEF Crash
    <3> QED BY <1>6, <3>1 DEF Crash
  <2>2. /\ \A f \in Files : row'[f].kind = row[f].kind /\ row'[f].parked = row[f].parked
        /\ \A w \in Workers : pc'[w] = "idle"
    BY <1>0, <1>6, CrashEffect
  <2> QED BY <2>1, <2>2, ScratchFrame DEF driveVars
<1>7. CASE UNCHANGED vars
  BY <1>7, ScratchFrame DEF vars, dbVars, callVars, drainVars, sweepVars, driveVars, toldVars
<1> QED BY <1>1, <1>2, <1>3, <1>4, <1>5, <1>6, <1>7 DEF Next

(* A file that never had a name of its own is not sent before the sweep    *)
(* has given it up for one that keeps its name, however it is written,     *)
(* renamed and deleted (attach_blob_to_create, set_create_hold,            *)
(* park_verdict).                                                          *)
THEOREM ScratchStaysHere == Spec => []NoScratchUploaded
<1>1. Init => ScratchInv BY InitInv
<1>2. Inv /\ ScratchInv /\ [Next]_vars => ScratchInv' BY ScratchNext
<1>3. ScratchInv => NoScratchUploaded BY DEF ScratchInv, Scratch, NoScratchUploaded, MadeFor, Live
<1> QED BY <1>1, <1>2, <1>3, Invariant, PTL DEF Spec

(* ------------ What a file holds ------------ *)
(* A step that moves a file's blobs among the rows and attempts of the     *)
(* file keeps them to it.                                                  *)

LEMMA BlobsFrame ==
  ASSUME TypeOK, BlobsFit, content' = content, nblob' = nblob,
         \A f \in Files : row'[f].blob \in {row[f].blob, Empty},
         \A w \in Workers : Passes(w)
  PROVE  BlobsFit'
<1>0. nblob \in Nat /\ Empty = 0 /\ Empty <= nblob BY Constants DEF TypeOK
<1>1. \A f \in Files : content'[f] <= nblob' /\ row'[f].blob <= nblob' BY <1>0 DEF BlobsFit
<1>2. \A w \in Workers : job'[w].blob <= nblob' /\ job'[w].landed <= nblob'
  BY <1>0 DEF BlobsFit, Passes
<1>3. ASSUME NEW g \in Files, content[g] # Empty
      PROVE  /\ \A f \in Files : f # g => content'[f] # content'[g] /\ row'[f].blob # content'[g]
             /\ \A w \in Workers : F(w)' # g => job'[w].blob # content'[g]
                                                /\ job'[w].landed # content'[g]
  BY <1>3 DEF BlobsFit, Passes, F
<1> QED BY <1>1, <1>2, <1>3 DEF BlobsFit

LEMMA BytesFile ==
  ASSUME NEW g, ContentKept(g), BytesSame(g)
  PROVE  ContentKept(g)'
BY DEF ContentKept, BytesSame

LEMMA LandedFrame ==
  ASSUME TypeOK, NEW v \in Workers, BlobsFit, LandedFits(v), LandedSame(v)
  PROVE  LandedFits(v)'
<1>1. nblob \in Nat /\ job[v].landed <= nblob /\ job[v].landed \in {Empty} \cup Blob
  BY JobFields DEF TypeOK, BlobsFit
<1>2. job[v].landed # nblob + 1 BY <1>1, Numbers, Constants DEF Blob
<1> QED BY <1>2 DEF LandedFits, LandedSame, F

(* The nodes that matter to another file, or to a create of it, keep what  *)
(* they hold.                                                              *)
LEMMA BytesStay ==
  ASSUME Inv, More, \A r \in 1 .. nnode : node'[r].body = node[r].body
  PROVE  /\ \A g \in Files : Alive(g) /\ row[g].kind = "none" =>
              node'[uid[g]].body = node[uid[g]].body
         /\ \A v \in Workers : pc[v] = "retire" /\ job[v].kind = "create" =>
              node'[job[v].node].body = node[job[v].node].body
<1>1. nnode \in Nat /\ Local = 0 BY Constants DEF More
<1>2. ASSUME NEW g \in Files, Alive(g), row[g].kind = "none"
      PROVE  uid[g] \in 1 .. nnode
  BY <1>1, <1>2 DEF Inv, FileFits, CallFits
<1>3. ASSUME NEW v \in Workers, pc[v] = "retire", job[v].kind = "create"
      PROVE  job[v].node \in 1 .. nnode
  BY <1>1, <1>3, AtWork DEF JobFits, CreateFits, Early
<1> QED BY <1>2, <1>3

LEMMA BytesKept ==
  ASSUME Inv, BytesInv,
         BlobsFit',
         \A g \in Files : ContentKept(g)' \/ BytesSame(g),
         \A v \in Workers : pc'[v] = "idle" \/ LandedFits(v)' \/ LandedSame(v)
  PROVE  BytesInv'
<1>1. TypeOK /\ BlobsFit BY DEF Inv, BytesInv
<1>2. \A g \in Files : ContentKept(g)' BY BytesFile DEF BytesInv
<1>3. ASSUME NEW v \in Workers, pc'[v] # "idle" PROVE LandedFits(v)'
  <2>1. CASE LandedSame(v)
    <3>1. pc[v] # "idle" BY <1>3, <2>1 DEF LandedSame
    <3>2. LandedFits(v) BY <3>1 DEF BytesInv
    <3> QED BY <1>1, <2>1, <3>2, LandedFrame
  <2> QED BY <1>3, <2>1
<1> QED BY <1>2, <1>3 DEF BytesInv

(* A step of the user or of the sweep that leaves what files hold alone. *)
LEMMA BytesUser ==
  ASSUME Inv, BytesInv, NEW f \in Files, UNCHANGED drainVars, content' = content,
         nblob' = nblob, uid' = uid, row' = row \/ OneRow(f, row'[f]),
         row'[f].blob \in {row[f].blob, Empty},
         \A g \in Files : g # f => call'[g] = call[g],
         staged \ {row[f].blob} \subseteq staged',
         More, \A r \in 1 .. nnode : node'[r].body = node[r].body,
         ContentKept(f)' \/ BytesSame(f)
  PROVE  BytesInv'
<1>0. TypeOK /\ BlobsFit /\ pc' = pc /\ job' = job BY DEF Inv, BytesInv, drainVars
<1>1. \A g \in Files : g # f => row'[g] = row[g] BY DEF OneRow
<1>2. \A g \in Files : row'[g].blob \in {row[g].blob, Empty} BY <1>1
<1>3. BlobsFit' BY <1>0, <1>2, BlobsFrame DEF Passes
<1>4. ASSUME NEW g \in Files, g # f PROVE BytesSame(g)
  BY <1>1, <1>4, <1>0, BytesStay DEF Alive, BlobsFit, BytesSame
<1>5. ASSUME NEW v \in Workers, pc'[v] # "idle" PROVE LandedSame(v)
  <2>1. F(v) \in Files BY <1>0, <1>5, AtWork
  <2> QED BY <1>0, <1>2, <2>1, BytesStay DEF LandedSame
<1> QED BY <1>3, <1>4, <1>5, BytesKept

LEMMA BytesMint ==
  ASSUME Inv, BytesInv, NEW f \in Files, NEW n \in Names, Mint(f, n) \/ MintUnanswered(f, n)
  PROVE  BytesInv'
<1>0. TypeOK /\ ContentKept(f) BY DEF Inv, BytesInv
<1>1. QueueLocalNode(f, n) /\ nblob' = nblob BY DEF Mint, MintUnanswered, Call, Fault
<1>2. /\ OneRow(f, row'[f]) /\ row'[f].kind = "create" /\ row'[f].blob = Empty
  BY <1>0, <1>1, QueueEffect DEF OneRow
<1>3. /\ call[f] = "none" /\ call'[f] = "minting" /\ content' = content /\ uid' = uid
      /\ staged' = staged /\ UNCHANGED drainVars /\ \A g \in Files : g # f => call'[g] = call[g]
  BY <1>0, <1>1 DEF QueueLocalNode, TypeOK
<1>4. ContentKept(f)' BY <1>0, <1>2, <1>3 DEF ContentKept
<1>5. More /\ \A r \in 1 .. nnode : node'[r].body = node[r].body
  <2>1. UNCHANGED driveVars \/ NewNode(n, Empty, f) BY <1>0, MintDrive
  <2>2. DriveKept BY <2>1, DriveSteps, Constants
  <2> QED BY <2>1, <2>2 DEF DriveKept, driveVars, NewNode
<1> QED BY <1>1, <1>2, <1>3, <1>4, <1>5, BytesUser

(* The handle is closed: the blob is new, and nobody else's. *)
LEMMA BytesRelease ==
  ASSUME Inv, BytesInv, NEW f \in Files, Release(f)
  PROVE  BytesInv'
<1> DEFINE b == nblob + 1
<1>0. TypeOK /\ BlobsFit /\ ContentKept(f) /\ FileFits(f) BY DEF Inv, BytesInv
<1>1. /\ nblob \in Nat /\ b \in Blob /\ b # Empty /\ nblob <= b /\ Empty <= nblob
      /\ \A x : x <= nblob => x # b
  BY <1>0, Constants DEF TypeOK, Release, Blob
<1>10. b <= b BY <1>1
<1>11. \A x \in Int : x <= nblob => x <= b BY <1>1
<1>2. /\ row' = [row EXCEPT ![f] = Written(f, b)] /\ staged' = (staged \cup {b}) \ {row[f].blob}
      /\ content' = [content EXCEPT ![f] = b] /\ nblob' = b
      /\ call' = call /\ uid' = uid /\ pc' = pc /\ job' = job /\ node' = node /\ nnode' = nnode
      /\ call[f] = "idle"
  BY DEF Release, callVars, drainVars, driveVars
<1>3. /\ OneRow(f, row'[f]) /\ row'[f].blob = b /\ row'[f].kind \in {"create", "revision"}
  BY <1>0, <1>1, <1>2, WrittenEffect DEF OneRow
<1>4. content'[f] = b /\ \A g \in Files : g # f => content'[g] = content[g]
  BY <1>0, <1>2 DEF TypeOK
<1>5. \A g \in Files : g # f => row'[g] = row[g] BY <1>3 DEF OneRow
<1> HIDE DEF b
<1>6. BlobsFit'
  <2>1. \A g \in Files : content'[g] <= nblob' /\ row'[g].blob <= nblob'
    <3>1. \A g \in Files : content[g] \in Int /\ row[g].blob \in Int
      BY <1>0, Numbers, Constants, RowFields DEF TypeOK
    <3>2. \A g \in Files : content[g] <= b /\ row[g].blob <= b BY <1>0, <1>11, <3>1 DEF BlobsFit
    <3> QED BY <1>2, <1>3, <1>4, <1>5, <1>10, <3>2
  <2>2. \A w \in Workers : job'[w].blob <= nblob' /\ job'[w].landed <= nblob'
    <3>1. \A w \in Workers : job[w].blob \in Int /\ job[w].landed \in Int
      BY <1>0, Numbers, Constants, JobFields DEF TypeOK
    <3> QED BY <1>0, <1>2, <1>11, <3>1 DEF BlobsFit
  <2>3. ASSUME NEW g \in Files, content'[g] # Empty
        PROVE  /\ \A h \in Files : h # g => content'[h] # content'[g] /\ row'[h].blob # content'[g]
               /\ \A w \in Workers : F(w)' # g => job'[w].blob # content'[g]
                                                  /\ job'[w].landed # content'[g]
    <3>1. CASE g = f
      BY <1>0, <1>1, <1>2, <1>4, <1>5, <3>1 DEF BlobsFit
    <3>2. CASE g # f
      <4>1. content'[g] = content[g] /\ content[g] # b BY <1>0, <1>1, <1>4, <3>2 DEF BlobsFit
      <4> QED BY <1>0, <1>2, <1>3, <1>4, <1>5, <2>3, <3>2, <4>1 DEF BlobsFit, F
    <3> QED BY <3>1, <3>2
  <2> QED BY <2>1, <2>2, <2>3 DEF BlobsFit
<1>7. ContentKept(f)'
  <2>1. row[f].blob # b BY <1>0, <1>1 DEF BlobsFit
  <2> QED BY <1>2, <1>3, <1>4, <2>1 DEF ContentKept
<1>8. ASSUME NEW g \in Files, g # f PROVE BytesSame(g)
  <2>1. content[g] \in staged => content[g] \in staged' \cup {Empty}
    BY <1>0, <1>2, <1>8 DEF BlobsFit
  <2> QED BY <1>2, <1>4, <1>5, <1>8, <2>1 DEF BytesSame, Alive
<1>9. ASSUME NEW v \in Workers, pc'[v] # "idle" PROVE LandedSame(v)
  <2>1. F(v) \in Files BY <1>2, <1>9, AtWork
  <2> QED BY <1>2, <1>3, <1>5, <2>1 DEF LandedSame, b
<1> QED BY <1>6, <1>7, <1>8, <1>9, BytesKept

LEMMA BytesUserNext ==
  ASSUME Inv, BytesInv, UserNext
  PROVE  BytesInv'
<1>0. TypeOK BY DEF Inv
<1>1. PICK f \in Files : UserStep(f) BY DEF UserNext, UserStep
<1>2. UNCHANGED driveVars => More /\ \A r \in 1 .. nnode : node'[r].body = node[r].body
  BY DriveSteps DEF DriveKept, driveVars
<1>3. CASE \E n \in Names : Mint(f, n) \/ MintUnanswered(f, n) BY <1>3, BytesMint
<1>4. CASE Release(f) BY <1>4, BytesRelease
<1>5. CASE Intern(f) \/ Open(f) \/ Close(f) \/ Walk(f)
  <2>1. /\ row' = row /\ uid' = uid /\ staged' = staged /\ content' = content /\ nblob' = nblob
        /\ UNCHANGED drainVars /\ UNCHANGED driveVars
    BY <1>5 DEF Intern, Open, Close, Walk, dbVars, toldVars, boundVars, Call
  <2>2. /\ \A g \in Files : g # f => call'[g] = call[g]
        /\ Alive(f)' => Alive(f)
        /\ call'[f] = "none" => call[f] = "none"
    BY <1>0, <1>5 DEF Intern, Open, Close, Walk, callVars, Alive, TypeOK, Inv, FileFits, CallFits
  <2>3. BytesSame(f) BY <1>2, <2>1, <2>2, BytesStay DEF BytesSame
  <2> QED BY <1>2, <2>1, <2>2, <2>3, BytesUser
<1>6. ASSUME NEW n \in Names, RenameStart(f, n) PROVE BytesInv'
  <2>1. /\ uid' = uid /\ staged' = staged /\ content' = content /\ nblob' = nblob
        /\ UNCHANGED drainVars /\ UNCHANGED driveVars /\ call[f] = "idle" /\ call'[f] = "renaming"
        /\ place[f] # NoName /\ Retarget(f, n) /\ \A g \in Files : g # f => call'[g] = call[g]
    BY <1>0, <1>6 DEF RenameStart, Call, TypeOK
  <2>2. /\ row' = row \/ OneRow(f, row'[f])
        /\ row'[f].kind = row[f].kind /\ row'[f].blob = row[f].blob
    BY <1>0, <2>1, RetargetEffect DEF OneRow
  <2>3. BytesSame(f) BY <1>2, <2>1, <2>2, BytesStay DEF BytesSame, Alive
  <2> QED BY <1>2, <2>1, <2>2, <2>3, BytesUser
<1>7. CASE RenameEnd(f)
  <2>1. /\ uid' = uid /\ staged' = staged /\ content' = content /\ nblob' = nblob
        /\ UNCHANGED drainVars /\ UNCHANGED driveVars /\ call[f] = "renaming" /\ call'[f] = "idle"
        /\ \A g \in Files : g # f => call'[g] = call[g]
    BY <1>0, <1>7 DEF RenameEnd, toldVars, boundVars, TypeOK
  <2>2. /\ row' = row \/ OneRow(f, row'[f])
        /\ row'[f].kind = row[f].kind /\ row'[f].blob = row[f].blob
    <3> DEFINE p == row[f].parked /\ ~(place[f] \in Transient /\ target[f] \notin Transient)
    <3>1. row[f] \in Row /\ row' = [row EXCEPT ![f] = [row[f] EXCEPT !.parked = p]] /\ p \in BOOLEAN
      BY <1>0, <1>7, RowFields, Zenon DEF RenameEnd, TypeOK
    <3> HIDE DEF p
    <3>2. [row[f] EXCEPT !.parked = p] \in Row BY <3>1, RowEdits
    <3>3. OneRow(f, [row[f] EXCEPT !.parked = p]) BY <1>0, <3>1, <3>2, OneTypes
    <3> QED BY <3>1, <3>3 DEF OneRow, Row
  <2>3. BytesSame(f) BY <1>2, <2>1, <2>2, BytesStay DEF BytesSame, Alive
  <2> QED BY <1>2, <2>1, <2>2, <2>3, BytesUser
<1>8. CASE DeleteLocal(f) \/ DeleteLanded(f) \/ DeleteReal(f)
  <2>1. /\ uid' = uid /\ content' = content /\ nblob' = nblob
        /\ UNCHANGED drainVars /\ UNCHANGED driveVars /\ call'[f] \in {"dropping", "gone"}
        /\ \A g \in Files : g # f => call'[g] = call[g]
    BY <1>0, <1>8 DEF DeleteLocal, DeleteLanded, DeleteReal, Forgotten, toldVars, boundVars, Call,
      TypeOK
  <2>2. DropOps(f) \/ QueueTrash(f) \/ (row' = row /\ staged' = staged)
    BY <1>8 DEF DeleteLocal, DeleteLanded, DeleteReal
  <2>3. /\ row' = row \/ OneRow(f, row'[f])
        /\ row'[f].blob \in {row[f].blob, Empty} /\ staged \ {row[f].blob} \subseteq staged'
    BY <1>0, <2>2, DropEffect, TrashEffect DEF OneRow, NoRow
  <2>4. ContentKept(f)' BY <2>1 DEF ContentKept, Alive
  <2> QED BY <1>2, <2>1, <2>3, <2>4, BytesUser
<1> QED BY <1>1, <1>3, <1>4, <1>5, <1>6, <1>7, <1>8 DEF UserStep

(* The blobs a step of a worker moves, and those it is done with. *)
LEMMA StepBlobs ==
  ASSUME Inv, NEW w \in Workers, NEW f \in Files, f = F(w), Step(w)
  PROVE  /\ nblob' = nblob /\ Passes(w)
         /\ row'[f].blob \in {row[f].blob, Empty}
         /\ staged \ {row[f].blob, job[w].blob, job[w].landed} \subseteq staged'
<1>0. TypeOK /\ pc[w] # "idle" BY StepFrame, Zenon DEF Inv
<1>1. nblob' = nblob
  BY ZenonT(30) DEF Step, CreateLook, CreateNote, RenameGone, Send, CreateClash, CheckHeld, Fail,
    CreateRetire, Repoint, AdoptAsk, AdoptRead, AdoptPlace, CreateEnd, Revise, RenameRetire,
    TrashFind, TrashSend, TrashRetire, boundVars, Fault
<1>2. staged \ {row[f].blob, job[w].blob, job[w].landed} \subseteq staged'
  BY Zenon DEF Step, CreateLook, CreateNote, RenameGone, Send, CreateClash, CheckHeld, Fail,
    CreateRetire, Repoint, AdoptAsk, AdoptRead, AdoptPlace, CreateEnd, Revise, RenameRetire,
    TrashFind, TrashSend, TrashRetire, dbVars
<1>3. Passes(w)
  <2>1. CASE job' = job BY <2>1 DEF Passes
  <2>2. CASE CreateLook(w) \/ CreateClash(w)
    BY <1>0, <2>2, LookEffect, AdoptEffect DEF Passes, SameOp
  <2>3. CASE Send(w) BY <2>3, SendEffect, TakenEffect DEF Passes, SameOp
  <2>4. CASE CheckHeld(w) BY <2>4, HeldEffect DEF Passes, SameOp
  <2>5. CASE AdoptAsk(w) \/ AdoptRead(w) BY <2>5, AskEffect, ReadEffect DEF Passes, SameOp
  <2>6. CASE TrashFind(w) BY <2>6, FindEffect DEF Passes, SameOp
  <2>7. CASE Fail(w) \/ CreateEnd(w) \/ Revise(w) \/ RenameRetire(w) \/ TrashRetire(w)
    <3>1. job'[w] = NoJob
      BY <1>0, <2>7, IdleEffect DEF Fail, CreateEnd, Revise, RenameRetire, TrashRetire, Idle
    <3> QED BY <3>1 DEF Passes, NoJob
  <2>8. CASE CreateNote(w) \/ RenameGone(w) \/ CreateRetire(w) \/ Repoint(w) \/ AdoptPlace(w)
             \/ TrashSend(w)
    BY <2>1, <2>8 DEF CreateNote, RenameGone, CreateRetire, Repoint, AdoptPlace, TrashSend
  <2> QED BY <2>2, <2>3, <2>4, <2>5, <2>6, <2>7, <2>8 DEF Step
<1>4. row'[f].blob \in {row[f].blob, Empty}
  <2>1. CASE row' = row BY <2>1
  <2>2. CASE CreateNote(w) BY <2>2, NoteEffect
  <2>3. CASE Fail(w) \/ CreateEnd(w) BY <2>3, FailEffect, EndEffect
  <2>4. CASE CreateRetire(w) BY <2>4, RetireEffect
  <2>5. CASE Revise(w) \/ TrashRetire(w)
    BY <1>0, <2>5, ReviseEffect, Blanks, OneTypes DEF TrashRetire, OneRow, NoRow
  <2>6. CASE \/ CreateLook(w) \/ RenameGone(w) \/ Send(w) \/ CreateClash(w) \/ CheckHeld(w)
             \/ Repoint(w) \/ AdoptAsk(w) \/ AdoptRead(w) \/ AdoptPlace(w) \/ RenameRetire(w)
             \/ TrashFind(w) \/ TrashSend(w)
    BY <2>1, <2>6 DEF CreateLook, RenameGone, Send, CreateClash, CheckHeld, Repoint, AdoptAsk,
      AdoptRead, AdoptPlace, RenameRetire, TrashFind, TrashSend, dbVars
  <2> QED BY <2>2, <2>3, <2>4, <2>5, <2>6 DEF Step
<1> QED BY <1>1, <1>2, <1>3, <1>4

(* What nodes hold changes by a revision only, of its own file's node. *)
LEMMA StepBodies ==
  ASSUME Inv, NEW w \in Workers, NEW f \in Files, f = F(w), Step(w)
  PROVE  /\ More
         /\ \A r \in 1 .. nnode : node'[r].body = node[r].body \/ (r = uid[f] /\ Revise(w))
<1>0. pc[w] # "idle" /\ DriveKept /\ nnode \in Nat BY StepFrame, StepDrive DEF DriveKept, More
<1>1. CASE UNCHANGED driveVars BY <1>0, <1>1 DEF DriveKept, driveVars
<1>2. CASE Send(w)
  BY <1>2, SendEffect, AppliedEffect, <1>0, <1>1 DEF NewNode, RenamedNode, DriveKept
<1>3. CASE Revise(w)
  <2>1. \/ ChangedNode(uid[f], job[w].blob, node[uid[f]].trashed)
        \/ UNCHANGED <<node, nnode>>
    BY <1>3, ReviseEffect
  <2> QED BY <1>0, <1>3, <2>1 DEF DriveKept, ChangedNode
<1>4. CASE TrashSend(w)
  <2>1. \/ ChangedNode(job[w].node, node[job[w].node].body, TRUE)
        \/ UNCHANGED driveVars
    BY <1>4, TrashSendEffect
  <2> QED BY <1>0, <1>1, <2>1 DEF DriveKept, ChangedNode
<1>5. CASE \/ CreateLook(w) \/ CreateNote(w) \/ RenameGone(w) \/ CreateClash(w) \/ CheckHeld(w)
           \/ Fail(w) \/ CreateRetire(w) \/ Repoint(w) \/ AdoptAsk(w) \/ AdoptRead(w)
           \/ AdoptPlace(w) \/ CreateEnd(w) \/ RenameRetire(w) \/ TrashFind(w) \/ TrashRetire(w)
  <2>1. UNCHANGED driveVars
    BY <1>5 DEF CreateLook, CreateNote, RenameGone, CreateClash, CheckHeld, Fail, CreateRetire,
      Repoint, AdoptAsk, AdoptRead, AdoptPlace, CreateEnd, RenameRetire, TrashFind, TrashRetire
  <2> QED BY <1>1, <2>1, Zenon
<1> QED BY <1>2, <1>3, <1>4, <1>5 DEF Step

LEMMA StepUid ==
  ASSUME Inv, NEW w \in Workers, Step(w)
  PROVE  /\ \A g \in Files : g # F(w) => uid'[g] = uid[g]
         /\ ~(pc[w] = "retire" /\ job[w].kind = "create") => uid' = uid
<1>1. uid \in [Files -> Uid] BY DEF Inv, TypeOK
<1>2. CASE CreateRetire(w) BY <1>1, <1>2, Zenon DEF CreateRetire
<1>3. CASE ~CreateRetire(w)
  BY <1>3, Zenon DEF Step, CreateLook, CreateNote, RenameGone, Send, CreateClash, CheckHeld, Fail,
    Repoint, AdoptAsk, AdoptRead, AdoptPlace, CreateEnd, Revise, RenameRetire, TrashFind,
    TrashSend, TrashRetire, dbVars
<1> QED BY <1>2, <1>3

(* What the file at hand is left with. *)
LEMMA StepContent ==
  ASSUME Inv, BytesInv, NEW w \in Workers, NEW f \in Files, f = F(w), Step(w)
  PROVE  ContentKept(f)' \/ BytesSame(f)
<1>0. /\ TypeOK /\ pc[w] # "idle" /\ FileFits(f) /\ JobFits(w) /\ CreateFits(w)
      /\ LandedFits(w) /\ ContentKept(f)
  BY StepFrame, AtWork DEF BytesInv
<1>1. call' = call /\ content' = content /\ (Alive(f)' <=> Alive(f))
  BY StepFrame DEF callVars, toldVars, Alive
<1>2. CASE CreateRetire(w)
  <2>1. pc[w] = "retire" /\ job[w].kind = "create" BY <1>2, RetireEffect
  <2>2. CASE row[f].kind = "create"
    <3>1. /\ staged' = staged /\ node' = node /\ uid'[f] = job[w].node
      BY <1>2, <2>2, RetireEffect DEF CreateRetire, driveVars
    <3>2. CASE row'[f].kind = "none"
      <4>1. row[f].blob = Empty \/ row[f].blob = job[w].landed BY <1>2, <2>2, <3>2, RetireEffect
      <4> QED BY <1>0, <1>1, <2>1, <2>2, <3>1, <3>2, <4>1 DEF ContentKept, LandedFits
    <3>3. CASE row'[f].kind = "revision"
      <4>1. row'[f].blob = row[f].blob BY <1>2, <2>2, <3>3, RetireEffect
      <4> QED BY <1>0, <1>1, <2>2, <3>1, <3>3, <4>1 DEF ContentKept
    <3> QED BY <1>2, <2>2, <3>2, <3>3, RetireEffect
  <2>3. CASE row[f].kind # "create"
    <3>1. ~Alive(f) BY <1>0, <2>1, <2>3 DEF CreateFits, Early
    <3> QED BY <1>1, <3>1 DEF BytesSame
  <2> QED BY <2>2, <2>3
<1>3. CASE Revise(w)
  <2>1. /\ job[w].kind = "revision" /\ uid' = uid /\ job[w].node = uid[f] /\ uid[f] \in 1 .. nnode
    BY <1>3, ReviseEffect DEF Revise
  <2>2. CASE UNCHANGED <<node, nnode, row, staged>> BY <1>1, <2>1, <2>2 DEF BytesSame
  <2>3. CASE /\ row[f].kind = "revision" /\ row[f].blob = job[w].blob
             /\ ChangedNode(uid[f], job[w].blob, node[uid[f]].trashed) /\ OneRow(f, NoRow)
    <3>1. node'[uid[f]].body = row[f].blob BY <2>1, <2>3 DEF ChangedNode
    <3>2. row'[f].kind = "none" BY <2>3 DEF OneRow, NoRow
    <3> QED BY <1>0, <1>1, <2>1, <2>3, <3>1, <3>2 DEF ContentKept
  <2> QED BY <1>3, <2>2, <2>3, ReviseEffect
<1>4. CASE CreateEnd(w)
  BY <1>0, <1>4, KindAt, EndEffect, <1>1 DEF CreateEnd, driveVars, LandedFits, ContentKept
<1>5. CASE TrashRetire(w)
  <2>1. ~Alive(f) BY <1>0, <1>5 DEF TrashRetire, JobFits
  <2> QED BY <1>1, <2>1 DEF BytesSame
<1>6. CASE \/ CreateLook(w) \/ CreateNote(w) \/ RenameGone(w) \/ Send(w) \/ CreateClash(w)
           \/ CheckHeld(w) \/ Fail(w) \/ Repoint(w) \/ AdoptAsk(w) \/ AdoptRead(w)
           \/ AdoptPlace(w) \/ RenameRetire(w) \/ TrashFind(w) \/ TrashSend(w)
  <2>1. staged' = staged /\ uid' = uid /\ ~Revise(w)
    <3>1. staged' = staged /\ uid' = uid /\ pc[w] # "revise"
      BY <1>6 DEF CreateLook, CreateNote, RenameGone, Send, CreateClash, CheckHeld, Fail, Repoint,
        AdoptAsk, AdoptRead, AdoptPlace, RenameRetire, TrashFind, TrashSend, dbVars
    <3> QED BY <3>1, Zenon DEF Revise
  <2>2. row'[f].kind = row[f].kind /\ row'[f].blob = row[f].blob
    <3>1. CASE CreateNote(w) \/ Fail(w) BY <3>1, NoteEffect, FailEffect
    <3>2. CASE ~(CreateNote(w) \/ Fail(w))
      BY <1>6, <3>2 DEF CreateLook, RenameGone, Send, CreateClash, CheckHeld, Repoint, AdoptAsk,
        AdoptRead, AdoptPlace, RenameRetire, TrashFind, TrashSend, dbVars
    <3> QED BY <3>1, <3>2
  <2>3. Alive(f) /\ row[f].kind = "none" => node'[uid[f]].body = node[uid[f]].body
    <3>1. More /\ \A r \in 1 .. nnode : node'[r].body = node[r].body BY <2>1, StepBodies
    <3> QED BY <3>1, BytesStay
  <2> QED BY <1>1, <2>1, <2>2, <2>3 DEF BytesSame
<1> QED BY <1>2, <1>3, <1>4, <1>5, <1>6 DEF Step

(* What the attempt has landed. *)
LEMMA StepLanded ==
  ASSUME Inv, BytesInv, NEW w \in Workers, Step(w)
  PROVE  pc'[w] = "idle" \/ LandedFits(w)'
<1> DEFINE f == F(w)
<1>0. /\ TypeOK /\ pc[w] # "idle" /\ F(w) \in Files /\ JobFits(w) /\ CreateFits(w) /\ LandedFits(w)
      /\ job[w].kind \in {"create", "revision", "trash", "rename"}
  BY StepFrame, AtWork, KindAt DEF BytesInv
<1> HIDE DEF f
<1>1. CASE CreateLook(w) \/ CreateClash(w)
  BY <1>1, LookEffect, <1>0, AdoptEffect DEF driveVars, LandedFits, Adopts
<1>2. CASE Send(w)
  <2>1. CASE pc'[w] \in {"fail", "note", "clash", "send", "held"} BY <2>1 DEF LandedFits, Adopts
  <2>2. CASE /\ Applied(w) /\ pc'[w] = "retire" /\ SameOp(job[w], job'[w])
             /\ job'[w].landed = job[w].blob
             /\ job'[w].node = IF job[w].kind = "create" THEN nnode + 1 ELSE job[w].node
    <3>1. job[w].kind = "create" => node'[nnode + 1].body = job[w].blob
      BY <1>2, <2>2, AppliedEffect, SendEffect DEF NewNode
    <3> QED BY <2>2, <3>1 DEF LandedFits, SameOp, Adopts
  <2>3. CASE AfterTaken(w)
    <3>1. pc[w] = "send" /\ job[w].kind \in {"create", "rename"} BY <1>0, <1>2, SendEffect, KindAt
    <3> QED BY <2>1, <2>3, <3>1, TakenEffect
  <2> QED BY <1>2, <2>1, <2>2, <2>3, SendEffect
<1>3. CASE CreateRetire(w)
  <2>1. CASE row[F(w)].kind = "create"
    <3>1. /\ pc'[w] = "repoint" /\ job' = job
          /\ \/ row'[F(w)].blob = Empty
             \/ row'[F(w)].blob = row[F(w)].blob /\ row[F(w)].blob # job[w].landed
      BY <1>3, <2>1, RetireEffect, ZenonT(30)
    <3> QED BY <3>1 DEF LandedFits, F
  <2>2. CASE row[F(w)].kind # "create" BY <1>3, <2>2, RetireEffect DEF LandedFits, Adopts
  <2> QED BY <2>1, <2>2
<1>4. CASE Repoint(w) \/ AdoptAsk(w) \/ AdoptRead(w) \/ AdoptPlace(w)
  <2>1. /\ row' = row /\ pc[w] \in Adopts \cup {"repoint"} /\ SameOp(job[w], job'[w])
        /\ job'[w].landed = job[w].landed /\ pc'[w] # "retire"
    <3>1. CASE Repoint(w) BY <1>0, <3>1 DEF Repoint, dbVars, SameOp, Goto, TypeOK
    <3>2. CASE AdoptAsk(w) BY <3>2, AskEffect DEF AdoptAsk, dbVars, Adopts
    <3>3. CASE AdoptRead(w) BY <3>3, ReadEffect DEF AdoptRead, dbVars, Adopts
    <3>4. CASE AdoptPlace(w) BY <1>0, <3>4, PlaceEffect DEF AdoptPlace, dbVars, Adopts, SameOp
    <3> QED BY <1>4, <3>1, <3>2, <3>3, <3>4
  <2> QED BY <1>0, <2>1 DEF LandedFits, SameOp, F
<1>5. CASE CreateNote(w) \/ CheckHeld(w)
  <2>1. pc'[w] \in {"send", "fail", "note"} BY <1>0, <1>5, NoteEffect, HeldEffect, KindAt
  <2> QED BY <2>1 DEF LandedFits, Adopts
<1>6. CASE RenameGone(w) \/ TrashFind(w)
  <2>1. job[w].kind # "create" /\ job'[w].kind = job[w].kind
    BY <1>6, FindEffect DEF RenameGone, Renameless, SameOp
  <2> QED BY <2>1 DEF LandedFits
<1>7. CASE TrashSend(w)
  <2>1. pc'[w] \in {"trashed", "fail"} BY <1>7, TrashSendEffect
  <2> QED BY <2>1 DEF LandedFits, Adopts
<1>8. CASE Fail(w) \/ CreateEnd(w) \/ Revise(w) \/ RenameRetire(w) \/ TrashRetire(w)
  BY <1>0, <1>8, IdleEffect DEF Fail, CreateEnd, Revise, RenameRetire, TrashRetire, Idle
<1> QED BY <1>1, <1>2, <1>3, <1>4, <1>5, <1>6, <1>7, <1>8 DEF Step

LEMMA BytesStep ==
  ASSUME Inv, BytesInv, Apart, NEW w \in Workers, Step(w)
  PROVE  BytesInv'
<1>0. TypeOK /\ BlobsFit /\ pc[w] # "idle" /\ F(w) \in Files BY StepFrame, AtWork DEF Inv, BytesInv
<1>1. PICK f \in Files : f = F(w) BY <1>0
<1>2. /\ call' = call /\ content' = content
      /\ \A v \in Workers : v # w => pc'[v] = pc[v] /\ job'[v] = job[v]
      /\ \A g \in Files : g # f => row'[g] = row[g] /\ uid'[g] = uid[g]
  BY StepJob, <1>1, StepRow, StepUid, StepFrame DEF OnePc, OneJob, OneRow, callVars, toldVars
<1>3. /\ nblob' = nblob /\ Passes(w) /\ row'[f].blob \in {row[f].blob, Empty}
      /\ staged \ {row[f].blob, job[w].blob, job[w].landed} \subseteq staged'
  BY <1>1, StepBlobs
<1>4. BlobsFit'
  BY <1>2, <1>3, <1>0, BlobsFrame DEF Passes
<1>5. ASSUME NEW g \in Files, g # f PROVE BytesSame(g)
  <2>1. content[g] \in staged => content[g] \in staged' \cup {Empty}
    BY <1>0, <1>1, <1>3, <1>5 DEF BlobsFit
  <2>2. Alive(g) /\ row[g].kind = "none" => node'[uid[g]].body = node[uid[g]].body
    <3>1. Alive(g) /\ row[g].kind = "none" => uid[g] # Local BY DEF Inv, FileFits, CallFits
    <3>2. uid[g] # Local => uid[g] # uid[f] /\ uid[g] \in 1 .. nnode
      <4>1. nnode \in Nat BY TypeParts, Constants DEF Inv, DriveType, Uid
      <4>2. uid[g] \in 0 .. nnode BY DEF Inv, FileFits
      <4> QED BY <1>1, <1>5, <4>1, <4>2, Constants DEF Apart
    <3> QED BY <1>1, <3>1, <3>2, StepBodies
  <2> QED BY <1>2, <1>5, <2>1, <2>2 DEF BytesSame, Alive
<1>6. ASSUME NEW v \in Workers, v # w, pc'[v] # "idle" PROVE LandedSame(v)
  <2>1. pc[v] # "idle" /\ F(v) \in Files BY <1>2, <1>6, AtWork
  <2>2. row'[F(v)].blob \in {row[F(v)].blob, Empty} BY <1>2, <1>3, <2>1
  <2>3. ASSUME pc[v] = "retire", job[v].kind = "create"
        PROVE  node'[job[v].node].body = node[job[v].node].body
    <3>1. job[v].node \in 1 .. nnode
      <4>1. job[v].node \in 0 .. nnode /\ job[v].node # 0 /\ nnode \in Nat
        BY <1>0, <2>1, <2>3, AtWork, Constants DEF JobFits, CreateFits, Early, TypeOK, Uid
      <4> QED BY <4>1
    <3>2. job[v].node = uid[f] => ~Revise(w)
      <4>1. CASE F(v) = f BY <2>1, <2>3, <3>1, <4>1, AtWork, Constants DEF CreateFits, Early
      <4>2. CASE F(v) # f BY <1>1, <2>3, <4>2 DEF Apart
      <4> QED BY <4>1, <4>2
    <3> QED BY <1>1, <3>1, <3>2, StepBodies
  <2> QED BY <1>2, <1>6, <2>2, <2>3 DEF LandedSame
<1>7. ContentKept(f)' \/ BytesSame(f) BY <1>1, StepContent
<1>8. pc'[w] = "idle" \/ LandedFits(w)' BY StepLanded
<1> QED BY <1>4, <1>5, <1>6, <1>7, <1>8, BytesKept

LEMMA BytesNext == Inv /\ BytesInv /\ Apart /\ [Next]_vars => BytesInv'
<1> SUFFICES ASSUME Inv, BytesInv, Apart, [Next]_vars PROVE BytesInv' OBVIOUS
<1>0. TypeOK /\ BlobsFit BY DEF Inv, BytesInv
<1>1. CASE UserNext BY <1>1, BytesUserNext
<1>2. CASE SweepNext
  <2>1. PICK f \in Files : Grow(f) \/ SweepJudge(f) \/ SweepAct(f) BY <1>2 DEF SweepNext
  <2>2. /\ uid' = uid /\ content' = content /\ nblob' = nblob /\ call' = call
        /\ UNCHANGED drainVars /\ UNCHANGED driveVars
    BY <2>1 DEF Grow, SweepJudge, SweepAct, dbVars, callVars, toldVars, boundVars
  <2>3. More /\ \A r \in 1 .. nnode : node'[r].body = node[r].body
    BY <2>2, DriveSteps DEF DriveKept, driveVars
  <2>4. CASE row' = row /\ staged' = staged
    BY <2>2, <2>3, <2>4, BytesStay, BytesUser DEF BytesSame, Alive
  <2>5. CASE staged' = staged /\ row' = [row EXCEPT ![f].parked = FALSE]
    <3>1. row[f] \in Row /\ row' = [row EXCEPT ![f] = [row[f] EXCEPT !.parked = FALSE]]
      BY <1>0, <2>5 DEF TypeOK
    <3>2. OneRow(f, [row[f] EXCEPT !.parked = FALSE]) BY <1>0, <3>1, RowEdits, OneTypes
    <3>3. OneRow(f, row'[f]) /\ row'[f].kind = row[f].kind /\ row'[f].blob = row[f].blob
      BY <3>1, <3>2 DEF OneRow, Row
    <3>4. BytesSame(f) BY <2>2, <2>3, <2>5, <3>3, BytesStay DEF BytesSame, Alive
    <3> QED BY <2>2, <2>3, <2>5, <3>3, <3>4, BytesUser
  <2>6. CASE verdict[f] = "drop" /\ DropOps(f)
    BY <1>0, <2>6, DropEffect, <2>2, <2>3, BytesUser DEF OneRow, NoRow, Inv, FileFits, CallFits,
      BytesSame, Alive
  <2> QED BY <2>1, <2>4, <2>5, <2>6 DEF Grow, SweepJudge, SweepAct, dbVars
<1>3. CASE \E w \in Workers : Step(w) BY <1>3, BytesStep
<1>4. ASSUME NEW w \in Workers, NEW f \in Files, ClaimRow(w, f) \/ ClaimRename(w, f)
      PROVE  BytesInv'
  <2>1. /\ uid' = uid /\ content' = content /\ nblob' = nblob /\ call' = call /\ staged' = staged
        /\ node' = node /\ nnode' = nnode
    BY <1>4 DEF ClaimRow, ClaimRename, callVars, driveVars, toldVars, boundVars
  <2>2. /\ OneJob(w, job'[w]) /\ OnePc(w, pc'[w])
        /\ pc'[w] \in {"twin", "ask", "revise", "find", "trash", "send"}
    BY <1>0, <1>4, ClaimRowEffect, ClaimRowWay, ClaimRenameEffect
  <2>3. /\ row' = row \/ OneRow(f, row'[f])
        /\ row'[f].kind = row[f].kind /\ row'[f].blob = row[f].blob
    <3>1. CASE ClaimRow(w, f) BY <1>0, <3>1, ClaimRowEffect
    <3>2. CASE ClaimRename(w, f) BY <3>2 DEF ClaimRename
    <3> QED BY <1>4, <3>1, <3>2
  <2>4. Passes(w) /\ job'[w].landed = Empty
    <3>1. CASE ClaimRow(w, f) BY <1>0, <3>1, ClaimRowEffect DEF Passes
    <3>2. CASE ClaimRename(w, f) BY <3>2, ClaimRenameEffect DEF Passes
    <3> QED BY <1>4, <3>1, <3>2
  <2>5. \A g \in Files : row'[g].kind = row[g].kind /\ row'[g].blob = row[g].blob
    BY <2>3 DEF OneRow
  <2>6. BlobsFit'
    <3>1. \A v \in Workers : Passes(v) BY <2>2, <2>4 DEF OneJob, Passes
    <3> QED BY <1>0, <2>1, <2>5, <3>1, BlobsFrame
  <2>7. \A g \in Files : BytesSame(g) BY <2>1, <2>5 DEF BytesSame, Alive
  <2>8. LandedFits(w)' BY <2>4 DEF LandedFits
  <2>9. ASSUME NEW v \in Workers, v # w, pc'[v] # "idle" PROVE LandedSame(v)
    <3>1. pc'[v] = pc[v] /\ job'[v] = job[v] BY <2>2, <2>9 DEF OneJob, OnePc
    <3>2. F(v) \in Files BY <2>9, <3>1, AtWork
    <3> QED BY <2>1, <2>5, <3>1, <3>2 DEF LandedSame
  <2> QED BY <2>6, <2>7, <2>8, <2>9, BytesKept
<1>5. ASSUME NEW n \in Names, ForeignCreate(n) PROVE BytesInv'
  <2>1. /\ row' = row /\ uid' = uid /\ content' = content /\ nblob' = nblob /\ call' = call
        /\ staged' = staged /\ pc' = pc /\ job' = job
        /\ nnode < MaxNode /\ node' = Made(n, Theirs, Other) /\ nnode' = nnode + 1
    BY <1>5 DEF ForeignCreate, dbVars, callVars, drainVars, toldVars
  <2>2. n \in Name /\ Theirs \in 0 .. MaxBlob + 1 BY NameFacts, Constants
  <2>3. NewNode(n, Theirs, Other) BY <1>0, <2>1, <2>2, MadeType DEF NewNode
  <2>4. More /\ \A r \in 1 .. nnode : node'[r].body = node[r].body
    BY <2>3, DriveSteps DEF NewNode, DriveKept
  <2>5. BlobsFit' BY <1>0, <2>1, BlobsFrame DEF Passes
  <2>6. \A g \in Files : BytesSame(g) BY <2>1, <2>4, BytesStay DEF BytesSame, Alive
  <2>7. ASSUME NEW v \in Workers, pc'[v] # "idle" PROVE LandedSame(v)
    BY <2>1, <2>4, <2>7, AtWork, BytesStay DEF LandedSame
  <2> QED BY <2>5, <2>6, <2>7, BytesKept
<1>6. CASE Crash
  <2>1. /\ uid' = uid /\ content' = content /\ nblob' = nblob /\ staged' = staged
        /\ node' = node
        /\ \A g \in Files : (Alive(g)' => Alive(g)) /\ (call'[g] = "none" => call[g] = "none")
    <3>1. ASSUME NEW g \in Files
          PROVE  (Alive(g)' => Alive(g)) /\ (call'[g] = "none" => call[g] = "none")
      BY <1>6 DEF Crash, Alive
    <3> QED BY <1>6, <3>1 DEF Crash, driveVars
  <2>2. /\ \A f \in Files : row'[f].kind = row[f].kind /\ row'[f].blob = row[f].blob
        /\ \A w \in Workers : pc'[w] = "idle" /\ job'[w] = NoJob
    BY <1>0, <1>6, CrashEffect
  <2>3. BlobsFit' BY <1>0, <2>1, <2>2, BlobsFrame DEF Passes, NoJob
  <2> QED BY <2>1, <2>2, <2>3, BytesKept DEF BytesSame
<1>7. CASE UNCHANGED vars
  BY <1>0, <1>7, BlobsFrame, BytesKept DEF Passes, vars, dbVars, drainVars, toldVars, boundVars,
    BytesSame, Alive, callVars, driveVars, LandedSame
<1> QED BY <1>1, <1>2, <1>3, <1>4, <1>5, <1>6, <1>7 DEF Next

LEMMA BytesWrites == Inv /\ BytesInv => WritesHeld
<1> SUFFICES ASSUME Inv, BytesInv, NEW f \in Files, content[f] # Empty, call[f] = "idle"
             PROVE  \/ /\ row[f].kind \in {"create", "revision"} /\ row[f].blob = content[f]
                       /\ content[f] \in staged
                    \/ uid[f] # Local /\ node[uid[f]].body = content[f]
  BY DEF WritesHeld
<1>1. FileFits(f) /\ ContentKept(f) /\ Alive(f) /\ row[f] \in Row
  BY DEF Inv, BytesInv, Alive, TypeOK
<1>2. row[f].kind # "trash" /\ (row[f].kind # "create" => uid[f] # Local)
  BY <1>1 DEF FileFits, RowFits, CallFits
<1> QED BY <1>1, <1>2, RowFields DEF ContentKept

(* What a file holds when its handle is closed is on Drive or still queued *)
(* with its bytes staged, whenever the write came and whatever fails or    *)
(* restarts, as long as every file keeps a node of its own                 *)
(* (attach_blob_to_create, finish_create).                                 *)
THEOREM WritesStay == Spec /\ []Apart => []WritesHeld
<1>1. Init => BytesInv BY InitInv DEF KeptInv
<1>2. Inv /\ BytesInv /\ Apart /\ [Next]_vars => BytesInv' BY BytesNext
<1> QED BY <1>1, <1>2, BytesWrites, Invariant, PTL DEF Spec

(* ------------ What a file is called ------------ *)

LEMMA NamesFile ==
  ASSUME NEW g, NameKept(g), NamesSame(g)
  PROVE  NameKept(g)'
BY DEF NameKept, NamesSame, ConflictName

LEMMA SentFrame ==
  ASSUME NEW v, SentFits(v), SentSame(v)
  PROVE  SentFits(v)'
<1>1. F(v)' = F(v) BY DEF SentSame, F
<1> QED BY <1>1 DEF SentFits, SentSame, ConflictName

LEMMA NamesStep ==
  ASSUME NamesInv,
         \A g \in Files : NameKept(g)' \/ NamesSame(g),
         \A v \in Workers : pc'[v] = "idle" \/ SentFits(v)' \/ SentSame(v)
  PROVE  NamesInv'
<1>1. \A g \in Files : NameKept(g)' BY NamesFile DEF NamesInv
<1>2. ASSUME NEW v \in Workers, pc'[v] # "idle" PROVE SentFits(v)'
  <2>1. CASE SentSame(v)
    <3>1. SentFits(v) BY <1>2, <2>1 DEF SentSame, NamesInv
    <3> QED BY <2>1, <3>1, SentFrame
  <2> QED BY <1>2, <2>1
<1> QED BY <1>1, <1>2 DEF NamesInv

LEMMA NodesInUse ==
  ASSUME Inv
  PROVE  /\ \A g \in Files : Alive(g) /\ row[g].kind # "create" => uid[g] \in 1 .. nnode
         /\ \A v \in Workers : pc[v] = "retire" => job[v].node \in 1 .. nnode
<1>1. nnode \in Nat /\ Local = 0 BY Constants DEF Inv, TypeOK, Uid
<1>2. ASSUME NEW g \in Files, Alive(g), row[g].kind # "create"
      PROVE  uid[g] \in 1 .. nnode
  BY <1>1, <1>2 DEF Inv, FileFits, CallFits
<1>3. ASSUME NEW v \in Workers, pc[v] = "retire"
      PROVE  job[v].node \in 1 .. nnode
  BY <1>3, KindAt, AtWork, <1>1 DEF JobFits, CreateFits, Early
<1> QED BY <1>2, <1>3

(* A step of the user or of the sweep. *)
LEMMA NamesUser ==
  ASSUME Inv, NamesInv, NEW f \in Files, UNCHANGED drainVars, uid' = uid, torn' = torn,
         row' = row \/ OneRow(f, row'[f]), ren' = ren \/ OneRen(f, ren'[f]),
         \A g \in Files : g # f => call'[g] = call[g] /\ want'[g] = want[g],
         call[f] = "none" \/ (Alive(f)' => Alive(f)),
         NamesStay, NameKept(f)' \/ NamesSame(f)
  PROVE  NamesInv'
<1>1. pc' = pc /\ job' = job BY DEF drainVars
<1>2. ASSUME NEW g \in Files, g # f PROVE NamesSame(g)
  <2>1. row'[g] = row[g] /\ ren'[g] = ren[g] /\ (Alive(g)' <=> Alive(g))
    BY <1>2 DEF OneRow, OneRen, Alive
  <2> QED BY <1>2, <2>1, NodesInUse DEF NamesSame, NamesStay
<1>3. ASSUME NEW v \in Workers, pc'[v] # "idle" PROVE SentSame(v)
  <2>1. F(v) \in Files /\ call[F(v)] # "none" BY <1>1, <1>3, AtWork DEF JobFits
  <2>2. Alive(F(v))' => Alive(F(v))
    <3>1. PICK g \in Files : g = F(v) BY <2>1
    <3>2. Alive(g)' => Alive(g) BY <2>1, <3>1 DEF Alive
    <3> QED BY <1>1, <3>1, <3>2 DEF Alive, F
  <2> QED BY <1>1, <2>2, NodesInUse DEF SentSame, NamesStay
<1> QED BY <1>2, <1>3, NamesStep

LEMMA QuietNames ==
  ASSUME Inv, UNCHANGED driveVars
  PROVE  NamesStay
BY DriveSteps DEF NamesStay, DriveKept, driveVars

LEMMA NamesUserNext ==
  ASSUME Inv, NamesInv, UserNext
  PROVE  NamesInv'
<1>0. TypeOK BY DEF Inv
<1>1. PICK f \in Files : UserStep(f) BY DEF UserNext, UserStep
<1>2. ASSUME NEW n \in Names, Mint(f, n) \/ MintUnanswered(f, n) PROVE NamesInv'
  <2>1. QueueLocalNode(f, n) BY <1>2 DEF Mint, MintUnanswered
  <2>2. OneRow(f, row'[f]) /\ row'[f].kind = "create" /\ row'[f].name = n
    BY <1>0, <2>1, QueueEffect DEF OneRow
  <2>3. /\ call[f] = "none" /\ UNCHANGED drainVars /\ uid' = uid /\ torn' = torn /\ ren' = ren
        /\ want'[f] = n
        /\ \A g \in Files : g # f => call'[g] = call[g] /\ want'[g] = want[g]
    BY <1>0, <2>1 DEF QueueLocalNode, TypeOK
  <2>4. NameKept(f)' BY <2>2, <2>3 DEF NameKept
  <2>5. NamesStay
    <3>1. UNCHANGED driveVars \/ NewNode(n, Empty, f) BY <1>0, <1>2, MintDrive
    <3>2. DriveKept BY <3>1, DriveSteps, Constants
    <3> QED BY <3>1, <3>2, QuietNames DEF DriveKept, NewNode, NamesStay
  <2> QED BY <2>2, <2>3, <2>4, <2>5, NamesUser
<1>3. CASE Intern(f) \/ Open(f) \/ Close(f) \/ Walk(f)
  <2>1. /\ row' = row /\ ren' = ren /\ uid' = uid /\ torn' = torn /\ want' = want
        /\ UNCHANGED drainVars /\ UNCHANGED driveVars
    BY <1>3 DEF Intern, Open, Close, Walk, dbVars, toldVars
  <2>2. /\ \A g \in Files : g # f => call'[g] = call[g]
        /\ Alive(f)' => Alive(f)
    BY <1>0, <1>3 DEF Intern, Open, Close, Walk, callVars, Alive, TypeOK
  <2>3. NamesStay BY <2>1, QuietNames
  <2>4. NamesSame(f) BY <2>1, <2>2, <2>3, NodesInUse DEF NamesSame, NamesStay
  <2> QED BY <2>1, <2>2, <2>3, <2>4, NamesUser
<1>4. CASE Release(f)
  <2> DEFINE b == nblob + 1
  <2>1. /\ ren' = ren /\ uid' = uid /\ torn' = torn /\ want' = want /\ call' = call
        /\ UNCHANGED drainVars /\ UNCHANGED driveVars
        /\ row' = [row EXCEPT ![f] = Written(f, b)]
    BY <1>4 DEF Release, callVars
  <2>2. b \in Blob BY <1>0, <1>4, Constants DEF TypeOK, Release, Blob
  <2> HIDE DEF b
  <2>3. /\ OneRow(f, row'[f]) /\ (row'[f].kind = "create" <=> row[f].kind = "create")
        /\ row[f].kind = "create" => row'[f].name = row[f].name
    BY <1>0, <2>1, <2>2, WrittenEffect DEF OneRow
  <2>4. NamesStay BY <2>1, QuietNames
  <2>5. NamesSame(f) BY <2>1, <2>3, <2>4, NodesInUse DEF NamesSame, NamesStay, Alive
  <2> QED BY <2>1, <2>3, <2>4, <2>5, NamesUser DEF Alive
<1>5. ASSUME NEW n \in Names, RenameStart(f, n) PROVE NamesInv'
  <2>1. /\ uid' = uid /\ torn' = torn
        /\ UNCHANGED drainVars /\ UNCHANGED driveVars /\ call[f] = "idle"
        /\ place[f] # NoName /\ Retarget(f, n) /\ want'[f] = n
        /\ \A g \in Files : g # f => call'[g] = call[g] /\ want'[g] = want[g]
    BY <1>0, <1>5 DEF RenameStart, TypeOK
  <2>2. /\ row' = row \/ OneRow(f, row'[f])
        /\ ren' = ren \/ OneRen(f, ren'[f])
        /\ row'[f].kind = row[f].kind
        /\ row[f].kind = "create" => row'[f].name = n
        /\ row[f].kind # "create" => ren'[f] # <<>> /\ ren'[f][Len(ren'[f])].name = n
    <3>1. CASE row[f].kind = "create" BY <1>0, <2>1, <3>1, RetargetEffect DEF OneRow
    <3>2. CASE row[f].kind # "create"
      <4>1. row' = row /\ OneRen(f, Renamed(f, n)) BY <1>0, <2>1, <3>2, RetargetEffect
      <4>2. ren'[f] = Renamed(f, n) /\ OneRen(f, ren'[f]) BY <4>1 DEF OneRen
      <4>3. Renamed(f, n) # <<>> /\ Renamed(f, n)[Len(Renamed(f, n))].name = n
        BY <1>0, <2>1, RenamedType
      <4> QED BY <3>2, <4>1, <4>2, <4>3
    <3> QED BY <3>1, <3>2
  <2>3. NameKept(f)' BY <2>1, <2>2 DEF NameKept
  <2> QED BY <2>1, <2>2, <2>3, QuietNames, NamesUser DEF Alive
<1>6. CASE RenameEnd(f)
  <2>1. /\ uid' = uid /\ ren' = ren /\ torn' = torn /\ want' = want
        /\ UNCHANGED drainVars /\ UNCHANGED driveVars /\ call[f] = "renaming" /\ call'[f] = "idle"
        /\ \A g \in Files : g # f => call'[g] = call[g]
    BY <1>0, <1>6 DEF RenameEnd, toldVars, TypeOK
  <2>2. /\ row' = row \/ OneRow(f, row'[f])
        /\ row'[f].kind = row[f].kind /\ row'[f].name = row[f].name
    <3> DEFINE p == row[f].parked /\ ~(place[f] \in Transient /\ target[f] \notin Transient)
    <3>1. row[f] \in Row /\ row' = [row EXCEPT ![f] = [row[f] EXCEPT !.parked = p]] /\ p \in BOOLEAN
      BY <1>0, <1>6, RowFields DEF RenameEnd, TypeOK
    <3> HIDE DEF p
    <3>2. [row[f] EXCEPT !.parked = p] \in Row BY <3>1, RowEdits
    <3>3. OneRow(f, [row[f] EXCEPT !.parked = p]) BY <1>0, <3>1, <3>2, OneTypes
    <3> QED BY <3>1, <3>3 DEF OneRow, Row
  <2>3. NamesStay BY <2>1, QuietNames
  <2>4. NamesSame(f) BY <2>1, <2>2, <2>3, NodesInUse DEF NamesSame, NamesStay, Alive
  <2> QED BY <2>1, <2>2, <2>3, <2>4, NamesUser DEF Alive
<1>7. CASE DeleteLocal(f) \/ DeleteLanded(f) \/ DeleteReal(f)
  <2>1. /\ uid' = uid /\ torn' = torn /\ want' = want
        /\ UNCHANGED drainVars /\ UNCHANGED driveVars /\ call'[f] \in {"dropping", "gone"}
        /\ \A g \in Files : g # f => call'[g] = call[g]
    BY <1>0, <1>7 DEF DeleteLocal, DeleteLanded, DeleteReal, Forgotten, toldVars, TypeOK
  <2>2. DropOps(f) \/ QueueTrash(f) \/ (row' = row /\ ren' = ren)
    BY <1>7 DEF DeleteLocal, DeleteLanded, DeleteReal
  <2>3. /\ row' = row \/ OneRow(f, row'[f])
        /\ ren' = ren \/ OneRen(f, ren'[f])
    BY <1>0, <2>2, DropEffect, TrashEffect DEF OneRow, OneRen
  <2> QED BY <2>1, <2>3, QuietNames, NamesUser DEF NamesSame, Alive
<1> QED BY <1>1, <1>2, <1>3, <1>4, <1>5, <1>6, <1>7 DEF UserStep

(* Nodes are called otherwise by a rename only, of its own file's node. *)
LEMMA StepNames ==
  ASSUME Inv, NEW w \in Workers, NEW f \in Files, f = F(w), Step(w)
  PROVE  /\ More
         /\ \A r \in 1 .. nnode :
              /\ \/ node'[r].name = node[r].name
                 \/ r = uid[f] /\ job[w].kind = "rename" /\ Send(w)
              /\ node[r].trashed => node'[r].trashed
<1>0. pc[w] # "idle" /\ DriveKept /\ nnode \in Nat BY StepFrame, StepDrive DEF DriveKept, More
<1>1. CASE UNCHANGED driveVars BY <1>0, <1>1 DEF DriveKept, driveVars
<1>2. CASE Send(w)
  <2>1. pc[w] = "send" /\ (UNCHANGED driveVars \/ Applied(w)) /\ job[w].kind \in {"create", "rename"}
    BY <1>0, <1>2, SendEffect, KindAt
  <2>2. CASE Applied(w) /\ job[w].kind = "create"
    BY <1>0, <2>1, <2>2, AppliedEffect DEF NewNode, DriveKept
  <2>3. CASE Applied(w) /\ job[w].kind = "rename"
    <3>1. job[w].node = uid[f] BY <1>0, <2>3, AtWork DEF JobFits
    <3>2. RenamedNode(uid[f], SendName(w)) BY <2>1, <2>3, <3>1, AppliedEffect
    <3> QED BY <1>0, <1>2, <2>3, <3>2 DEF RenamedNode, DriveKept
  <2> QED BY <1>1, <2>1, <2>2, <2>3
<1>3. CASE Revise(w)
  <2>1. \/ ChangedNode(uid[f], job[w].blob, node[uid[f]].trashed)
        \/ UNCHANGED <<node, nnode>>
    BY <1>3, ReviseEffect
  <2> QED BY <1>0, <2>1 DEF DriveKept, ChangedNode
<1>4. CASE TrashSend(w)
  <2>1. \/ ChangedNode(job[w].node, node[job[w].node].body, TRUE)
        \/ UNCHANGED driveVars
    BY <1>4, TrashSendEffect
  <2> QED BY <1>0, <1>1, <2>1 DEF DriveKept, ChangedNode
<1>5. CASE \/ CreateLook(w) \/ CreateNote(w) \/ RenameGone(w) \/ CreateClash(w) \/ CheckHeld(w)
           \/ Fail(w) \/ CreateRetire(w) \/ Repoint(w) \/ AdoptAsk(w) \/ AdoptRead(w)
           \/ AdoptPlace(w) \/ CreateEnd(w) \/ RenameRetire(w) \/ TrashFind(w) \/ TrashRetire(w)
  <2>1. UNCHANGED driveVars
    BY <1>5 DEF CreateLook, CreateNote, RenameGone, CreateClash, CheckHeld, Fail, CreateRetire,
      Repoint, AdoptAsk, AdoptRead, AdoptPlace, CreateEnd, RenameRetire, TrashFind, TrashRetire
  <2> QED BY <1>1, <2>1
<1> QED BY <1>2, <1>3, <1>4, <1>5 DEF Step

(* A rename that is dropped for a newer one leaves the newest. *)
LEMMA TailLast ==
  ASSUME TypeOK, NEW f \in Files, ren[f] # <<>>
  PROVE  /\ Len(ren[f]) = 1 => Tail(ren[f]) = <<>>
         /\ Len(ren[f]) > 1 =>
              /\ Tail(ren[f]) # <<>>
              /\ Tail(ren[f])[Len(Tail(ren[f]))].name = ren[f][Len(ren[f])].name
<1> DEFINE t == Tail(ren[f])
<1>1. /\ ren[f] \in Seq(Ren) /\ Len(ren[f]) \in 1 .. 2 /\ Len(t) = Len(ren[f]) - 1
      /\ t \in Seq(Ren)
      /\ \A i \in 1 .. Len(t) : t[i] = ren[f][i + 1]
  BY RenTail DEF TypeOK, RenType
<1> HIDE DEF t
<1>2. t = <<>> <=> Len(t) = 0 BY <1>1, EmptySeq
<1>3. CASE Len(ren[f]) = 1 BY <1>1, <1>2, <1>3 DEF t
<1>4. CASE Len(ren[f]) = 2
  BY <1>1, <1>2, <1>4 DEF t
<1> QED BY <1>1, <1>3, <1>4

(* What the file at hand is left with. *)
LEMMA StepNameKept ==
  ASSUME Inv, NamesInv, Apart, NEW w \in Workers, NEW f \in Files, f = F(w), Step(w)
  PROVE  NameKept(f)' \/ NamesSame(f)
<1>0. /\ TypeOK /\ pc[w] # "idle" /\ FileFits(f) /\ JobFits(w) /\ CreateFits(w) /\ RenameFits(w)
      /\ SentFits(w) /\ NameKept(f) /\ ren[f] \in Seq(Ren)
  BY StepFrame, AtWork DEF NamesInv, TypeOK
<1>1. call' = call /\ want' = want /\ torn' = torn /\ (Alive(f)' <=> Alive(f))
  BY StepFrame DEF callVars, toldVars, Alive
<1>2. CASE CreateRetire(w)
  <2>1. pc[w] = "retire" /\ job[w].kind = "create" BY <1>2, RetireEffect
  <2>2. CASE row[f].kind = "create"
    <3>1. /\ node' = node /\ uid'[f] = job[w].node /\ row'[f].kind # "create"
      BY <1>2, <2>2, RetireEffect DEF CreateRetire, driveVars
    <3>2. CASE row[f].name = job[w].sent /\ ren'[f] = <<>>
      <4>1. node'[uid'[f]].name \in {job[w].sent, ConflictName(f)} BY <1>0, <2>1, <3>1 DEF SentFits
      <4> QED BY <1>0, <1>1, <2>2, <3>1, <3>2, <4>1 DEF NameKept, ConflictName
    <3>3. CASE Len(ren'[f]) = 1 /\ ren'[f] # <<>> /\ ren'[f][1].name = row[f].name
      BY <1>0, <1>1, <2>2, <3>1, <3>3 DEF NameKept
    <3> QED BY <1>2, <2>2, <3>2, <3>3, RetireEffect
  <2>3. CASE row[f].kind # "create"
    <3>1. ~Alive(f) BY <1>0, <2>1, <2>3 DEF CreateFits, Early
    <3> QED BY <1>1, <3>1 DEF NamesSame
  <2> QED BY <2>2, <2>3
<1>3. CASE RenameRetire(w)
  <2>1. /\ pc[w] = "retire" /\ job[w].kind = "rename" /\ row' = row /\ uid' = uid /\ node' = node
        /\ job[w].node = uid[f] /\ uid[f] # Local
    BY <1>0, <1>3 DEF RenameRetire, driveVars, JobFits
  <2>2. CASE ren' = ren BY <1>1, <2>1, <2>2 DEF NamesSame
  <2>3. CASE ren[f] # <<>> /\ ren[f][1].owner = w /\ ren'[f] = Tail(ren[f])
    <3>1. Len(ren[f]) \in 1 .. 2 BY <1>0, <2>3, RenTail
    <3>2. CASE Len(ren[f]) > 1
      <4>1. ren'[f] # <<>> /\ ren'[f][Len(ren'[f])].name = ren[f][Len(ren[f])].name
        BY <1>0, <2>3, <3>2, TailLast
      <4> QED BY <1>1, <2>1, <2>3, <4>1 DEF NamesSame
    <3>3. CASE Len(ren[f]) = 1
      <4> SUFFICES ASSUME Alive(f)', f \notin torn' PROVE NameKept(f)' BY DEF NameKept
      <4>1. /\ ren'[f] = <<>> /\ row[f].kind # "create" /\ ren[f][1].name = job[w].name
            /\ ~node[uid[f]].trashed
        BY <1>0, <1>1, <2>1, <2>3, <3>3, TailLast DEF RenameFits, FileFits, RowFits, Apart
      <4>2. want[f] = job[w].name BY <1>0, <1>1, <2>3, <3>3, <4>1 DEF NameKept
      <4>3. node[uid[f]].name \in {job[w].name, ConflictName(f)}
        BY <1>0, <1>1, <2>1, <4>1 DEF SentFits
      <4> QED BY <1>1, <2>1, <4>1, <4>2, <4>3 DEF NameKept, ConflictName
    <3> QED BY <3>1, <3>2, <3>3
  <2> QED BY <1>3, <2>2, <2>3, RenamedEffect
<1>4. CASE Fail(w)
  <2>1. /\ uid' = uid /\ node' = node /\ row'[f].kind = row[f].kind /\ row'[f].name = row[f].name
    BY <1>4, FailEffect DEF Fail, driveVars
  <2>2. /\ ren'[f] = <<>> <=> ren[f] = <<>>
        /\ ren[f] # <<>> => ren'[f][Len(ren'[f])].name = ren[f][Len(ren[f])].name
    <3>1. CASE ren'[f] = ren[f] BY <3>1
    <3>2. CASE ren[f] # <<>> /\ Len(ren[f]) > 1 /\ ren'[f] = Tail(ren[f]) BY <1>0, <3>2, TailLast
    <3>3. CASE /\ ren[f] # <<>> /\ Len(ren'[f]) = Len(ren[f]) /\ ren'[f] # <<>>
               /\ \A i \in 1 .. Len(ren[f]) : ren'[f][i].name = ren[f][i].name
      <4>1. Len(ren[f]) \in 1 .. Len(ren[f]) BY <1>0, <3>3
      <4> QED BY <3>3, <4>1
    <3> QED BY <1>4, <3>1, <3>2, <3>3, FailEffect
  <2> QED BY <1>1, <2>1, <2>2 DEF NamesSame
<1>5. CASE Revise(w) \/ CreateNote(w) \/ CreateEnd(w)
  <2>1. /\ row'[f].kind = "create" <=> row[f].kind = "create"
        /\ row[f].kind = "create" => row'[f].name = row[f].name
    <3>1. CASE Revise(w) BY <3>1, ReviseEffect DEF OneRow, NoRow
    <3>2. CASE CreateNote(w) \/ CreateEnd(w) BY <3>2, NoteEffect, EndEffect
    <3> QED BY <1>5, <3>1, <3>2
  <2>2. ren' = ren /\ uid' = uid /\ ~Send(w) BY <1>5 DEF Revise, CreateNote, CreateEnd, Send
  <2>3. row[f].kind # "create" /\ Alive(f) => node'[uid[f]].name = node[uid[f]].name
    BY <2>2, StepNames, NodesInUse
  <2> QED BY <1>1, <2>1, <2>2, <2>3 DEF NamesSame
<1>6. CASE TrashRetire(w)
  <2>1. ~Alive(f) BY <1>0, <1>6 DEF TrashRetire, JobFits
  <2> QED BY <1>1, <2>1 DEF NamesSame
<1>7. CASE \/ CreateLook(w) \/ RenameGone(w) \/ Send(w) \/ CreateClash(w)
           \/ CheckHeld(w) \/ Repoint(w) \/ AdoptAsk(w) \/ AdoptRead(w)
           \/ AdoptPlace(w) \/ TrashFind(w) \/ TrashSend(w)
  <2>1. row' = row /\ ren' = ren /\ uid' = uid
    BY <1>7 DEF CreateLook, RenameGone, Send, CreateClash, CheckHeld, Repoint, AdoptAsk, AdoptRead,
      AdoptPlace, TrashFind, TrashSend, dbVars
  <2>2. Alive(f) /\ row[f].kind # "create" /\ ren[f] = <<>> =>
          node'[uid[f]].name = node[uid[f]].name
    BY <1>0, StepNames, NodesInUse DEF RenameFits
  <2> QED BY <1>1, <2>1, <2>2 DEF NamesSame
<1> QED BY <1>2, <1>3, <1>4, <1>5, <1>6, <1>7 DEF Step

(* What the attempt has sent. *)
LEMMA StepSent ==
  ASSUME Inv, NEW w \in Workers, Step(w)
  PROVE  pc'[w] = "idle" \/ SentFits(w)'
<1>0. /\ TypeOK /\ pc[w] # "idle" /\ F(w) \in Files /\ JobFits(w) /\ CreateFits(w)
      /\ job[w].kind \in {"create", "revision", "trash", "rename"}
  BY StepFrame, AtWork, KindAt
<1>1. CASE pc'[w] # "retire" BY <1>1 DEF SentFits
<1>2. CASE CreateLook(w) \/ CreateClash(w)
  BY <1>0, <1>2, LookEffect, KindAt, AdoptEffect, <1>1 DEF driveVars, SentFits, SameOp
<1>3. CASE Send(w)
  <2>1. pc[w] = "send" /\ job[w].kind \in {"create", "rename"} BY <1>0, <1>3, SendEffect, KindAt
  <2>2. CASE AfterTaken(w) \/ pc'[w] = "fail" BY <1>1, <2>1, <2>2, TakenEffect
  <2>3. CASE /\ Applied(w) /\ SameOp(job[w], job'[w]) /\ job'[w].sent = job[w].sent
             /\ job'[w].node = IF job[w].kind = "create" THEN nnode + 1 ELSE job[w].node
    <3>1. SendName(w) \in {job[w].name, ConflictName(F(w))} BY <2>1, <2>3, AppliedEffect
    <3>2. CASE job[w].kind = "create"
      <4>1. node'[job'[w].node].name = SendName(w) /\ job[w].sent = job[w].name
        BY <1>0, <2>1, <2>3, <3>2, AppliedEffect DEF NewNode, CreateFits, Early
      <4> QED BY <2>3, <3>1, <3>2, <4>1 DEF SentFits, SameOp, F, ConflictName
    <3>3. CASE job[w].kind = "rename"
      <4>1. job[w].node \in 1 .. nnode BY <1>0, <3>3, Constants DEF JobFits, TypeOK, Uid
      <4>2. node'[job[w].node].name = SendName(w)
        BY <2>1, <2>3, <3>3, <4>1, AppliedEffect DEF RenamedNode
      <4> QED BY <2>3, <3>1, <3>3, <4>2 DEF SentFits, SameOp, F, ConflictName
    <3> QED BY <2>1, <3>2, <3>3
  <2> QED BY <1>3, <2>2, <2>3, SendEffect
<1>4. CASE RenameGone(w) BY <1>4 DEF RenameGone, Renameless, SentFits, driveVars
<1>5. CASE \/ CreateNote(w) \/ CheckHeld(w) \/ Fail(w) \/ CreateRetire(w) \/ Repoint(w)
           \/ AdoptAsk(w) \/ AdoptRead(w) \/ AdoptPlace(w) \/ CreateEnd(w) \/ Revise(w)
           \/ RenameRetire(w) \/ TrashFind(w) \/ TrashSend(w) \/ TrashRetire(w)
  <2>1. pc'[w] # "retire"
    <3>1. CASE CreateNote(w) \/ CheckHeld(w) \/ CreateRetire(w)
      BY <1>0, <3>1, NoteEffect, HeldEffect, RetireEffect, KindAt
    <3>2. CASE Repoint(w) \/ AdoptAsk(w) \/ AdoptRead(w) \/ AdoptPlace(w)
      BY <1>0, AskEffect, ReadEffect, PlaceEffect, <3>2 DEF Repoint, Goto, TypeOK
    <3>3. CASE TrashFind(w) \/ TrashSend(w) BY <3>3, FindEffect, TrashSendEffect
    <3>4. CASE Fail(w) \/ CreateEnd(w) \/ Revise(w) \/ RenameRetire(w) \/ TrashRetire(w)
      BY <1>0, <3>4, IdleEffect DEF Fail, CreateEnd, Revise, RenameRetire, TrashRetire, Idle
    <3> QED BY <1>5, <3>1, <3>2, <3>3, <3>4
  <2> QED BY <1>1, <2>1
<1> QED BY <1>2, <1>3, <1>4, <1>5 DEF Step

LEMMA NamesWorker ==
  ASSUME Inv, NamesInv, Apart, NEW w \in Workers, Step(w)
  PROVE  NamesInv'
<1>0. TypeOK /\ pc[w] # "idle" /\ F(w) \in Files BY StepFrame, AtWork DEF Inv
<1>1. PICK f \in Files : f = F(w) BY <1>0
<1>2. /\ call' = call /\ want' = want /\ torn' = torn
      /\ \A v \in Workers : v # w => pc'[v] = pc[v] /\ job'[v] = job[v]
      /\ \A g \in Files : g # f => row'[g] = row[g] /\ uid'[g] = uid[g] /\ ren'[g] = ren[g]
  <2>1. \A v \in Workers : v # w => pc'[v] = pc[v] /\ job'[v] = job[v] BY StepJob DEF OnePc, OneJob
  <2>2. \A g \in Files : g # f => row'[g] = row[g] /\ uid'[g] = uid[g]
    BY <1>1, StepRow, StepUid DEF OneRow
  <2>3. \A g \in Files : g # f => ren'[g] = ren[g]
    <3>1. CASE Fail(w) BY <1>1, <3>1, FailEffect DEF OneRen
    <3>2. CASE CreateRetire(w)
      <4>1. CASE row[f].kind = "create"
        <5>1. OneRen(f, ren'[f]) BY <1>1, <3>2, <4>1, RetireEffect
        <5> QED BY <5>1 DEF OneRen
      <4>2. CASE row[f].kind # "create" BY <1>1, <3>2, <4>2, RetireEffect
      <4> QED BY <4>1, <4>2
    <3>3. CASE RenameRetire(w) BY <1>1, <3>3, RenamedEffect DEF OneRen
    <3>4. CASE ~(Fail(w) \/ CreateRetire(w) \/ RenameRetire(w))
      BY <3>4 DEF Step, CreateLook, CreateNote, RenameGone, Send, CreateClash, CheckHeld, Repoint,
        AdoptAsk, AdoptRead, AdoptPlace, CreateEnd, Revise, TrashFind, TrashSend, TrashRetire,
        dbVars
    <3> QED BY <3>1, <3>2, <3>3, <3>4
  <2> QED BY <2>1, <2>2, <2>3, StepFrame DEF callVars, toldVars
<1>3. /\ More
      /\ \A r \in 1 .. nnode :
           /\ \/ node'[r].name = node[r].name
              \/ r = uid[f] /\ job[w].kind = "rename" /\ Send(w)
           /\ node[r].trashed => node'[r].trashed
  BY <1>1, StepNames
<1>4. ASSUME NEW g \in Files, g # f PROVE NamesSame(g)
  <2>1. Alive(g) /\ row[g].kind # "create" => node'[uid[g]].name = node[uid[g]].name
    <3>1. Alive(g) /\ row[g].kind # "create" => uid[g] \in 1 .. nnode /\ uid[g] # Local
      BY NodesInUse, Constants
    <3> QED BY <1>3, <1>4, <3>1 DEF Apart
  <2> QED BY <1>2, <1>4, <2>1 DEF NamesSame, Alive
<1>5. ASSUME NEW v \in Workers, v # w, pc'[v] # "idle" PROVE SentSame(v)
  <2>1. PICK g \in Files : g = F(v) BY <1>2, <1>5, AtWork
  <2>2. pc[v] # "idle" /\ (Alive(F(v))' <=> Alive(F(v))) BY <1>2, <1>5 DEF Alive, F
  <2>3. ASSUME pc[v] = "retire", job[v].kind = "create" \/ Alive(g)
        PROVE  /\ node'[job[v].node].name = node[job[v].node].name
               /\ node[job[v].node].trashed => node'[job[v].node].trashed
    <3>1. job[v].node \in 1 .. nnode /\ job[v].kind \in {"create", "rename"} /\ JobFits(v)
          /\ CreateFits(v) /\ RenameFits(v) /\ JobFits(w) /\ RenameFits(w)
          /\ job[v].node # Local
      BY <1>0, <2>2, <2>3, NodesInUse, KindAt, AtWork, Constants
    <3>2. ~(job[v].node = uid[f] /\ job[w].kind = "rename")
      BY <2>1, <2>3, <3>1, <1>1, <1>5 DEF Apart, CreateFits, Early, JobFits, RenameFits
    <3> QED BY <1>3, <3>1, <3>2
  <2> QED BY <1>2, <1>5, <2>1, <2>2, <2>3 DEF SentSame
<1>6. NameKept(f)' \/ NamesSame(f) BY <1>1, StepNameKept
<1>7. pc'[w] = "idle" \/ SentFits(w)' BY StepSent
<1> QED BY <1>4, <1>5, <1>6, <1>7, NamesStep

LEMMA NamesNext == Inv /\ NamesInv /\ Apart /\ [Next]_vars => NamesInv'
<1> SUFFICES ASSUME Inv, NamesInv, Apart, [Next]_vars PROVE NamesInv' OBVIOUS
<1>0. TypeOK BY DEF Inv
<1>1. CASE UserNext BY <1>1, NamesUserNext
<1>2. CASE SweepNext
  <2>1. PICK f \in Files : Grow(f) \/ SweepJudge(f) \/ SweepAct(f) BY <1>2 DEF SweepNext
  <2>2. /\ uid' = uid /\ want' = want /\ torn' = torn /\ call' = call
        /\ UNCHANGED drainVars /\ NamesStay
    BY <2>1, QuietNames DEF Grow, SweepJudge, SweepAct, dbVars, callVars, toldVars
  <2>3. CASE row' = row /\ ren' = ren
    BY <2>2, <2>3, NodesInUse, NamesUser DEF NamesSame, NamesStay, Alive
  <2>4. CASE ren' = ren /\ row' = [row EXCEPT ![f].parked = FALSE]
    <3>1. row[f] \in Row /\ row' = [row EXCEPT ![f] = [row[f] EXCEPT !.parked = FALSE]]
      BY <1>0, <2>4 DEF TypeOK
    <3>2. OneRow(f, [row[f] EXCEPT !.parked = FALSE]) BY <1>0, <3>1, RowEdits, OneTypes
    <3>3. OneRow(f, row'[f]) /\ row'[f].kind = row[f].kind /\ row'[f].name = row[f].name
      BY <3>1, <3>2 DEF OneRow, Row
    <3>4. NamesSame(f) BY <2>2, <2>4, <3>3, NodesInUse DEF NamesSame, NamesStay, Alive
    <3> QED BY <2>2, <2>4, <3>3, <3>4, NamesUser DEF Alive
  <2>5. CASE verdict[f] = "drop" /\ DropOps(f)
    <3>1. OneRow(f, row'[f]) /\ OneRen(f, ren'[f]) BY <1>0, <2>5, DropEffect DEF OneRow, OneRen
    <3>2. ~Alive(f) /\ ~Alive(f)' BY <2>2, <2>5 DEF Inv, FileFits, CallFits, Alive
    <3> QED BY <2>2, <3>1, <3>2, NamesUser DEF NamesSame
  <2> QED BY <2>1, <2>3, <2>4, <2>5 DEF Grow, SweepJudge, SweepAct, dbVars
<1>3. CASE \E w \in Workers : Step(w) BY <1>3, NamesWorker
<1>4. ASSUME NEW w \in Workers, NEW f \in Files, ClaimRow(w, f) \/ ClaimRename(w, f)
      PROVE  NamesInv'
  <2>1. /\ uid' = uid /\ want' = want /\ torn' = torn /\ call' = call
        /\ node' = node /\ nnode' = nnode
    BY <1>4 DEF ClaimRow, ClaimRename, callVars, driveVars, toldVars
  <2>2. /\ OneJob(w, job'[w]) /\ OnePc(w, pc'[w])
        /\ pc'[w] \in {"twin", "ask", "revise", "find", "trash", "send"}
    BY <1>0, <1>4, ClaimRowEffect, ClaimRowWay, ClaimRenameEffect
  <2>3. \A g \in Files :
          /\ row'[g].kind = row[g].kind /\ row'[g].name = row[g].name
          /\ ren'[g] = <<>> <=> ren[g] = <<>>
          /\ ren[g] # <<>> => ren'[g][Len(ren'[g])].name = ren[g][Len(ren[g])].name
    <3>1. CASE ClaimRow(w, f)
      <4>1. /\ OneRow(f, row'[f]) /\ row'[f].kind = row[f].kind /\ row'[f].name = row[f].name
        BY <1>0, <3>1, ClaimRowEffect
      <4>2. ren' = ren BY <3>1 DEF ClaimRow
      <4> QED BY <4>1, <4>2 DEF OneRow
    <3>2. CASE ClaimRename(w, f)
      <4>1. /\ row' = row /\ OneRen(f, ren'[f]) /\ ren'[f] # <<>> /\ ren[f] # <<>>
            /\ Len(ren'[f]) = Len(ren[f])
            /\ \A i \in 1 .. Len(ren[f]) : ren'[f][i].name = ren[f][i].name
        <5>1. row' = row BY <3>2 DEF ClaimRename
        <5> QED BY <3>2, <5>1, ClaimRenameEffect
      <4>2. Len(ren[f]) \in 1 .. Len(ren[f]) BY <1>0, <4>1 DEF TypeOK
      <4> QED BY <4>1, <4>2 DEF OneRen
    <3> QED BY <1>4, <3>1, <3>2
  <2>4. \A g \in Files : NamesSame(g) BY <2>1, <2>3 DEF NamesSame, Alive
  <2>5. SentFits(w)' BY <2>2 DEF SentFits
  <2>6. \A v \in Workers : v # w => SentSame(v) BY <2>1, <2>2 DEF OneJob, OnePc, SentSame, Alive, F
  <2> QED BY <2>4, <2>5, <2>6, NamesStep
<1>5. ASSUME NEW n \in Names, ForeignCreate(n) PROVE NamesInv'
  <2>1. /\ row' = row /\ ren' = ren /\ uid' = uid /\ want' = want /\ torn' = torn /\ call' = call
        /\ pc' = pc /\ job' = job
        /\ nnode < MaxNode /\ node' = Made(n, Theirs, Other) /\ nnode' = nnode + 1
    BY <1>5 DEF ForeignCreate, dbVars, callVars, drainVars, toldVars
  <2>2. n \in Name /\ Theirs \in 0 .. MaxBlob + 1 BY NameFacts, Constants
  <2>3. NewNode(n, Theirs, Other) BY <1>0, <2>1, <2>2, MadeType DEF NewNode
  <2>4. NamesStay BY <2>3, DriveSteps DEF NewNode, DriveKept, NamesStay
  <2>5. \A g \in Files : NamesSame(g) BY <2>1, <2>4, NodesInUse DEF NamesSame, NamesStay, Alive
  <2>6. \A v \in Workers : SentSame(v) BY <2>1, <2>4, NodesInUse DEF SentSame, NamesStay, Alive, F
  <2> QED BY <2>5, <2>6, NamesStep
<1>6. CASE Crash
  <2>1. /\ uid' = uid /\ want' = want /\ torn \subseteq torn' /\ node' = node
        /\ \A g \in Files : Alive(g)' => Alive(g)
    <3>1. ASSUME NEW g \in Files PROVE Alive(g)' => Alive(g)
      BY <1>6 DEF Crash, Alive
    <3> QED BY <1>6, <3>1 DEF Crash, driveVars
  <2>2. \A g \in Files :
          /\ row'[g].kind = row[g].kind /\ row'[g].name = row[g].name
          /\ ren'[g] = <<>> <=> ren[g] = <<>>
          /\ ren[g] # <<>> => ren'[g][Len(ren'[g])].name = ren[g][Len(ren[g])].name
    <3>1. ASSUME NEW g \in Files, ren[g] # <<>> PROVE Len(ren[g]) \in 1 .. Len(ren[g])
      BY <1>0, <3>1 DEF TypeOK
    <3> QED BY <1>0, <1>6, <3>1, CrashEffect
  <2>3. \A w \in Workers : pc'[w] = "idle" BY <1>0, <1>6, CrashEffect
  <2>4. \A g \in Files : NamesSame(g) BY <2>1, <2>2 DEF NamesSame
  <2> QED BY <2>3, <2>4, NamesStep
<1>7. CASE UNCHANGED vars
  BY <1>7, NamesStep DEF NamesSame, Alive, vars, dbVars, callVars, toldVars, driveVars, SentSame,
    F, drainVars
<1> QED BY <1>1, <1>2, <1>3, <1>4, <1>5, <1>6, <1>7 DEF Next

LEMMA NamesRenames == Inv /\ NamesInv => NamesHeld
<1> SUFFICES ASSUME Inv, NamesInv, NEW f \in Files, call[f] = "idle", f \notin torn
             PROVE  IF row[f].kind = "create" THEN row[f].name = want[f]
                    ELSE IF ren[f] # <<>> THEN ren[f][Len(ren[f])].name = want[f]
                    ELSE uid[f] # Local /\ node[uid[f]].name \in {want[f], ConflictName(f)}
  BY DEF NamesHeld
<1>1. FileFits(f) /\ NameKept(f) /\ Alive(f) BY DEF Inv, NamesInv, Alive
<1>2. row[f].kind # "create" => uid[f] # Local BY <1>1 DEF FileFits, CallFits
<1> QED BY <1>1, <1>2 DEF NameKept

(* The name the user gave a file last is on its create, or on a rename     *)
(* that is queued, or Drive has it or the conflict name it chose instead,  *)
(* whatever fails or restarts, as long as every file keeps a node of its   *)
(* own (rewrite_op_target, enqueue_op, finish_create).                     *)
THEOREM RenamesStay == Spec /\ []Apart => []NamesHeld
<1>1. Init => NamesInv BY InitInv DEF KeptInv
<1>2. Inv /\ NamesInv /\ Apart /\ [Next]_vars => NamesInv' BY NamesNext
<1> QED BY <1>1, <1>2, NamesRenames, Invariant, PTL DEF Spec

(* ------------ With no answer lost and no restart ------------ *)
LEMMA QuietSteps ==
  ASSUME Quiet, TypeOK
  PROVE  /\ ~Crash /\ \A f : ~Walk(f) /\ \A n : ~MintUnanswered(f, n)
         /\ ~MintRaces /\ "answer" \notin Faults
<1>1. ncrash = 0 /\ MaxCrash = 0 BY DEF Quiet, TypeOK
<1>2. ~Crash /\ \A f : ~Walk(f) BY <1>1 DEF Crash, Walk
<1>3. \A f, n : ~MintUnanswered(f, n) BY DEF Quiet, MintUnanswered, Fault
<1> QED BY <1>2, <1>3 DEF Quiet

(* Conflict names are told from each other and from names. *)
LEMMA Conflicts ==
  \A f, g \in Files : /\ ConflictName(f) \notin Names
                      /\ ConflictName(f) = ConflictName(g) => f = g
BY ConflictNames DEF ConflictName

(* A node that could be an unanswered create's is on its way to the tree. *)
LEMMA TwinCarried ==
  ASSUME Inv, QuietInv, NEW w \in Workers, pc[w] # "idle", NEW n, NEW r \in Twin(w, n)
  PROVE  node[r].name = n /\ \E v \in Workers : Carries(v, r)
<1>1. /\ r \in 1 .. nnode /\ Ours(r) /\ r # Local /\ node[r].name = n /\ r \notin hidden
      /\ ~InTree(r)
  BY TwinOurs
<1>2. Tracked(r) /\ node[r].by # Other BY <1>1 DEF QuietInv, Ours
<1> QED BY <1>1, <1>2 DEF Tracked, InTree

(* So a create adopts none... *)
LEMMA NoTwins ==
  ASSUME Inv, QuietInv, NEW w \in Workers, pc[w] \in {"twin", "clash"},
         NEW n \in row[F(w)].to \cup {job[w].name}
  PROVE  AdoptableTwin(w, n) = {}
<1> SUFFICES ASSUME NEW r \in AdoptableTwin(w, n) PROVE FALSE OBVIOUS
<1>1. pc[w] # "idle" /\ job[w].kind = "create" /\ pc[w] \in Early BY KindAt DEF Early
<1>2. r \in Twin(w, n) /\ ~Creating(w, n) BY AdoptableTwins
<1>3. node[r].name = n /\ \E v \in Workers : Carries(v, r) BY <1>1, <1>2, TwinCarried
<1>4. PICK v \in Workers : Carries(v, r) BY <1>3
<1>5. /\ v # w /\ pc[v] # "idle" /\ job[v].kind = "create" /\ pc[v] \in {"retire", "repoint"}
      /\ n \in {job[v].name, ConflictName(F(v))}
  BY <1>3, <1>4 DEF Carries, Lands
<1>6. n = ConflictName(F(v)) BY <1>2, <1>5 DEF Creating
<1>7. F(v) \in Files /\ F(w) \in Files /\ job[w].name \in Names BY <1>1, <1>5, AtWork DEF JobFits
<1>8. n \in Names \cup {ConflictName(F(w))} BY <1>7 DEF QuietInv, QuietFile
<1>9. F(v) = F(w) BY <1>6, <1>7, <1>8, Conflicts
<1>10. CASE pc[v] = "retire" BY <1>1, <1>5, <1>9, <1>10 DEF Inv, OneCreator, Early
<1>11. CASE pc[v] = "repoint"
  <2>1. uid[F(v)] # Local BY <1>5, <1>11, AtWork DEF JobFits
  <2>2. uid[F(w)] = Local BY <1>1, AtWork DEF CreateFits
  <2> QED BY <1>9, <2>1, <2>2
<1> QED BY <1>5, <1>10, <1>11

(* ...and a withdrawn one finds none but what is landing. *)
LEMMA NothingFound ==
  ASSUME Inv, QuietInv, NEW w \in Workers, TrashFind(w), crossed' = {}
  PROVE  pc'[w] = "trashed" /\ job' = job /\ hidden' = hidden
<1>1. pc[w] # "idle" BY DEF TrashFind
<1>2. ASSUME NEW r \in WithdrawnTwin(w) PROVE Landing(r)
  <2>1. PICK n : r \in Twin(w, n) BY DEF WithdrawnTwin
  <2> QED BY <1>1, <2>1, TwinCarried DEF Carries, Lands, Landing
<1>3. WithdrawnTwin(w) = {} BY <1>2 DEF TrashFind
<1>4. job' = job /\ hidden' = hidden /\ Goto(w, "trashed") BY <1>3 DEF TrashFind
<1> QED BY <1>4, OneTypes DEF Inv, OnePc, WorkerPc

LEMMA NothingAdopted ==
  ASSUME Inv, QuietInv, NEW w \in Workers, CreateLook(w) \/ CreateClash(w)
  PROVE  job' = job /\ pc'[w] \in {"fail", "note", "held"}
BY LookEffect, NoTwins

(* A node stays one that no create will take, unless the attempt that      *)
(* has it moves on.                                                        *)
LEMMA TrackedFrame ==
  ASSUME NEW r, Tracked(r), node'[r].by = node[r].by, hidden \subseteq hidden',
         \A f \in Files : place[f] # NoName /\ treeUid[f] = r =>
           (place'[f] # NoName /\ treeUid'[f] = r) \/ r \in hidden',
         \A w \in Workers : Carries(w, r) => Carries(w, r)' \/ Tracked(r)'
  PROVE  Tracked(r)'
BY DEF Tracked

(* A node that is made by a step. *)
LEMMA RangeSteps ==
  ASSUME More, nnode' = nnode + 1
  PROVE  \A r \in 1 .. nnode' : r \in 1 .. nnode \/ r = nnode + 1
BY DEF More

LEMMA MadeByStays ==
  ASSUME DriveKept, NEW f, NEW x \in 0 .. nnode, MadeBy(x, f)
  PROVE  MadeBy(x, f)'
<1>1. nnode \in Nat /\ Local = 0 BY Constants DEF DriveKept, More
<1>2. x = 0 \/ x \in 1 .. nnode BY <1>1
<1> QED BY <1>1, <1>2 DEF MadeBy, DriveKept

LEMMA QuietMoves ==
  ASSUME NEW f \in Files, FileFits(f), QuietFile(f), FileMoves(f), DriveKept, TrashKept
  PROVE  QuietFile(f)'
<1>0. 0 \in 0 .. nnode /\ MadeBy(Local, f) /\ Local = 0 BY Constants DEF DriveKept, More, MadeBy
<1>1. MadeBy(uid[f], f)' /\ MadeBy(row[f].at, f)'
  <2>1. MadeBy(uid[f], f)' /\ uid'[f] = uid[f]
    BY MadeByStays DEF QuietFile, FileFits, FileMoves, MadeBy
  <2>2. /\ row'[f].at \in {row[f].at, uid[f], Local}
        /\ row[f].at \in 0 .. nnode /\ uid[f] \in 0 .. nnode /\ MadeBy(row[f].at, f) /\ MadeBy(uid[f], f)
    BY DEF QuietFile, FileMoves, FileFits, RowFits
  <2>3. PICK x \in 0 .. nnode : x = row'[f].at /\ MadeBy(x, f) BY <1>0, <2>2
  <2>4. MadeBy(x, f)' BY <2>3, MadeByStays
  <2> QED BY <2>1, <2>3, <2>4 DEF MadeBy
<1>2. treeUid'[f] \in {Local, uid'[f]} BY DEF QuietFile, FileMoves
<1>3. row'[f].to \subseteq Names \cup {ConflictName(f)} BY DEF QuietFile, FileMoves
<1>4. \A r \in 1 .. nnode' : node'[r].by = f /\ node'[r].trashed => call'[f] \in {"dropping", "gone"}
  BY DEF QuietFile, FileMoves, TrashKept, DriveKept
<1> QED BY <1>1, <1>2, <1>3, <1>4 DEF QuietFile, FileMoves, ConflictName

LEMMA QuietFrame ==
  ASSUME NEW f \in Files, FileFits(f), QuietFile(f), FileKept(f), DriveKept, TrashKept,
         hidden \subseteq hidden'
  PROVE  QuietFile(f)'
<1>1. FileMoves(f) BY DEF FileKept, FileMoves, QuietFile, Alive
<1> QED BY <1>1, QuietMoves

(* A step of the user or of the sweep. *)
LEMMA QuietUser ==
  ASSUME Inv, QuietInv, NEW f \in Files, UNCHANGED drainVars, UNCHANGED driveVars, uid' = uid,
         hidden \subseteq hidden', row' = row \/ OneRow(f, row'[f]),
         \A g \in Files : g # f => /\ call'[g] = call[g] /\ want'[g] = want[g]
                                  /\ target'[g] = target[g] /\ place'[g] = place[g]
                                  /\ treeUid'[g] = treeUid[g],
         call'[f] = "minting" => call[f] \in {"none", "minting"},
         place[f] # NoName /\ treeUid[f] # Local =>
           \/ place'[f] # NoName /\ treeUid'[f] = treeUid[f]
           \/ treeUid[f] \in hidden',
         FileMoves(f)
  PROVE  QuietInv'
<1>0. /\ pc' = pc /\ job' = job /\ node' = node /\ nnode' = nnode /\ DriveKept /\ Local = 0
      /\ nnode \in Nat
  BY DriveSteps, Constants DEF drainVars, driveVars, DriveKept, More
<1>1. TrashKept BY <1>0 DEF TrashKept
<1>2. \A g \in Files : QuietFile(g)'
  <2>1. ASSUME NEW g \in Files, g # f PROVE FileKept(g) BY <2>1 DEF OneRow, FileKept
  <2> QED BY <1>0, <1>1, <2>1, QuietFrame, QuietMoves DEF Inv, QuietInv
<1>3. ASSUME NEW r \in 1 .. nnode PROVE Tracked(r)'
  BY <1>0, TrackedFrame DEF Carries, Lands, F, ConflictName, QuietInv
<1>4. ASSUME NEW w \in Workers, pc'[w] # "idle" PROVE QuietJob(w)'
  <2>1. PICK g \in Files : g = F(w) /\ call[g] # "none" BY <1>0, <1>4, AtWork DEF JobFits
  <2>2. QuietJob(w) BY <1>0, <1>4 DEF QuietInv
  <2>3. call'[g] # "minting" BY <2>1, <2>2 DEF QuietJob
  <2> QED BY <1>0, <2>1, <2>2, <2>3 DEF QuietJob, F, MadeBy
<1>5. RenamesLater' BY <1>0 DEF QuietInv, RenamesLater, F
<1> QED BY <1>0, <1>2, <1>3, <1>4, <1>5 DEF QuietInv

LEMMA QuietUserNext ==
  ASSUME Inv, QuietInv, Quiet, UserNext
  PROVE  QuietInv'
<1>0. TypeOK BY DEF Inv
<1>1. PICK f \in Files : UserStep(f) BY DEF UserNext, UserStep
<1>f. FileFits(f) /\ QuietFile(f)
  BY DEF Inv, QuietInv
<1>2. ASSUME NEW n \in Names, Mint(f, n) PROVE QuietInv'
  <2>1. QueueLocalNode(f, n) /\ UNCHANGED driveVars BY <1>2 DEF Mint
  <2>2. OneRow(f, row'[f]) /\ row'[f].kind = "create" /\ row'[f].at = Local /\ row'[f].to = {}
    BY <1>0, <2>1, QueueEffect DEF OneRow
  <2>3. /\ call[f] = "none" /\ UNCHANGED drainVars /\ uid' = uid /\ UNCHANGED treeVars
        /\ want'[f] = n /\ call'[f] = "minting" /\ target' = target
        /\ \A g \in Files : g # f => call'[g] = call[g] /\ want'[g] = want[g]
    BY <1>0, <2>1 DEF QueueLocalNode, TypeOK
  <2>4. FileMoves(f) BY <2>2, <2>3, Constants DEF FileMoves, Alive, treeVars
  <2> QED BY <2>1, <2>2, <2>3, <2>4, QuietUser DEF treeVars
<1>3. CASE Intern(f) \/ Open(f) \/ Close(f)
  <2>1. /\ row' = row /\ uid' = uid /\ treeUid' = treeUid /\ hidden' = hidden /\ want' = want
        /\ target' = target /\ UNCHANGED drainVars /\ UNCHANGED driveVars
        /\ \A g \in Files : g # f => call'[g] = call[g] /\ place'[g] = place[g]
    BY <1>0, <1>3 DEF Intern, Open, Close, dbVars, callVars, toldVars, TypeOK
  <2>2. \/ call'[f] = call[f] /\ place'[f] = place[f]
        \/ call[f] = "minting" /\ call'[f] = "idle" /\ place'[f] = want[f]
    BY <1>0, <1>3 DEF Intern, Open, Close, callVars, TypeOK
  <2>3. FileMoves(f) BY <1>f, <2>1, <2>2 DEF FileMoves, QuietFile, Alive
  <2>4. call'[f] = "minting" => call[f] = "minting" BY <2>2
  <2>5. place[f] # NoName => place'[f] # NoName BY <1>f, <2>2 DEF QuietFile
  <2> QED BY <2>1, <2>3, <2>4, <2>5, QuietUser
<1>4. CASE Release(f)
  <2> DEFINE b == nblob + 1
  <2>1. /\ uid' = uid /\ treeUid' = treeUid /\ hidden' = hidden /\ place' = place /\ want' = want
        /\ UNCHANGED callVars /\ UNCHANGED drainVars /\ UNCHANGED driveVars /\ call[f] = "idle"
        /\ row' = [row EXCEPT ![f] = Written(f, b)]
    BY <1>4 DEF Release
  <2>2. b \in Blob BY <1>0, <1>4, Constants DEF TypeOK, Release, Blob
  <2> HIDE DEF b
  <2>3. /\ OneRow(f, row'[f]) /\ (row'[f].kind = "create" => row[f].kind = "create")
        /\ row'[f].at \in {row[f].at, uid[f]} /\ row'[f].to \in {row[f].to, {}}
    BY <1>0, <2>1, <2>2, WrittenEffect DEF OneRow
  <2>4. FileMoves(f) BY <1>f, <2>1, <2>3 DEF FileMoves, QuietFile, Alive, callVars
  <2> QED BY <2>1, <2>3, <2>4, QuietUser DEF callVars
<1>5. ASSUME NEW n \in Names, RenameStart(f, n) PROVE QuietInv'
  <2>1. /\ uid' = uid /\ UNCHANGED treeVars /\ UNCHANGED drainVars /\ UNCHANGED driveVars
        /\ call[f] = "idle" /\ call'[f] = "renaming"
        /\ place[f] # NoName /\ Retarget(f, n) /\ target'[f] = n
        /\ \A g \in Files : g # f => /\ call'[g] = call[g] /\ want'[g] = want[g]
                                     /\ target'[g] = target[g]
    BY <1>0, <1>5 DEF RenameStart, TypeOK
  <2>2. /\ row' = row \/ OneRow(f, row'[f])
        /\ row'[f].kind = row[f].kind /\ row'[f].at = row[f].at /\ row'[f].to = row[f].to
    BY <1>0, <2>1, RetargetEffect DEF OneRow
  <2>3. FileMoves(f) BY <1>f, <2>1, <2>2, Constants DEF FileMoves, QuietFile, Alive, treeVars
  <2> QED BY <2>1, <2>2, <2>3, QuietUser DEF treeVars
<1>6. CASE RenameEnd(f)
  <2>1. /\ uid' = uid /\ treeUid' = treeUid /\ hidden' = hidden /\ want' = want
        /\ UNCHANGED drainVars /\ UNCHANGED driveVars /\ call[f] = "renaming" /\ call'[f] = "idle"
        /\ place'[f] = target[f]
        /\ \A g \in Files : g # f => /\ call'[g] = call[g] /\ place'[g] = place[g]
                                     /\ target'[g] = target[g]
    BY <1>0, <1>6 DEF RenameEnd, toldVars, TypeOK
  <2>2. /\ row' = row \/ OneRow(f, row'[f])
        /\ row'[f].kind = row[f].kind /\ row'[f].at = row[f].at /\ row'[f].to = row[f].to
    <3> DEFINE p == row[f].parked /\ ~(place[f] \in Transient /\ target[f] \notin Transient)
    <3>1. row[f] \in Row /\ row' = [row EXCEPT ![f] = [row[f] EXCEPT !.parked = p]] /\ p \in BOOLEAN
      BY <1>0, <1>6, RowFields DEF RenameEnd, TypeOK
    <3> HIDE DEF p
    <3>2. [row[f] EXCEPT !.parked = p] \in Row BY <3>1, RowEdits
    <3>3. OneRow(f, [row[f] EXCEPT !.parked = p]) BY <1>0, <3>1, <3>2, OneTypes
    <3> QED BY <3>1, <3>3 DEF OneRow, Row
  <2>3. place'[f] # NoName BY <1>f, <2>1 DEF QuietFile
  <2>4. FileMoves(f) BY <1>f, <2>1, <2>2, <2>3 DEF FileMoves, QuietFile, Alive
  <2> QED BY <2>1, <2>2, <2>3, <2>4, QuietUser
<1>7. CASE DeleteLocal(f) \/ DeleteLanded(f) \/ DeleteReal(f)
  <2>1. /\ uid' = uid /\ want' = want /\ target' = target
        /\ UNCHANGED drainVars /\ UNCHANGED driveVars /\ call'[f] \in {"dropping", "gone"}
        /\ \A g \in Files : g # f => call'[g] = call[g] /\ place'[g] = place[g]
                                     /\ treeUid'[g] = treeUid[g]
    BY <1>0, <1>7 DEF DeleteLocal, DeleteLanded, DeleteReal, Forgotten, toldVars, treeVars, TypeOK
  <2>2. CASE DeleteLocal(f)
    <3>1. DropOps(f) /\ UNCHANGED treeVars /\ call'[f] = "dropping" /\ place[f] # NoName
      BY <1>0, <2>2 DEF DeleteLocal, MayDelete, TypeOK
    <3>2. /\ OneRow(f, row'[f]) /\ row'[f].kind # "create"
          /\ row'[f].at \in {row[f].at, Local} /\ row'[f].to \in {row[f].to, {}}
      BY <1>0, <3>1, DropEffect DEF OneRow, NoRow
    <3>3. FileMoves(f) BY <1>f, <2>1, <3>1, <3>2 DEF FileMoves, treeVars
    <3> QED BY <2>1, <3>1, <3>2, <3>3, QuietUser DEF treeVars
  <2>3. CASE DeleteLanded(f) \/ DeleteReal(f)
    <3>1. Forgotten(f) /\ call'[f] = "gone" /\ place'[f] = NoName /\ treeUid'[f] = Local
      BY <1>0, <2>3 DEF DeleteLanded, DeleteReal, Forgotten, TypeOK
    <3>2. CASE QueueTrash(f)
      BY <1>0, <3>2, TrashEffect, <2>1, <3>1, <1>f, QuietUser DEF FileMoves, QuietFile
    <3>3. CASE uid[f] = Local /\ row' = row /\ hidden' = hidden /\ call[f] = "dropping"
      <4>1. FileMoves(f) BY <1>f, <2>1, <3>1, <3>3 DEF FileMoves, QuietFile, Alive
      <4>2. treeUid[f] = Local BY <1>f, <3>3 DEF QuietFile
      <4> QED BY <2>1, <3>1, <3>3, <4>1, <4>2, QuietUser
    <3> QED BY <2>3, <3>2, <3>3 DEF DeleteLanded, DeleteReal, LandedUnder
  <2> QED BY <1>7, <2>2, <2>3
<1> QED BY <1>0, <1>1, <1>2, <1>3, <1>4, <1>5, <1>6, <1>7, QuietSteps DEF UserStep

LEMMA QuietSweep ==
  ASSUME Inv, QuietInv, NEW f \in Files, Grow(f) \/ SweepJudge(f) \/ SweepAct(f)
  PROVE  QuietInv'
<1>0. TypeOK /\ FileFits(f) /\ QuietFile(f) /\ row[f] \in Row BY DEF Inv, QuietInv, TypeOK
<1>1. /\ UNCHANGED <<drainVars, driveVars, callVars, treeVars, toldVars>> /\ uid' = uid
  BY DEF Grow, SweepJudge, SweepAct, dbVars
<1>2. /\ row' = row \/ OneRow(f, row'[f])
      /\ row'[f].at \in {row[f].at, Local} /\ row'[f].to \in {row[f].to, {}}
      /\ row'[f].kind = "create" => row[f].kind = "create"
      /\ row'[f].kind = row[f].kind \/ call[f] \in {"dropping", "gone"}
  <2>1. CASE Grow(f) \/ SweepJudge(f) BY <2>1 DEF Grow, SweepJudge, dbVars
  <2>2. CASE verdict[f] = "drop" /\ DropOps(f)
    BY <1>0, <2>2, DropEffect DEF FileFits, CallFits, OneRow, NoRow
  <2>3. CASE row' = [row EXCEPT ![f] = [row[f] EXCEPT !.parked = FALSE]]
    <3>1. OneRow(f, [row[f] EXCEPT !.parked = FALSE]) BY <1>0, <2>3, RowEdits, OneTypes
    <3> QED BY <1>0, <3>1, Zenon DEF OneRow, Row
  <2> QED BY <2>1, <2>2, <2>3 DEF SweepAct
<1>3. FileMoves(f)
  BY <1>0, <1>1, <1>2 DEF FileMoves, QuietFile, Alive, callVars, treeVars, toldVars
<1> QED BY <1>1, <1>2, <1>3, QuietUser DEF callVars, treeVars, toldVars

LEMMA QuietForeign ==
  ASSUME Inv, QuietInv, NEW n \in Names, ForeignCreate(n)
  PROVE  QuietInv'
<1>1. /\ UNCHANGED <<dbVars, treeVars, callVars, drainVars, sweepVars, toldVars>>
      /\ nnode < MaxNode /\ node' = Made(n, Theirs, Other) /\ nnode' = nnode + 1
  BY DEF ForeignCreate
<1>2. n \in Name /\ Theirs \in 0 .. MaxBlob + 1 /\ TypeOK BY NameFacts, Constants DEF Inv
<1>3. NewNode(n, Theirs, Other) BY <1>1, <1>2, MadeType DEF NewNode
<1>4. DriveKept /\ More BY <1>3, DriveSteps DEF DriveKept
<1>5. /\ row' = row /\ uid' = uid /\ place' = place /\ treeUid' = treeUid /\ hidden' = hidden
      /\ call' = call /\ target' = target /\ want' = want /\ pc' = pc /\ job' = job
  BY <1>1 DEF dbVars, treeVars, callVars, drainVars, toldVars
<1>6. \A r \in 1 .. nnode' : (r \in 1 .. nnode /\ node'[r] = node[r]) \/ r = nnode + 1
  BY <1>1, <1>3, <1>4, RangeSteps DEF NewNode
<1>7. TrashKept BY <1>3, <1>6 DEF TrashKept, NewNode
<1>8. \A g \in Files : QuietFile(g)'
  <2>1. ASSUME NEW g \in Files PROVE FileKept(g) BY <1>5 DEF FileKept
  <2> QED BY <1>4, <1>5, <1>7, <2>1, QuietFrame DEF Inv, QuietInv
<1>9. ASSUME NEW r \in 1 .. nnode' PROVE Tracked(r)'
  <2>1. CASE r \in 1 .. nnode /\ node'[r] = node[r]
    BY <1>5, <2>1, TrackedFrame DEF Carries, Lands, F, ConflictName, QuietInv
  <2>2. CASE r = nnode + 1 BY <1>3, <2>2 DEF NewNode, Tracked
  <2> QED BY <1>6, <2>1, <2>2
<1>10. ASSUME NEW w \in Workers, pc'[w] # "idle" PROVE QuietJob(w)'
  <2>1. QuietJob(w) /\ job[w].node \in 0 .. nnode BY <1>5, <1>10, KnownNodes DEF QuietInv
  <2>2. PICK x \in 0 .. nnode : x = job[w].node BY <2>1
  <2>3. MadeBy(x, F(w))' BY <1>4, <1>5, <2>1, <2>2, MadeByStays DEF QuietJob, F, MadeBy
  <2> QED BY <1>5, <2>1, <2>2, <2>3 DEF QuietJob, F, MadeBy
<1>11. RenamesLater' BY <1>5 DEF QuietInv, RenamesLater, F
<1> QED BY <1>8, <1>9, <1>10, <1>11 DEF QuietInv

(* A claim is of an op whose file is in the tree. *)
LEMMA QuietClaimed ==
  ASSUME Inv, QuietInv, NEW w \in Workers, NEW f \in Files, pc[w] = "idle",
         OneJob(w, job'[w]), OnePc(w, pc'[w]),
         UNCHANGED <<uid, treeVars, callVars, driveVars, toldVars>>,
         row' = row \/ OneRow(f, row'[f]),
         row'[f].kind = row[f].kind /\ row'[f].at = row[f].at /\ row'[f].to = row[f].to,
         job'[w].file = f, job'[w].node \in {row[f].at, uid[f]}, call[f] # "minting",
         pc'[w] \notin {"retire", "repoint", "place"},
         job'[w].kind = "rename" => \A v \in Workers : pc[v] = "repoint" => F(v) # f
  PROVE  QuietInv'
<1>1. /\ uid' = uid /\ place' = place /\ treeUid' = treeUid /\ hidden' = hidden /\ call' = call
      /\ target' = target /\ want' = want /\ node' = node /\ nnode' = nnode /\ DriveKept
  BY DriveSteps DEF treeVars, callVars, driveVars, toldVars, DriveKept
<1>2. TrashKept BY <1>1 DEF TrashKept
<1>3. \A g \in Files : QuietFile(g)'
  <2>1. ASSUME NEW g \in Files PROVE FileKept(g) BY <1>1 DEF OneRow, FileKept
  <2> QED BY <1>1, <1>2, <2>1, QuietFrame DEF Inv, QuietInv
<1>4. ASSUME NEW v \in Workers, v # w PROVE pc'[v] = pc[v] /\ job'[v] = job[v] /\ F(v)' = F(v)
  BY <1>4 DEF OnePc, OneJob, F
<1>5. ASSUME NEW r \in 1 .. nnode PROVE Tracked(r)'
  <2>1. ASSUME NEW v \in Workers, Carries(v, r) PROVE Carries(v, r)'
    <3>1. v # w BY <2>1 DEF Carries, Lands
    <3> QED BY <1>1, <1>4, <2>1, <3>1 DEF Carries, Lands, ConflictName
  <2>2. Tracked(r) BY DEF QuietInv
  <2> QED BY <1>1, <2>1, <2>2, TrackedFrame
<1>6. ASSUME NEW v \in Workers, pc'[v] # "idle" PROVE QuietJob(v)'
  <2>1. CASE v = w
    <3>1. MadeBy(uid[f], f) /\ MadeBy(row[f].at, f) BY DEF QuietInv, QuietFile
    <3> QED BY <1>1, <2>1, <3>1 DEF QuietJob, MadeBy, F
  <2>2. CASE v # w BY <1>1, <1>4, <1>6, <2>2 DEF QuietInv, QuietJob, MadeBy
  <2> QED BY <2>1, <2>2
<1>7. RenamesLater'
  <2> SUFFICES ASSUME NEW u \in Workers, NEW v \in Workers, pc'[u] # "idle",
                      job'[u].kind = "rename", pc'[v] = "repoint"
               PROVE  F(v)' # F(u)'
    BY DEF RenamesLater
  <2>1. v # w OBVIOUS
  <2>2. CASE u = w BY <1>4, <2>1, <2>2 DEF F
  <2>3. CASE u # w BY <1>4, <2>1, <2>3 DEF QuietInv, RenamesLater
  <2> QED BY <2>2, <2>3
<1> QED BY <1>1, <1>3, <1>5, <1>6, <1>7 DEF QuietInv

LEMMA QuietClaims ==
  ASSUME Inv, QuietInv, Quiet, crossed' = {}, NEW w \in Workers, NEW f \in Files,
         ClaimRow(w, f) \/ ClaimRename(w, f)
  PROVE  QuietInv'
<1>0. TypeOK /\ FileFits(f) /\ QuietFile(f) BY DEF Inv, QuietInv
<1>1. CASE ClaimRow(w, f)
  <2>1. /\ pc[w] = "idle" /\ UNCHANGED <<uid, treeVars, callVars, driveVars, toldVars>>
        /\ call[f] # "minting"
    BY <1>1 DEF ClaimRow, Quiet
  <2>2. /\ OneRow(f, row'[f]) /\ OneJob(w, job'[w])
        /\ row'[f].kind = row[f].kind /\ row'[f].at = row[f].at /\ row'[f].to = row[f].to
        /\ job'[w].file = f /\ job'[w].node = row[f].at /\ job'[w].kind = row[f].kind
    BY <1>0, <1>1, ClaimRowEffect
  <2>3. OnePc(w, pc'[w]) /\ row[f].kind # "rename"
        /\ pc'[w] \in {"twin", "ask", "revise", "find", "trash"}
    BY <1>0, <1>1, ClaimRowWay
  <2> QED BY <2>1, <2>2, <2>3, QuietClaimed
<1>2. CASE ClaimRename(w, f)
  <2>1. /\ pc[w] = "idle" /\ UNCHANGED <<row, uid, treeVars, callVars, driveVars, toldVars>>
        /\ \A v \in Workers : pc[v] = "repoint" => F(v) # f
    BY <1>2 DEF ClaimRename
  <2>2. /\ OneJob(w, job'[w]) /\ ren[f] # <<>> /\ job'[w].file = f /\ job'[w].node = uid[f]
        /\ OnePc(w, pc'[w]) /\ pc'[w] \in {"ask", "send"}
    BY <1>2, ClaimRenameEffect
  <2>3. call[f] # "minting" BY <1>0, <2>2 DEF FileFits, RowFits, QuietFile
  <2> QED BY <2>1, <2>2, <2>3, QuietClaimed
<1> QED BY <1>1, <1>2

(* The tree stays as it is, but for the uid of the file at hand. *)
LEMMA StepTree ==
  ASSUME Inv, QuietInv, Quiet, crossed' = {}, NEW w \in Workers, NEW f \in Files, f = F(w), Step(w)
  PROVE  /\ \A g \in Files : g # f => place'[g] = place[g] /\ treeUid'[g] = treeUid[g]
         /\ place'[f] = NoName <=> place[f] = NoName
         /\ \/ treeUid'[f] = treeUid[f]
            \/ place[f] # NoName /\ uid' = uid /\ treeUid'[f] = uid[f]
         /\ hidden \subseteq hidden'
<1>0. /\ pc[w] # "idle" /\ TypeOK /\ treeUid \in [Files -> Uid]
      /\ place \in [Files -> Name \cup {NoName}]
  BY StepFrame DEF Inv, TypeOK
<1>1. CASE Repoint(w)
  BY <1>1, <1>0, AtWork DEF Repoint, dbVars, JobFits
<1>2. CASE AdoptPlace(w)
  BY <1>2, <1>0, AtWork DEF AdoptPlace, dbVars, JobFits, QuietInv, QuietJob, Adopts
<1>3. CASE RenameRetire(w)
  BY <1>3, <1>0, NameFacts DEF RenameRetire
<1>4. CASE CreateRetire(w)
  <2>1. place' = place /\ treeUid' = treeUid BY <1>4 DEF CreateRetire
  <2>2. hidden \subseteq hidden' BY <1>4 DEF CreateRetire
  <2> QED BY <2>1, <2>2
<1>5. CASE TrashFind(w) BY <1>5, NothingFound, Zenon DEF TrashFind
<1>6. CASE \/ CreateLook(w) \/ CreateNote(w) \/ RenameGone(w) \/ Send(w) \/ CreateClash(w)
           \/ CheckHeld(w) \/ Fail(w) \/ AdoptAsk(w) \/ AdoptRead(w) \/ CreateEnd(w) \/ Revise(w)
           \/ TrashSend(w) \/ TrashRetire(w)
  BY <1>6, Zenon DEF CreateLook, CreateNote, RenameGone, Send, CreateClash, CheckHeld, Fail,
    AdoptAsk, AdoptRead, CreateEnd, Revise, TrashSend, TrashRetire, treeVars
<1> QED BY <1>1, <1>2, <1>3, <1>4, <1>5, <1>6 DEF Step

(* A create is sent under its name or its conflict name, and its row has   *)
(* no node before it is retired.                                           *)
LEMMA StepAt ==
  ASSUME Inv, NEW w \in Workers, NEW f \in Files, f = F(w), Step(w), ~CreateRetire(w)
  PROVE  /\ row'[f].at \in {row[f].at, Local}
         /\ row'[f].to \subseteq row[f].to \cup Names \cup {ConflictName(f)}
<1>0. pc[w] # "idle" /\ TypeOK BY StepFrame DEF Inv
<1>1. CASE row' = row BY <1>1
<1>2. CASE CreateNote(w)
  <2>1. job[w].name \in Names BY <1>0, <1>2, KindAt, AtWork DEF JobFits, CreateNote
  <2>2. SendName(w) \in Names \cup {ConflictName(f)} BY <2>1 DEF SendName
  <2> QED BY <1>2, <2>2, NoteEffect
<1>3. CASE Fail(w) \/ CreateEnd(w) BY <1>3, FailEffect, EndEffect
<1>4. CASE Revise(w) BY <1>1, <1>4, ReviseEffect DEF OneRow, NoRow
<1>5. CASE TrashRetire(w) BY <1>0, <1>5, Blanks, OneTypes DEF TrashRetire, OneRow, NoRow
<1>6. CASE \/ CreateLook(w) \/ RenameGone(w) \/ Send(w) \/ CreateClash(w) \/ CheckHeld(w)
           \/ Repoint(w) \/ AdoptAsk(w) \/ AdoptRead(w) \/ AdoptPlace(w) \/ RenameRetire(w)
           \/ TrashFind(w) \/ TrashSend(w)
  BY <1>1, <1>6 DEF CreateLook, RenameGone, Send, CreateClash, CheckHeld, Repoint, AdoptAsk,
    AdoptRead, AdoptPlace, RenameRetire, TrashFind, TrashSend, dbVars
<1> QED BY <1>2, <1>3, <1>4, <1>5, <1>6 DEF Step

LEMMA StepTrash ==
  ASSUME Inv, QuietInv, NEW w \in Workers, Step(w)
  PROVE  TrashKept
<1>0. /\ pc[w] # "idle" /\ TypeOK /\ DriveKept /\ F(w) \in Files
      /\ call[F(w)] \in {"none", "minting", "idle", "renaming", "dropping", "gone"}
  BY StepFrame, StepDrive, AtWork DEF TypeOK
<1>1. CASE UNCHANGED driveVars BY <1>1 DEF TrashKept, driveVars
<1>2. CASE Send(w)
  <2>1. pc[w] = "send" /\ (UNCHANGED driveVars \/ Applied(w)) /\ job[w].kind \in {"create", "rename"}
    BY <1>0, <1>2, SendEffect, KindAt
  <2>2. CASE Applied(w) /\ job[w].kind = "create"
    BY <2>1, <2>2, AppliedEffect, <1>0, RangeSteps DEF NewNode, DriveKept, TrashKept
  <2>3. CASE Applied(w) /\ job[w].kind = "rename"
    BY <2>1, <2>3, AppliedEffect DEF RenamedNode, TrashKept
  <2> QED BY <1>1, <2>1, <2>2, <2>3
<1>3. CASE Revise(w)
  <2>1. \/ ChangedNode(uid[F(w)], job[w].blob, node[uid[F(w)]].trashed)
        \/ UNCHANGED <<node, nnode>>
    BY <1>3, ReviseEffect
  <2> QED BY <2>1 DEF TrashKept, ChangedNode
<1>4. CASE TrashSend(w)
  <2>1. /\ pc[w] = "trash" /\ job[w].node \in 1 .. nnode
        /\ \/ ChangedNode(job[w].node, node[job[w].node].body, TRUE)
           \/ UNCHANGED driveVars
    BY <1>4, TrashSendEffect
  <2>2. ~Alive(F(w)) /\ call[F(w)] # "none" /\ job[w].node # Local
    BY <1>0, <2>1, AtWork DEF JobFits
  <2>3. node[job[w].node].by = F(w) BY <1>0, <2>2 DEF QuietInv, QuietJob, MadeBy
  <2>4. call[F(w)] \in {"dropping", "gone"} BY <1>0, <2>2 DEF Alive
  <2> QED BY <1>1, <2>1, <2>3, <2>4 DEF TrashKept, ChangedNode
<1>5. CASE \/ CreateLook(w) \/ CreateNote(w) \/ RenameGone(w) \/ CreateClash(w) \/ CheckHeld(w)
           \/ Fail(w) \/ CreateRetire(w) \/ Repoint(w) \/ AdoptAsk(w) \/ AdoptRead(w)
           \/ AdoptPlace(w) \/ CreateEnd(w) \/ RenameRetire(w) \/ TrashFind(w) \/ TrashRetire(w)
  <2>1. UNCHANGED driveVars
    BY <1>5 DEF CreateLook, CreateNote, RenameGone, CreateClash, CheckHeld, Fail, CreateRetire,
      Repoint, AdoptAsk, AdoptRead, AdoptPlace, CreateEnd, RenameRetire, TrashFind, TrashRetire
  <2> QED BY <1>1, <2>1, Zenon
<1> QED BY <1>2, <1>3, <1>4, <1>5 DEF Step

(* Where an attempt gets to, and with which node. *)
LEMMA StepTo ==
  ASSUME Inv, QuietInv, Quiet, crossed' = {}, NEW w \in Workers, Step(w)
  PROVE  /\ pc'[w] = "repoint" => CreateRetire(w) /\ row[F(w)].kind = "create"
         /\ pc'[w] = "place" => job'[w].seen # NoName
         /\ \/ job'[w].node \in {job[w].node, Local}
            \/ /\ job[w].kind = "create" /\ NewNode(SendName(w), job[w].blob, F(w))
               /\ job'[w].node = nnode + 1
<1>0. pc[w] # "idle" /\ TypeOK /\ pc \in [Workers -> WorkerPc] /\ NoJob.node = Local
  BY StepFrame DEF Inv, TypeOK, NoJob
<1>1. CASE CreateRetire(w) BY <1>1, RetireEffect
<1>2. CASE CreateLook(w) \/ CreateClash(w) BY <1>2, NothingAdopted
<1>3. CASE CreateNote(w) BY <1>3, NoteEffect
<1>4. CASE RenameGone(w) \/ Repoint(w) BY <1>0, <1>4 DEF RenameGone, Repoint, Goto
<1>5. CASE Send(w)
  <2>1. pc[w] = "send" /\ job[w].kind \in {"create", "rename"} BY <1>0, <1>5, SendEffect, KindAt
  <2>2. CASE AfterTaken(w) BY <2>1, <2>2, TakenEffect
  <2>3. CASE Applied(w) /\ pc'[w] = "retire" /\ job[w].kind = "create"
    BY <2>1, <2>3, AppliedEffect, <1>5, SendEffect, TakenEffect
  <2>4. CASE Applied(w) /\ pc'[w] = "retire" /\ job[w].kind = "rename"
    <3>1. job'[w].node = job[w].node BY <1>5, <2>1, <2>4, SendEffect, TakenEffect
    <3> QED BY <2>4, <3>1
  <2>5. CASE pc'[w] = "fail" /\ job' = job BY <2>5
  <2> QED BY <1>5, <2>1, <2>2, <2>3, <2>4, <2>5, SendEffect
<1>6. CASE CheckHeld(w)
  <2>1. job[w].kind \in {"create", "rename"} BY <1>0, <1>6, HeldEffect, KindAt
  <2> QED BY <1>6, <2>1, HeldEffect
<1>7. CASE AdoptAsk(w) BY <1>7, AskEffect
<1>8. CASE AdoptRead(w)
  BY <1>8, ReadEffect, NameFacts
<1>9. CASE AdoptPlace(w)
  <2>1. job[w].kind \in {"create", "revision", "trash", "rename"} BY <1>0, KindAt
  <2> QED BY <1>9, <2>1, PlaceEffect
<1>10. CASE TrashFind(w) BY <1>10, NothingFound
<1>11. CASE TrashSend(w) BY <1>11, TrashSendEffect
<1>12. CASE Fail(w) \/ CreateEnd(w) \/ Revise(w) \/ RenameRetire(w) \/ TrashRetire(w)
  <2>1. pc'[w] = "idle" /\ job'[w] = NoJob
    BY <1>0, <1>12, IdleEffect DEF Fail, CreateEnd, Revise, RenameRetire, TrashRetire, Idle
  <2> QED BY <1>0, <2>1
<1> QED BY <1>1, <1>2, <1>3, <1>4, <1>5, <1>6, <1>7, <1>8, <1>9, <1>10, <1>11, <1>12 DEF Step

(* The file at hand. *)
LEMMA StepFile ==
  ASSUME Inv, QuietInv, Quiet, crossed' = {}, NEW w \in Workers, NEW f \in Files, f = F(w), Step(w)
  PROVE  QuietFile(f)'
<1>0. /\ pc[w] # "idle" /\ FileFits(f) /\ QuietFile(f) /\ QuietJob(w) /\ DriveKept /\ TrashKept
      /\ call' = call /\ want' = want /\ target' = target /\ Local = 0
  BY StepFrame, StepDrive, StepTrash, AtWork, Constants DEF QuietInv, callVars, toldVars
<1>1. CASE CreateRetire(w)
  <2>1. /\ UNCHANGED driveVars /\ place' = place /\ treeUid' = treeUid
        /\ hidden \subseteq hidden' /\ MadeBy(job[w].node, f) /\ call[f] # "minting"
    BY <1>0, <1>1 DEF CreateRetire, QuietJob
  <2>2. CASE row[f].kind = "create"
    <3>1. uid'[f] = job[w].node /\ row'[f].at \in {Local, job[w].node} /\ row'[f].to = {}
          /\ row'[f].kind # "create"
      BY <1>1, <2>2, RetireEffect
    <3>2. uid[f] = Local /\ Alive(f) BY <1>0, <2>2 DEF FileFits, RowFits, QuietFile
    <3> QED BY <1>0, <2>1, <3>1, <3>2 DEF QuietFile, MadeBy, Alive, driveVars, ConflictName
  <2>3. CASE row[f].kind # "create"
    <3>1. uid' = uid /\ row'[f].at = job[w].node /\ row'[f].to \in {row[f].to, {}}
          /\ row'[f].kind = "trash"
      BY <1>1, <2>3, RetireEffect, Zenon
    <3> QED BY <1>0, <2>1, <3>1 DEF QuietFile, MadeBy, Alive, driveVars, ConflictName
  <2> QED BY <2>2, <2>3
<1>2. CASE ~CreateRetire(w)
  <2>1. uid' = uid
    BY <1>2, StepUid, Zenon DEF Step, CreateLook, CreateNote, RenameGone, Send, CreateClash,
      CheckHeld, Fail, Repoint, AdoptAsk, AdoptRead, AdoptPlace, CreateEnd, Revise, RenameRetire,
      TrashFind, TrashSend, TrashRetire
  <2>2. FileKept(f) BY <1>0, <1>2, <2>1, StepAt, StepRow, StepTree DEF FileKept, QuietJob
  <2> QED BY <1>0, <2>2, StepTree, QuietFrame
<1> QED BY <1>1, <1>2

(* The node another attempt has made is not renamed. *)
LEMMA StepCarried ==
  ASSUME Inv, QuietInv, NEW w \in Workers, Step(w), NEW v \in Workers, v # w,
         NEW r \in 1 .. nnode, Carries(v, r)
  PROVE  Carries(v, r)'
<1>0. PICK f \in Files : f = F(w) /\ pc[w] # "idle" BY StepFrame, AtWork
<1>1. /\ pc'[v] = pc[v] /\ job'[v] = job[v] /\ node'[r].by = node[r].by
      /\ pc[v] \in {"retire", "repoint"} /\ job[v].kind = "create" /\ F(v) = node[r].by
  BY StepJob, StepDrive DEF OnePc, OneJob, DriveKept, Carries, Lands
<1>2. node'[r].name = node[r].name
  <2> SUFFICES ASSUME r = uid[f], job[w].kind = "rename" PROVE FALSE BY <1>0, StepNames
  <2>1. uid[f] # Local BY <1>0, AtWork DEF JobFits
  <2>2. F(v) = F(w) BY <1>0, <1>1, <2>1 DEF QuietInv, QuietFile, MadeBy
  <2>3. pc[v] = "retire" => uid[F(v)] = Local BY <1>1, AtWork DEF CreateFits, Early
  <2>4. pc[v] = "repoint" => F(v) # F(w) BY <1>0 DEF QuietInv, RenamesLater
  <2> QED BY <1>0, <1>1, <2>1, <2>2, <2>3, <2>4
<1> QED BY <1>1, <1>2 DEF Carries, Lands, F, ConflictName

(* The attempt at hand hands its node on. *)
LEMMA StepLands ==
  ASSUME Inv, QuietInv, Quiet, crossed' = {}, NEW w \in Workers, Step(w), NEW r \in 1 .. nnode, Carries(w, r)
  PROVE  Tracked(r)'
<1>0. PICK f \in Files : f = F(w) /\ pc[w] # "idle" BY StepFrame, AtWork
<1>1. /\ pc[w] \in {"retire", "repoint"} /\ job[w].kind = "create" /\ job[w].node = r
      /\ r # Local /\ nnode \in Nat
  BY Constants DEF Carries, Lands, Inv, TypeOK, Uid
<1>2. CASE pc[w] = "retire"
  <2>1. CreateRetire(w)
    BY <1>1, <1>2 DEF Step, CreateLook, CreateNote, RenameGone, Send, CreateClash, CheckHeld, Fail,
      Repoint, AdoptAsk, AdoptRead, AdoptPlace, CreateEnd, Revise, RenameRetire, TrashFind,
      TrashSend, TrashRetire
  <2>2. UNCHANGED driveVars /\ job' = job BY <2>1 DEF CreateRetire
  <2>3. CASE row[f].kind = "create"
    <3>1. pc'[w] = "repoint" BY <1>0, <2>1, <2>3, RetireEffect
    <3>2. Carries(w, r)' BY <2>2, <3>1 DEF Carries, Lands, F, ConflictName, driveVars
    <3> QED BY <3>2 DEF Tracked
  <2>4. CASE row[f].kind # "create"
    <3>1. hidden' = hidden \cup {job[w].node} BY <1>0, <2>1, <2>4 DEF CreateRetire
    <3> QED BY <1>1, <3>1 DEF Tracked
  <2> QED BY <2>3, <2>4
<1>3. CASE pc[w] = "repoint"
  <2>1. Repoint(w)
    BY <1>1, <1>3 DEF Step, CreateLook, CreateNote, RenameGone, Send, CreateClash, CheckHeld, Fail,
      CreateRetire, AdoptAsk, AdoptRead, AdoptPlace, CreateEnd, Revise, RenameRetire, TrashFind,
      TrashSend, TrashRetire
  <2>2. /\ place' = place /\ hidden' = hidden
        /\ treeUid' = IF place[f] = NoName THEN treeUid ELSE [treeUid EXCEPT ![f] = r]
    BY <1>0, <1>1, <2>1 DEF Repoint
  <2>3. CASE place[f] # NoName
    <3>1. treeUid'[f] = r /\ place'[f] # NoName BY <2>2, <2>3 DEF Inv, TypeOK
    <3> QED BY <3>1 DEF Tracked
  <2>4. CASE place[f] = NoName
    BY <1>0, <1>1, <1>3, <2>4, AtWork, <2>2 DEF QuietInv, QuietFile, QuietJob, JobFits, TypeOK,
      Tracked
  <2> QED BY <2>3, <2>4
<1> QED BY <1>1, <1>2, <1>3

LEMMA StepTracked ==
  ASSUME Inv, QuietInv, Quiet, crossed' = {}, NEW w \in Workers, Step(w), NEW r \in 1 .. nnode'
  PROVE  Tracked(r)'
<1>0. PICK f \in Files : f = F(w) /\ pc[w] # "idle" BY StepFrame, AtWork
<1>1. DriveKept /\ More BY StepDrive DEF DriveKept
<1>2. CASE r \in 1 .. nnode
  <2>1. Tracked(r) /\ node'[r].by = node[r].by /\ r # Local
    BY <1>1, <1>2, Constants DEF QuietInv, DriveKept, More
  <2>2. hidden \subseteq hidden' BY <1>0, StepTree
  <2>3. ASSUME NEW g \in Files, place[g] # NoName, treeUid[g] = r
        PROVE  place'[g] # NoName /\ treeUid'[g] = r
    <3>1. treeUid[g] = uid[g] BY <2>1, <2>3 DEF QuietInv, QuietFile
    <3> QED BY <1>0, <2>3, <3>1, StepTree
  <2>4. \A v \in Workers : Carries(v, r) => Carries(v, r)' \/ Tracked(r)'
    BY <1>2, StepCarried, StepLands
  <2> QED BY <2>1, <2>2, <2>3, <2>4, TrackedFrame
<1>3. CASE r \notin 1 .. nnode
  <2>1. Send(w) /\ job[w].kind = "create" /\ Applied(w) /\ NewNode(SendName(w), job[w].blob, F(w))
    BY <1>1, <1>3, StepDrive
  <2>2. r = nnode + 1 BY <1>1, <1>3, <2>1, RangeSteps DEF NewNode
  <2>3. pc[w] = "send" /\ SendName(w) \in {job[w].name, ConflictName(F(w))}
    BY <2>1, SendEffect, AppliedEffect
  <2>4. /\ pc'[w] = "retire" /\ SameOp(job[w], job'[w]) /\ job'[w].node = nnode + 1
    <3>1. ~UNCHANGED driveVars
      <4>1. nnode' # nnode BY <1>1, <2>1 DEF NewNode, More
      <4> QED BY <4>1 DEF driveVars
    <3>2. "answer" \notin Faults BY DEF Quiet
    <3>3. ~AfterTaken(w) \/ ~UNCHANGED driveVars BY <3>1
    <3> QED BY <2>1, <3>1, <3>2, SendEffect
  <2>5. Carries(w, r)'
    BY <2>1, <2>2, <2>3, <2>4 DEF Carries, Lands, NewNode, SameOp, F, ConflictName
  <2> QED BY <2>5 DEF Tracked
<1> QED BY <1>2, <1>3

LEMMA QuietStep ==
  ASSUME Inv, QuietInv, Quiet, crossed' = {}, NEW w \in Workers, Step(w)
  PROVE  QuietInv'
<1>0. PICK f \in Files : f = F(w) /\ pc[w] # "idle" BY StepFrame, AtWork
<1>1. /\ DriveKept /\ TrashKept /\ call' = call /\ want' = want /\ target' = target
      /\ hidden \subseteq hidden'
  BY <1>0, StepFrame, StepDrive, StepTrash, StepTree DEF callVars, toldVars
<1>2. ASSUME NEW g \in Files PROVE QuietFile(g)'
  <2>1. CASE g = f BY <1>0, <2>1, StepFile
  <2>2. CASE g # f
    BY <1>0, <2>2, StepUid, StepRow, StepTree, <1>1, QuietFrame DEF OneRow, FileKept, Inv, QuietInv
  <2> QED BY <2>1, <2>2
<1>3. ASSUME NEW v \in Workers, v # w PROVE pc'[v] = pc[v] /\ job'[v] = job[v] /\ F(v)' = F(v)
  BY <1>3, StepJob DEF OnePc, OneJob, F
<1>4. pc'[w] # "idle" => F(w)' = F(w) /\ job'[w].kind = job[w].kind BY StepJob DEF SameOp, F
<1>5. ASSUME NEW v \in Workers, pc'[v] # "idle" PROVE QuietJob(v)'
  <2>0. pc[v] # "idle" /\ F(v)' = F(v) /\ QuietJob(v) BY <1>0, <1>3, <1>4, <1>5 DEF QuietInv
  <2>1. call'[F(v)] # "minting" BY <1>1, <2>0 DEF QuietJob
  <2>2. pc'[v] = "place" => job'[v].seen # NoName BY <1>3, <2>0, StepTo DEF QuietJob
  <2>3. MadeBy(job[v].node, F(v))'
    <3>1. job[v].node \in 0 .. nnode /\ MadeBy(job[v].node, F(v)) BY <2>0, KnownNodes DEF QuietJob
    <3>2. CASE job'[v].node = job[v].node
      <4>1. PICK x \in 0 .. nnode : x = job[v].node BY <3>1
      <4>2. MadeBy(x, F(v))' BY <1>1, <2>0, <3>1, <4>1, MadeByStays DEF MadeBy
      <4> QED BY <3>2, <4>1, <4>2 DEF MadeBy
    <3>3. CASE job'[v].node = Local BY <3>3 DEF MadeBy
    <3>4. CASE v = w /\ NewNode(SendName(w), job[w].blob, F(w)) /\ job'[w].node = nnode + 1
      BY <2>0, <3>4 DEF MadeBy, NewNode
    <3> QED BY <1>3, <3>2, <3>3, <3>4, StepTo
  <2> QED BY <2>0, <2>1, <2>2, <2>3 DEF QuietJob
<1>6. RenamesLater'
  <2> SUFFICES ASSUME NEW u \in Workers, NEW v \in Workers, pc'[u] # "idle",
                      job'[u].kind = "rename", pc'[v] = "repoint", F(v)' = F(u)'
               PROVE  FALSE
    BY DEF RenamesLater
  <2>1. pc[u] # "idle" /\ job[u].kind = "rename" /\ F(v)' = F(v) /\ F(u)' = F(u)
    BY <1>0, <1>3, <1>4
  <2>2. CASE v # w BY <1>3, <2>1, <2>2 DEF QuietInv, RenamesLater
  <2>3. CASE v = w
    BY <2>3, StepTo, <2>1, CreateAlone DEF F
  <2> QED BY <2>2, <2>3
<1> QED BY <1>2, <1>5, <1>6, StepTracked DEF QuietInv

LEMMA QuietNext ==
  ASSUME Quiet
  PROVE  Inv /\ QuietInv /\ [Next]_vars /\ crossed' = {} => QuietInv'
<1> SUFFICES ASSUME Inv, QuietInv, [Next]_vars, crossed' = {} PROVE QuietInv' OBVIOUS
<1>1. CASE UserNext BY <1>1, QuietUserNext
<1>2. CASE SweepNext BY <1>2, QuietSweep DEF SweepNext
<1>3. CASE \E w \in Workers : Step(w) BY <1>3, QuietStep
<1>4. CASE \E w \in Workers, f \in Files : ClaimRow(w, f) \/ ClaimRename(w, f) BY <1>4, QuietClaims
<1>5. CASE \E n \in Names : ForeignCreate(n) BY <1>5, QuietForeign
<1>6. ~Crash BY QuietSteps DEF Inv
<1>7. CASE UNCHANGED vars
  <2>1. QuietInv' = QuietInv
    BY <1>7 DEF vars, dbVars, treeVars, callVars, drainVars, sweepVars, driveVars, toldVars,
      boundVars, QuietInv, Tracked, Carries, Lands, QuietFile, QuietJob, RenamesLater, MadeBy,
      Alive, F, ConflictName
  <2> QED BY <2>1
<1> QED BY <1>1, <1>2, <1>3, <1>4, <1>5, <1>6, <1>7 DEF Next

LEMMA QuietInit == Init => QuietInv
<1> SUFFICES ASSUME Init PROVE QuietInv OBVIOUS
<1>1. \A r \in 1 .. nnode : FALSE BY DEF Init
<1>2. ASSUME NEW f \in Files PROVE QuietFile(f)
  BY <1>1, <1>2 DEF Init, QuietFile, MadeBy, NoRow, Alive
<1>3. \A w \in Workers : pc[w] = "idle" BY DEF Init
<1> QED BY <1>1, <1>2, <1>3 DEF QuietInv, RenamesLater

(* So each file has a node to itself, and keeps it. *)
LEMMA QuietApart == Inv /\ QuietInv => Apart
<1> SUFFICES ASSUME Inv, QuietInv PROVE Apart OBVIOUS
<1>1. ASSUME NEW f \in Files, NEW g \in Files, uid[f] # Local, uid[f] = uid[g] PROVE f = g
  BY <1>1 DEF QuietInv, QuietFile, MadeBy
<1>2. ASSUME NEW w \in Workers, NEW g \in Files, pc[w] = "retire", job[w].kind = "create",
             job[w].node = uid[g]
      PROVE  g = F(w)
  <2>1. job[w].node # Local BY <1>2, AtWork DEF CreateFits
  <2> QED BY <1>2, <2>1 DEF QuietInv, QuietFile, QuietJob, MadeBy
<1>3. ASSUME NEW f \in Files, Alive(f), uid[f] # Local PROVE ~node[uid[f]].trashed
  <2>1. uid[f] \in 1 .. nnode BY <1>3, Constants DEF Inv, TypeOK, FileFits, Uid
  <2>2. node[uid[f]].by = f /\ call[f] \notin {"dropping", "gone"}
    BY <1>3 DEF QuietInv, QuietFile, MadeBy, Alive
  <2> QED BY <2>1, <2>2 DEF QuietInv, QuietFile
<1> QED BY <1>1, <1>2, <1>3 DEF Apart

(* What crossed a landing is not forgotten. *)
LEMMA CrossedStays == [Next]_vars => crossed \subseteq crossed'
<1> SUFFICES ASSUME [Next]_vars PROVE crossed \subseteq crossed' OBVIOUS
<1>1. CASE UserNext
  BY <1>1 DEF UserNext, Mint, MintUnanswered, Intern, Open, Close, Walk, Release, RenameStart,
    RenameEnd, DeleteLocal, DeleteLanded, DeleteReal, Call, Fault, boundVars
<1>2. CASE SweepNext BY <1>2 DEF SweepNext, Grow, SweepJudge, SweepAct, boundVars
<1>3. ASSUME NEW w \in Workers, Step(w) PROVE crossed \subseteq crossed'
  BY <1>3 DEF Step, CreateLook, CreateNote, RenameGone, Send, CreateClash, CheckHeld, Fail,
    CreateRetire, Repoint, AdoptAsk, AdoptRead, AdoptPlace, CreateEnd, Revise, RenameRetire,
    TrashFind, TrashSend, TrashRetire, boundVars, Fault
<1>4. ASSUME NEW w \in Workers, NEW f \in Files, ClaimRow(w, f) \/ ClaimRename(w, f)
      PROVE  crossed \subseteq crossed'
  BY <1>4 DEF ClaimRow, ClaimRename, boundVars
<1>5. ASSUME NEW n \in Names, ForeignCreate(n) PROVE crossed \subseteq crossed'
  BY <1>5 DEF ForeignCreate
<1>6. CASE Crash BY <1>6 DEF Crash
<1>7. CASE UNCHANGED vars BY <1>7 DEF vars, boundVars
<1> QED BY <1>1, <1>2, <1>3, <1>4, <1>5, <1>6, <1>7 DEF Next

(* With no answer lost and no restart. *)
LEMMA QuietHolding ==
  ASSUME Quiet
  PROVE  Spec => [](Inv /\ QuietHolds)
<1>1. Init => Inv /\ QuietHolds BY InitInv, QuietInit, QuietApart DEF QuietHolds
<1>2. Inv /\ QuietHolds /\ [Next]_vars => Inv' /\ QuietHolds'
  <2> SUFFICES ASSUME Inv, QuietHolds, [Next]_vars PROVE Inv' /\ QuietHolds' OBVIOUS
  <2>1. Inv' BY InvNext
  <2>2. ASSUME crossed' = {} PROVE (QuietInv /\ Apart /\ KeptInv)'
    <3>1. QuietInv /\ Apart /\ BytesInv /\ NamesInv
      BY <2>2, CrossedStays DEF QuietHolds, Uncrossed, KeptInv
    <3>2. QuietInv' BY <2>2, <3>1, QuietNext
    <3>3. (Inv /\ QuietInv => Apart)' BY QuietApart, PTL
    <3>4. BytesInv' /\ NamesInv' BY <3>1, BytesNext, NamesNext
    <3> QED BY <2>1, <3>2, <3>3, <3>4 DEF KeptInv
  <2> QED BY <2>1, <2>2 DEF QuietHolds, Uncrossed
<1> QED BY <1>1, <1>2, PTL DEF Spec

(* With no answer lost and no restart every file has a node to itself that *)
(* is not trashed while the user has the file: whatever is created,        *)
(* renamed, written and deleted when, under whatever names, and however    *)
(* calls fail, until the rename or the trash of another worker comes       *)
(* between a landing and the tree (adoptable_twin, withdrawn_twin,         *)
(* retire_create).                                                         *)
THEOREM KeptApart ==
  ASSUME Quiet
  PROVE  Spec => [](Uncrossed => Apart)
<1>1. QuietHolds => (Uncrossed => Apart) BY DEF QuietHolds
<1> QED BY <1>1, QuietHolding, PTL

(* Until then no two files end up on one node (adoptable_twin,             *)
(* Core::creating).                                                        *)
THEOREM NodesApart ==
  ASSUME Quiet
  PROVE  Spec => []OneFilePerNode
<1>1. QuietHolds => OneFilePerNode BY DEF QuietHolds, Apart, OneFilePerNode, NodesShared
<1> QED BY <1>1, QuietHolding, PTL

(* Nothing is trashed that another device made, ever, nor until then what  *)
(* the user still has (withdrawn_twin_in, adoptable).                      *)
THEOREM OnlyOursTrashed ==
  ASSUME Quiet
  PROVE  Spec => []OnlyOurs
<1>1. Inv => TheirsAlone BY DEF Inv, NotTheirs, Ours, TheirsAlone
<1>2. QuietHolds => (Uncrossed => NoneTaken) BY DEF QuietHolds, Apart, NoneTaken, Alive
<1>3. Inv /\ QuietHolds => OnlyOurs BY <1>1, <1>2 DEF OnlyOurs
<1> QED BY <1>3, QuietHolding, PTL

(* No write is lost until then (attach_blob_to_create, finish_create). *)
THEOREM NoWriteLost ==
  ASSUME Quiet
  PROVE  Spec => []WritesKept
<1>1. Inv /\ QuietHolds => WritesKept BY BytesWrites DEF QuietHolds, KeptInv, WritesKept
<1> QED BY <1>1, QuietHolding, PTL

(* And no rename is (rewrite_op_target, finish_create). *)
THEOREM NoRenameLost ==
  ASSUME Quiet
  PROVE  Spec => []NamesKept
<1>1. Inv /\ QuietHolds => NamesKept BY NamesRenames DEF QuietHolds, KeptInv, NamesKept
<1> QED BY <1>1, QuietHolding, PTL

(* With one worker nothing crosses a landing. *)
LEMMA NoneCrosses ==
  ASSUME \A w, v \in Workers : w = v
  PROVE  Spec => []Uncrossed
<1>1. Init => Uncrossed BY DEF Init, Uncrossed
<1>2. Uncrossed /\ [Next]_vars => Uncrossed'
  <2> SUFFICES ASSUME crossed = {}, [Next]_vars PROVE crossed' = {} BY DEF Uncrossed
  <2>1. CASE UserNext
    BY <2>1 DEF UserNext, Mint, MintUnanswered, Intern, Open, Close, Walk, Release, RenameStart,
      RenameEnd, DeleteLocal, DeleteLanded, DeleteReal, Call, Fault, boundVars
  <2>2. CASE SweepNext BY <2>2 DEF SweepNext, Grow, SweepJudge, SweepAct, boundVars
  <2>3. ASSUME NEW w \in Workers, Step(w) PROVE crossed' = {}
    <3>1. CASE TrashFind(w)
      <4>1. \A r : ~Landing(r) BY <3>1 DEF TrashFind, Landing
      <4> QED BY <3>1, <4>1 DEF TrashFind
    <3>2. CASE ~TrashFind(w)
      BY <2>3, <3>2 DEF Step, CreateLook, CreateNote, RenameGone, Send, CreateClash, CheckHeld, Fail,
        CreateRetire, Repoint, AdoptAsk, AdoptRead, AdoptPlace, CreateEnd, Revise, RenameRetire,
        TrashSend, TrashRetire, boundVars, Fault
    <3> QED BY <3>1, <3>2
  <2>4. ASSUME NEW w \in Workers, NEW f \in Files, ClaimRow(w, f) \/ ClaimRename(w, f)
        PROVE  crossed' = {}
    <3>1. CASE ClaimRow(w, f) BY <3>1 DEF ClaimRow, boundVars
    <3>2. CASE ClaimRename(w, f) BY <3>2 DEF ClaimRename
    <3> QED BY <2>4, <3>1, <3>2
  <2>5. ASSUME NEW n \in Names, ForeignCreate(n) PROVE crossed' = {} BY <2>5 DEF ForeignCreate
  <2>6. CASE Crash BY <2>6 DEF Crash
  <2>7. CASE UNCHANGED vars BY <2>7 DEF vars, boundVars
  <2> QED BY <2>1, <2>2, <2>3, <2>4, <2>5, <2>6, <2>7 DEF Next
<1> QED BY <1>1, <1>2, PTL DEF Spec

(* ------------ The name the tree has ------------ *)

LEMMA TreeFile ==
  ASSUME NEW g, TreeFits(g), TreeSame(g)
  PROVE  TreeFits(g)'
BY DEF TreeFits, TreeSame, Owed, ConflictName

LEMMA ReadFrame ==
  ASSUME NEW v, ReadFits(v), ReadSame(v)
  PROVE  ReadFits(v)'
<1>1. F(v)' = F(v) BY DEF ReadSame, F
<1> QED BY <1>1 DEF ReadFits, ReadSame, StillRenaming, Owed, ConflictName

LEMMA TreeParts ==
  ASSUME TreeInv,
         \A g \in Files : TreeFits(g)' \/ TreeSame(g),
         \A v \in Workers : ReadFits(v)' \/ ReadSame(v)
  PROVE  TreeInv'
BY TreeFile, ReadFrame DEF TreeInv

(* A step of the user or of the sweep. *)
LEMMA TreeUser ==
  ASSUME Inv, TreeInv, NEW f \in Files, UNCHANGED drainVars, torn' = torn,
         \A g \in Files : g # f =>
           /\ call'[g] = call[g] /\ want'[g] = want[g] /\ target'[g] = target[g]
           /\ place'[g] = place[g] /\ ren'[g] = ren[g],
         TreeFits(f)' \/ TreeSame(f),
         Alive(f)' /\ row[f].kind # "create" /\ call[f] # "none" =>
           ren'[f] # <<>> \/ (Alive(f) /\ want'[f] = want[f] /\ ren[f] = <<>>)
  PROVE  TreeInv'
<1>1. pc' = pc /\ job' = job BY DEF drainVars
<1>2. ASSUME NEW g \in Files, g # f PROVE TreeSame(g) BY <1>2 DEF TreeSame
<1>3. ASSUME NEW v \in Workers, pc[v] = "place" PROVE ReadSame(v)
  <2>1. PICK g \in Files : g = F(v) /\ call[g] # "none" /\ row[g].kind # "create"
    BY <1>3, AtWork DEF JobFits, Early
  <2>2. Alive(g)' => ren'[g] # <<>> \/ (Alive(g) /\ want'[g] = want[g] /\ ren[g] = <<>>)
    <3>1. CASE g = f BY <2>1, <3>1
    <3>2. CASE g # f BY <3>2 DEF Alive
    <3> QED BY <3>1, <3>2
  <2>3. F(v)' = F(v) BY <1>1 DEF F
  <2>4. Alive(F(v))' <=> Alive(g)' BY <2>1, <2>3 DEF Alive
  <2> QED BY <1>1, <2>1, <2>2, <2>4 DEF ReadSame
<1>4. ASSUME NEW v \in Workers, pc[v] # "place" PROVE ReadSame(v) BY <1>1, <1>4 DEF ReadSame
<1> QED BY <1>2, <1>3, <1>4, TreeParts

LEMMA TreeUserNext ==
  ASSUME Inv, TreeInv, UserNext
  PROVE  TreeInv'
<1>0. TypeOK BY DEF Inv
<1>1. PICK f \in Files : UserStep(f) BY DEF UserNext, UserStep
<1>2. ASSUME NEW n \in Names, Mint(f, n) \/ MintUnanswered(f, n) PROVE TreeInv'
  BY <1>2, <1>0, TreeUser DEF Mint, MintUnanswered, QueueLocalNode, TypeOK, treeVars, TreeFits
<1>3. CASE Open(f) \/ Close(f) \/ Walk(f) \/ Release(f)
  BY <1>3, TreeUser DEF Open, Close, Walk, Release, dbVars, toldVars, callVars, TreeSame, Alive
<1>4. CASE Intern(f)
  BY <1>0, <1>4, TreeUser DEF Intern, toldVars, TypeOK, TreeFits, Owed, Alive
<1>5. ASSUME NEW n \in Names, RenameStart(f, n) PROVE TreeInv'
  <2>1. /\ torn' = torn /\ place' = place /\ UNCHANGED drainVars
        /\ call'[f] = "renaming" /\ want'[f] = n /\ target'[f] = n
        /\ place[f] # NoName /\ Retarget(f, n)
        /\ \A g \in Files : g # f => /\ call'[g] = call[g] /\ want'[g] = want[g]
                                     /\ target'[g] = target[g]
    BY <1>0, <1>5 DEF RenameStart, TypeOK, treeVars
  <2>2. TreeFits(f)' BY <2>1 DEF TreeFits
  <2>3. /\ ren' = ren \/ OneRen(f, ren'[f])
        /\ row[f].kind # "create" => ren'[f] # <<>>
    <3>1. CASE row[f].kind = "create" BY <1>0, <2>1, <3>1, RetargetEffect
    <3>2. CASE row[f].kind # "create"
      <4>1. OneRen(f, Renamed(f, n)) BY <1>0, <2>1, <3>2, RetargetEffect
      <4>2. ren'[f] = Renamed(f, n) /\ OneRen(f, ren'[f]) BY <4>1 DEF OneRen
      <4>3. Renamed(f, n) # <<>> BY <1>0, <2>1, RenamedType
      <4> QED BY <4>2, <4>3
    <3> QED BY <3>1, <3>2
  <2> QED BY <2>1, <2>2, <2>3, TreeUser DEF OneRen
<1>6. CASE RenameEnd(f)
  BY <1>0, <1>6, TreeUser DEF RenameEnd, toldVars, TypeOK, TreeInv, TreeFits, Owed, Alive
<1>7. CASE DeleteLocal(f) \/ DeleteLanded(f) \/ DeleteReal(f)
  <2>1. /\ torn' = torn /\ want' = want /\ target' = target /\ UNCHANGED drainVars
        /\ call'[f] \in {"dropping", "gone"}
        /\ \A g \in Files : g # f => call'[g] = call[g] /\ place'[g] = place[g]
    BY <1>0, <1>7 DEF DeleteLocal, DeleteLanded, DeleteReal, Forgotten, toldVars, treeVars, TypeOK
  <2>2. ren' = ren \/ OneRen(f, ren'[f])
    <3>1. DropOps(f) \/ QueueTrash(f) => OneRen(f, ren'[f])
      BY <1>0, DropEffect, TrashEffect DEF OneRen
    <3> QED BY <1>7, <3>1 DEF DeleteLocal, DeleteLanded, DeleteReal
  <2>3. TreeFits(f)' /\ ~Alive(f)' BY <2>1 DEF TreeFits, Alive
  <2> QED BY <2>1, <2>2, <2>3, TreeUser DEF OneRen
<1> QED BY <1>1, <1>2, <1>3, <1>4, <1>5, <1>6, <1>7 DEF UserStep

(* Only the file at hand has its renames changed by a step of the drain. *)
LEMMA StepRen ==
  ASSUME Inv, NEW w \in Workers, NEW f \in Files, f = F(w), Step(w)
  PROVE  \A g \in Files : g # f => ren'[g] = ren[g]
<1>1. CASE Fail(w) BY <1>1, FailEffect DEF OneRen
<1>2. CASE CreateRetire(w)
  <2>1. CASE row[f].kind = "create"
    <3>1. OneRen(f, ren'[f]) BY <1>2, <2>1, RetireEffect
    <3> QED BY <3>1 DEF OneRen
  <2>2. CASE row[f].kind # "create" BY <1>2, <2>2, RetireEffect
  <2> QED BY <2>1, <2>2
<1>3. CASE RenameRetire(w) BY <1>3, RenamedEffect DEF OneRen
<1>4. CASE ~(Fail(w) \/ CreateRetire(w) \/ RenameRetire(w))
  BY <1>4 DEF Step, CreateLook, CreateNote, RenameGone, Send, CreateClash, CheckHeld, Repoint,
    AdoptAsk, AdoptRead, AdoptPlace, CreateEnd, Revise, TrashFind, TrashSend, TrashRetire, dbVars
<1> QED BY <1>1, <1>2, <1>3, <1>4

(* The drain gives the tree the name that was read, or the conflict name. *)
LEMMA StepPlace ==
  ASSUME Inv, NEW w \in Workers, NEW f \in Files, f = F(w), Step(w)
  PROVE  \/ \A g \in Files : place'[g] = place[g]
         \/ /\ \A g \in Files : g # f => place'[g] = place[g]
            /\ place'[f] = ConflictName(f)
         \/ /\ \A g \in Files : g # f => place'[g] = place[g]
            /\ pc[w] = "place" /\ ~StillRenaming(w) /\ place'[f] = job[w].seen
<1>0. TypeOK BY DEF Inv
<1>1. CASE AdoptPlace(w) BY <1>0, <1>1 DEF AdoptPlace, TypeOK
<1>2. CASE RenameRetire(w) BY <1>0, <1>2 DEF RenameRetire, TypeOK
<1>3. CASE ~(AdoptPlace(w) \/ RenameRetire(w))
  <2>1. place' = place
    BY <1>3, Zenon DEF Step, CreateLook, CreateNote, RenameGone, Send, CreateClash, CheckHeld,
      Fail, CreateRetire, Repoint, AdoptAsk, AdoptRead, CreateEnd, Revise, TrashFind, TrashSend,
      TrashRetire, treeVars
  <2> QED BY <2>1, Zenon
<1> QED BY <1>1, <1>2, <1>3

(* Only a read-back leads to where the tree is given its result. *)
LEMMA StepReads ==
  ASSUME Inv, NEW w \in Workers, Step(w), pc'[w] = "place"
  PROVE  AdoptRead(w)
<1>0. pc[w] # "idle" /\ TypeOK BY StepFrame DEF Inv
<1>1. CASE CreateLook(w) \/ CreateClash(w) BY <1>1, LookEffect
<1>2. CASE CreateNote(w) BY <1>2, NoteEffect
<1>3. CASE Send(w)
  <2>1. pc[w] = "send" /\ job[w].kind \in {"create", "rename"} BY <1>0, <1>3, SendEffect, KindAt
  <2> QED BY <1>3, <2>1, SendEffect, TakenEffect
<1>4. CASE CheckHeld(w) BY <1>0, <1>4, HeldEffect, KindAt
<1>5. CASE CreateRetire(w) BY <1>5, RetireEffect
<1>6. CASE Repoint(w) \/ RenameGone(w) BY <1>0, <1>6 DEF Repoint, RenameGone, Goto, TypeOK
<1>7. CASE AdoptAsk(w) BY <1>7, AskEffect
<1>8. CASE AdoptPlace(w)
  <2>1. job[w].kind \in {"create", "revision", "trash", "rename"} BY <1>0, KindAt
  <2> QED BY <1>8, <2>1, PlaceEffect
<1>9. CASE TrashFind(w) \/ TrashSend(w) BY <1>9, FindEffect, TrashSendEffect
<1>10. CASE Fail(w) \/ CreateEnd(w) \/ Revise(w) \/ RenameRetire(w) \/ TrashRetire(w)
  BY <1>0, <1>10, IdleEffect DEF Fail, CreateEnd, Revise, RenameRetire, TrashRetire, Idle
<1> QED BY <1>1, <1>2, <1>3, <1>4, <1>5, <1>6, <1>7, <1>8, <1>9, <1>10 DEF Step

LEMMA TreeStep ==
  ASSUME Inv, NamesInv, TreeInv, OneAttempt, NEW w \in Workers, Step(w)
  PROVE  TreeInv'
<1>0. pc[w] # "idle" /\ JobFits(w) /\ TypeOK BY StepFrame, AtWork
<1>1. PICK f \in Files : f = F(w) BY <1>0, AtWork
<1>2. /\ call' = call /\ want' = want /\ torn' = torn /\ target' = target
  BY StepFrame DEF callVars, toldVars
<1>3. ASSUME NEW g \in Files, g # f PROVE TreeSame(g) BY <1>1, <1>2, <1>3, StepPlace DEF TreeSame
<1>4. TreeFits(f)' \/ TreeSame(f)
  <2>1. CASE place'[f] \in {place[f], ConflictName(f)} BY <1>2, <2>1 DEF TreeSame
  <2>2. CASE pc[w] = "place" /\ ~StillRenaming(w) /\ place'[f] = job[w].seen
    BY <1>1, <2>2, <1>2 DEF TreeInv, ReadFits, Alive, TreeFits, Owed, ConflictName
  <2> QED BY <1>1, <2>1, <2>2, StepPlace
<1>5. ASSUME NEW v \in Workers, v # w PROVE ReadSame(v)
  <2>1. pc'[v] = pc[v] /\ job'[v] = job[v] BY <1>5, StepJob DEF OnePc, OneJob
  <2>2. CASE pc[v] = "place"
    <3>1. PICK g \in Files : g = F(v) BY <2>2, AtWork
    <3>2. g # f BY <1>0, <1>1, <1>5, <2>2, <3>1 DEF OneAttempt
    <3>3. ren'[g] = ren[g] BY <1>1, <3>2, StepRen
    <3>4. Alive(F(v))' <=> Alive(F(v)) BY <1>2, <2>1 DEF Alive, F
    <3> QED BY <1>2, <2>1, <3>1, <3>3, <3>4 DEF ReadSame
  <2>3. CASE pc[v] # "place" BY <2>1, <2>3 DEF ReadSame
  <2> QED BY <2>2, <2>3
<1>6. ReadFits(w)'
  <2>1. CASE pc'[w] # "place" BY <2>1 DEF ReadFits
  <2>2. CASE pc'[w] = "place"
    BY <2>2, StepReads, <1>0, <1>1, ReadEffect, <1>2 DEF AdoptRead, dbVars, SameOp, F, JobFits,
      Adopts, Early, NamesInv, ReadFits, StillRenaming, NameKept, Owed, Alive, ConflictName
  <2> QED BY <2>1, <2>2
<1> QED BY <1>3, <1>4, <1>5, <1>6, TreeParts

LEMMA TreeNext == Inv /\ NamesInv /\ TreeInv /\ OneAttempt /\ [Next]_vars => TreeInv'
<1> SUFFICES ASSUME Inv, NamesInv, TreeInv, OneAttempt, [Next]_vars PROVE TreeInv' OBVIOUS
<1>0. TypeOK BY DEF Inv
<1>1. CASE UserNext BY <1>1, TreeUserNext
<1>2. CASE SweepNext
  <2>1. PICK f \in Files : Grow(f) \/ SweepJudge(f) \/ SweepAct(f) BY <1>2 DEF SweepNext
  <2>2. /\ want' = want /\ torn' = torn /\ call' = call /\ target' = target /\ place' = place
        /\ UNCHANGED drainVars /\ TreeSame(f)
    BY <2>1 DEF Grow, SweepJudge, SweepAct, callVars, toldVars, treeVars, TreeSame
  <2>3. CASE ren' = ren BY <2>2, <2>3, TreeUser DEF Alive
  <2>4. CASE verdict[f] = "drop" /\ DropOps(f)
    <3>1. OneRen(f, ren'[f]) BY <1>0, <2>4, DropEffect DEF OneRen
    <3>2. ~Alive(f)' BY <2>2, <2>4 DEF Inv, FileFits, CallFits, Alive
    <3> QED BY <2>2, <3>1, <3>2, TreeUser DEF OneRen
  <2> QED BY <2>1, <2>3, <2>4 DEF Grow, SweepJudge, SweepAct, dbVars
<1>3. CASE \E w \in Workers : Step(w) BY <1>3, TreeStep
<1>4. ASSUME NEW w \in Workers, NEW f \in Files, ClaimRow(w, f) \/ ClaimRename(w, f)
      PROVE  TreeInv'
  <2>1. /\ want' = want /\ torn' = torn /\ call' = call /\ target' = target /\ place' = place
    BY <1>4 DEF ClaimRow, ClaimRename, callVars, treeVars, toldVars
  <2>2. /\ OneJob(w, job'[w]) /\ OnePc(w, pc'[w])
        /\ pc'[w] \in {"twin", "ask", "revise", "find", "trash", "send"}
    BY <1>0, <1>4, ClaimRowEffect, ClaimRowWay, ClaimRenameEffect
  <2>3. \A g \in Files : ren'[g] = <<>> <=> ren[g] = <<>>
    <3>1. CASE ClaimRow(w, f) BY <3>1 DEF ClaimRow
    <3>2. CASE ClaimRename(w, f)
      <4>1. OneRen(f, ren'[f]) /\ ren'[f] # <<>> /\ ren[f] # <<>> BY <3>2, ClaimRenameEffect
      <4> QED BY <4>1 DEF OneRen
    <3> QED BY <1>4, <3>1, <3>2
  <2>4. \A g \in Files : TreeSame(g) BY <2>1 DEF TreeSame
  <2>5. ReadFits(w)' BY <2>2 DEF ReadFits
  <2>6. ASSUME NEW v \in Workers, v # w PROVE ReadSame(v)
    <3>1. pc[v] = "place" => F(v) \in Files BY AtWork
    <3> QED BY <2>1, <2>2, <2>3, <2>6, <3>1 DEF OneJob, OnePc, ReadSame, Alive, F
  <2> QED BY <2>4, <2>5, <2>6, TreeParts
<1>5. CASE (\E n \in Names : ForeignCreate(n)) \/ UNCHANGED vars
  BY <1>5, TreeParts DEF ForeignCreate, vars, dbVars, treeVars, callVars, drainVars, toldVars,
    TreeSame, ReadSame, Alive, F
<1>6. CASE Crash
  <2>1. \A w \in Workers : pc'[w] = "idle" BY <1>0, <1>6, CrashEffect
  <2>2. ASSUME NEW g \in Files PROVE TreeFits(g)'
    BY <1>6 DEF Crash, TreeFits, TreeInv, Owed, ConflictName
  <2> QED BY <2>1, <2>2, TreeParts DEF ReadFits
<1> QED BY <1>1, <1>2, <1>3, <1>4, <1>5, <1>6 DEF Next

LEMMA TreeNames == Inv /\ NamesInv /\ TreeInv => TreeFollows
<1> SUFFICES ASSUME Inv, NamesInv, TreeInv, NEW f \in Files, call[f] = "idle", Settled(f),
                    f \notin torn
             PROVE  \/ node[uid[f]].name = place[f]
                    \/ ConflictName(f) \in {node[uid[f]].name, place[f]}
  BY DEF TreeFollows
<1>1. node[uid[f]].name \in Owed(f) BY DEF NamesInv, NameKept, Settled, Alive, Owed
<1>2. place[f] \in Owed(f) BY DEF TreeInv, TreeFits
<1> QED BY <1>1, <1>2 DEF Owed

(* The tree shows a file under the name it has on Drive once its ops are   *)
(* done, or one of the two has the conflict name: as long as every file    *)
(* keeps a node of its own and no two ops of it are tried at a time        *)
(* (adopt_real_uid, rename_in_place, adopt_drained_name).                  *)
THEOREM TreeStays == Spec /\ []Apart /\ []OneAttempt => []TreeFollows
<1>1. Init => NamesInv /\ TreeInv
  <2>1. Init => NamesInv BY InitInv DEF KeptInv
  <2>2. Init => TreeInv BY DEF Init, TreeInv, TreeFits, ReadFits
  <2> QED BY <2>1, <2>2
<1>2. Inv /\ NamesInv /\ Apart /\ [Next]_vars => NamesInv' BY NamesNext
<1>3. Inv /\ NamesInv /\ TreeInv /\ OneAttempt /\ [Next]_vars => TreeInv' BY TreeNext
<1> QED BY <1>1, <1>2, <1>3, TreeNames, Invariant, PTL DEF Spec

(* ------------ One file made here ------------ *)
(* Nothing is trashed by a step, and no deleted file comes back.           *)

LEMMA TrashedFrame ==
  ASSUME TrashedGone, NoneTrashed
  PROVE  TrashedGone'
BY DEF TrashedGone, NoneTrashed

(* A node that is made, renamed or revised is not trashed by that. *)
LEMMA TrashedDrive ==
  ASSUME TypeOK
  PROVE  LET kept == \A r \in 1 .. nnode' : node'[r].trashed => r \in 1 .. nnode /\ node[r].trashed
         IN  /\ UNCHANGED driveVars => kept
             /\ \A n, b, who : NewNode(n, b, who) => kept
             /\ \A r, n : RenamedNode(r, n) => kept
             /\ \A r, b : ChangedNode(r, b, node[r].trashed) => kept
<1> DEFINE kept == \A r \in 1 .. nnode' : node'[r].trashed => r \in 1 .. nnode /\ node[r].trashed
<1>1. UNCHANGED driveVars => kept BY DEF driveVars
<1>2. ASSUME NEW n, NEW b, NEW who, NewNode(n, b, who) PROVE kept
  <2>1. nnode \in Nat BY Constants DEF TypeOK, Uid
  <2> QED BY <1>2, <2>1 DEF NewNode
<1>3. ASSUME NEW r, NEW n, RenamedNode(r, n) PROVE kept BY <1>3 DEF RenamedNode
<1>4. ASSUME NEW r, NEW b, ChangedNode(r, b, node[r].trashed) PROVE kept BY <1>4 DEF ChangedNode
<1> QED BY <1>1, <1>2, <1>3, <1>4

LEMMA TrashedStep ==
  ASSUME Inv, TrashedGone, NEW w \in Workers, Step(w)
  PROVE  TrashedGone'
<1>0. /\ pc[w] # "idle" /\ TypeOK /\ call' = call /\ F(w) \in Files
      /\ call[F(w)] \in {"none", "minting", "idle", "renaming", "dropping", "gone"}
  BY StepFrame, AtWork DEF TypeOK, callVars
<1>1. CASE UNCHANGED driveVars BY <1>0, <1>1, TrashedDrive, TrashedFrame DEF NoneTrashed
<1>2. CASE Send(w)
  <2>1. pc[w] = "send" /\ (UNCHANGED driveVars \/ Applied(w)) /\ job[w].kind \in {"create", "rename"}
    BY <1>0, <1>2, SendEffect, KindAt
  <2>2. CASE Applied(w)
    <3>1. \/ NewNode(SendName(w), job[w].blob, F(w))
          \/ RenamedNode(job[w].node, SendName(w))
      BY <2>1, <2>2, AppliedEffect
    <3> QED BY <1>0, <3>1, TrashedDrive, TrashedFrame DEF NoneTrashed
  <2> QED BY <1>1, <2>1, <2>2
<1>3. CASE Revise(w)
  <2>1. \/ ChangedNode(uid[F(w)], job[w].blob, node[uid[F(w)]].trashed)
        \/ UNCHANGED <<node, nnode>>
    BY <1>3, ReviseEffect
  <2> QED BY <1>0, <2>1, TrashedDrive, TrashedFrame DEF NoneTrashed, driveVars
<1>4. CASE TrashSend(w)
  <2>1. /\ pc[w] = "trash"
        /\ \/ ChangedNode(job[w].node, node[job[w].node].body, TRUE)
           \/ UNCHANGED driveVars
    BY <1>4, TrashSendEffect
  <2>2. call'[F(w)] \in {"dropping", "gone"} BY <1>0, <2>1, AtWork DEF JobFits, Alive
  <2> QED BY <1>0, <1>1, <2>1, <2>2 DEF TrashedGone
<1>5. CASE ~(Send(w) \/ Revise(w) \/ TrashSend(w))
  <2>1. UNCHANGED driveVars
    BY <1>5 DEF Step, CreateLook, CreateNote, RenameGone, CreateClash, CheckHeld, Fail,
      CreateRetire, Repoint, AdoptAsk, AdoptRead, AdoptPlace, CreateEnd, RenameRetire, TrashFind,
      TrashRetire
  <2> QED BY <1>1, <2>1, Zenon
<1> QED BY <1>2, <1>3, <1>4, <1>5

LEMMA TrashedNext == Inv /\ TrashedGone /\ [Next]_vars => TrashedGone'
<1> SUFFICES ASSUME Inv, TrashedGone, [Next]_vars PROVE TrashedGone' OBVIOUS
<1>0. TypeOK BY DEF Inv
<1>1. CASE UserNext
  <2>1. PICK f \in Files : UserStep(f) BY <1>1 DEF UserNext, UserStep
  <2>2. ASSUME NEW n \in Names, Mint(f, n) \/ MintUnanswered(f, n) PROVE TrashedGone'
    <3>1. call[f] = "none" /\ call' = [call EXCEPT ![f] = "minting"]
      BY <2>2 DEF Mint, MintUnanswered, QueueLocalNode
    <3>2. UNCHANGED driveVars \/ NewNode(n, Empty, f) BY <1>0, <2>2, MintDrive
    <3> QED BY <1>0, <3>1, <3>2, TrashedDrive, TrashedFrame DEF NoneTrashed, TypeOK
  <2>3. CASE ~\E n \in Names : Mint(f, n) \/ MintUnanswered(f, n)
    <3>1. UNCHANGED driveVars
      BY <2>1, <2>3 DEF UserStep, RenameStart, Intern, Open, Close, Release, RenameEnd,
        DeleteLocal, DeleteLanded, DeleteReal, Walk
    <3>2. \/ call' = call
          \/ \E c \in {"idle", "renaming", "gone", "dropping"} :
               /\ call' = [call EXCEPT ![f] = c]
               /\ c \in {"idle", "renaming"} => call[f] \notin {"dropping", "gone"}
      BY <2>1, <2>3 DEF UserStep, RenameStart, Intern, Open, Close, Release, RenameEnd,
        DeleteLocal, DeleteLanded, DeleteReal, Walk, Forgotten, callVars
    <3>3. \A g \in Files : call[g] \in {"dropping", "gone"} => call'[g] \in {"dropping", "gone"}
      BY <1>0, <3>2 DEF TypeOK
    <3> QED BY <1>0, <3>1, <3>3, TrashedDrive, TrashedFrame DEF NoneTrashed
  <2> QED BY <2>2, <2>3
<1>2. CASE \/ SweepNext \/ UNCHANGED vars
           \/ \E w \in Workers, f \in Files : ClaimRow(w, f) \/ ClaimRename(w, f)
  <2>1. UNCHANGED driveVars /\ call' = call
    BY <1>2, Zenon DEF SweepNext, Grow, SweepJudge, SweepAct, ClaimRow, ClaimRename, callVars, vars
  <2> QED BY <1>0, <2>1, TrashedDrive, TrashedFrame, Zenon DEF NoneTrashed
<1>3. CASE \E w \in Workers : Step(w) BY <1>3, TrashedStep
<1>4. CASE \E n \in Names : ForeignCreate(n)
  <2>1. PICK n \in Names : ForeignCreate(n) BY <1>4
  <2>2. call' = call /\ nnode' = nnode + 1 /\ node' = Made(n, Theirs, Other) /\ nnode < MaxNode
    BY <2>1 DEF ForeignCreate, callVars
  <2>3. n \in Name /\ Theirs \in 0 .. MaxBlob + 1 BY NameFacts, Constants
  <2>4. NewNode(n, Theirs, Other) BY <1>0, <2>2, <2>3, MadeType DEF NewNode
  <2> QED BY <1>0, <2>2, <2>4, TrashedDrive, TrashedFrame DEF NoneTrashed
<1>5. CASE Crash
  BY <1>5, <1>0, TrashedDrive, TrashedFrame DEF Crash, NoneTrashed
<1> QED BY <1>1, <1>2, <1>3, <1>4, <1>5 DEF Next

(* A file that is the only one made here has its node to itself and keeps  *)
(* it, however calls fail, answers are lost and the machine crashes        *)
(* (adoptable, withdrawn_twin, retire_create).                             *)
THEOREM AloneApart ==
  ASSUME Solo
  PROVE  Spec => []Apart
<1>1. Init => TrashedGone BY DEF Init, TrashedGone
<1>2. Inv /\ TrashedGone /\ [Next]_vars => TrashedGone' BY TrashedNext
<1>3. Inv /\ TrashedGone => Apart
  <2> SUFFICES ASSUME Inv, TrashedGone PROVE Apart OBVIOUS
  <2>1. \A f, g \in Files : f = g BY DEF Solo
  <2>2. \A w \in Workers, g \in Files : pc[w] # "idle" => g = F(w) BY <2>1, AtWork
  <2>3. ASSUME NEW f \in Files, Alive(f), uid[f] # Local PROVE ~node[uid[f]].trashed
    <3>1. uid[f] \in 1 .. nnode BY <2>3, Constants DEF Inv, TypeOK, FileFits, Uid
    <3> QED BY <2>1, <2>3, <3>1 DEF TrashedGone, Alive
  <2> QED BY <2>1, <2>2, <2>3 DEF Apart
<1> QED BY <1>1, <1>2, <1>3, Invariant, PTL DEF Spec

(* Of such a file no write is lost, and no rename                          *)
(* (attach_blob_to_create, rewrite_op_target, finish_create).              *)
THEOREM AloneKept ==
  ASSUME Solo
  PROVE  Spec => [](WritesHeld /\ NamesHeld)
BY WritesStay, RenamesStay, AloneApart, PTL

(* With one worker the tree shows every file under the name it has on      *)
(* Drive, if no other file was made here or nothing was lost               *)
(* (adopt_real_uid, rename_in_place, adopt_drained_name).                  *)
THEOREM TreeRight ==
  ASSUME \A w, v \in Workers : w = v, Solo \/ Quiet
  PROVE  Spec => []TreeFollows
<1>1. Spec => []Apart
  <2>1. CASE Solo BY <2>1, AloneApart
  <2>2. CASE Quiet
    <3>1. Spec => [](Uncrossed => Apart) BY <2>2, KeptApart
    <3>2. Spec => []Uncrossed BY NoneCrosses
    <3> QED BY <3>1, <3>2, PTL
  <2> QED BY <2>1, <2>2
<1>2. OneAttempt BY DEF OneAttempt
<1>3. Spec => []OneAttempt BY <1>2, PTL
<1> QED BY <1>1, <1>3, TreeStays, PTL

(* ------------ What is on Drive of a file ------------ *)
(* What is made of a node stays, and one that is trashed stays so.         *)

LEMMA Marks ==
  ASSUME Inv
  PROVE  /\ UNCHANGED driveVars => MarksKept
         /\ \A n, b, who : NewNode(n, b, who) => MarksKept
         /\ \A r, n : RenamedNode(r, n) => MarksKept
         /\ \A r, b : ChangedNode(r, b, node[r].trashed) => MarksKept
         /\ \A r, b : ChangedNode(r, b, TRUE) => MarksKept
<1>1. nnode \in Nat BY Constants DEF Inv, TypeOK, Uid
<1>2. nnode' = nnode \/ nnode' = nnode + 1 => More BY <1>1 DEF More
<1> QED BY <1>2 DEF MarksKept, driveVars, NewNode, RenamedNode, ChangedNode

(* The nodes of a file: none but the one a step makes is added. *)
LEMMA MadeFewer ==
  ASSUME MarksKept, NEW g, \A r \in nnode + 1 .. nnode' : node'[r].by # g
  PROVE  MadeFor(g)' \subseteq MadeFor(g)
<1> SUFFICES ASSUME NEW r \in MadeFor(g)' PROVE r \in MadeFor(g) OBVIOUS
<1>1. r \in 1 .. nnode' /\ node'[r].by = g /\ ~node'[r].trashed BY DEF MadeFor, Live
<1>2. r \in 1 .. nnode \/ r \in nnode + 1 .. nnode' BY <1>1 DEF MarksKept, More
<1>3. r \in 1 .. nnode BY <1>1, <1>2
<1> QED BY <1>1, <1>3 DEF MadeFor, Live, MarksKept

LEMMA MadeByStep ==
  ASSUME Inv
  PROVE  /\ MarksKept /\ nnode' = nnode => \A g : MadeFor(g)' \subseteq MadeFor(g)
         /\ UNCHANGED driveVars => \A g : MadeFor(g)' = MadeFor(g)
         /\ \A n, b, who : NewNode(n, b, who) =>
              /\ \A g : g # who => MadeFor(g)' \subseteq MadeFor(g)
              /\ MadeFor(who)' \subseteq MadeFor(who) \cup {nnode + 1}
<1>1. nnode \in Nat BY Constants DEF Inv, TypeOK, Uid
<1>2. ASSUME MarksKept, nnode' = nnode, NEW g PROVE MadeFor(g)' \subseteq MadeFor(g)
  <2>1. \A r \in nnode + 1 .. nnode' : FALSE BY <1>1, <1>2
  <2> QED BY <1>2, <2>1, MadeFewer
<1>3. UNCHANGED driveVars => \A g : MadeFor(g)' = MadeFor(g) BY DEF driveVars, MadeFor, Live
<1>4. ASSUME NEW n, NEW b, NEW who, NewNode(n, b, who)
      PROVE  /\ \A g : g # who => MadeFor(g)' \subseteq MadeFor(g)
             /\ MadeFor(who)' \subseteq MadeFor(who) \cup {nnode + 1}
  <2>1. MarksKept BY <1>4, Marks
  <2>2. \A r \in nnode + 1 .. nnode' : r = nnode + 1 /\ node'[r].by = who BY <1>1, <1>4 DEF NewNode
  <2>3. \A g : g # who => MadeFor(g)' \subseteq MadeFor(g) BY <2>1, <2>2, MadeFewer
  <2>4. ASSUME NEW r \in MadeFor(who)' PROVE r \in MadeFor(who) \cup {nnode + 1}
    BY <2>4, <2>1, <2>2 DEF MadeFor, Live, MarksKept, More
  <2> QED BY <2>3, <2>4
<1> QED BY <1>2, <1>3, <1>4

(* Who has a file to itself. *)
LEMMA HeldJob ==
  ASSUME Inv, NEW w \in Workers, Holds(w)
  PROVE  /\ pc[w] # "idle" /\ F(w) \in Files /\ row[F(w)] \in Row /\ job[w] \in Job
         /\ JobFits(w) /\ CreateFits(w) /\ FileFits(F(w)) /\ TypeOK
         /\ job[w].kind \in {"create", "trash"}
         /\ pc[w] \in Early => job[w].kind = "create" /\ uid[F(w)] = Local
<1>1. pc[w] # "idle" BY DEF Holds, Early
<1> QED BY <1>1, AtWork, KindAt DEF Holds, JobFits, Way, Early, CreateFits

LEMMA LeftFileFrame ==
  ASSUME Inv, NEW g \in Files, LeftFile(g), LeftSame(g), LeftFound(g), MarksKept,
         ncrash' = ncrash, MadeFor(g)' \subseteq MadeFor(g)
  PROVE  LeftFile(g)'
<1>1. Alone' <=> Alone BY DEF Alone, Solo
<1>2. uid[g] # Local => uid[g] \in 1 .. nnode BY Constants DEF Inv, TypeOK, Uid, FileFits
<1>3. uid'[g] # Local =>
        /\ \A r \in MadeFor(g)' : r = uid'[g]
        /\ call'[g] = "dropping" => row'[g].kind = "none"
        /\ call'[g] = "gone" => row'[g].kind = "trash" \/ node'[uid'[g]].trashed
  BY <1>2 DEF LeftFile, LeftSame, MarksKept, Alive
<1>4. uid'[g] = Local => \A r \in MadeFor(g)' :
        \/ row'[g].kind = "trash" /\ row'[g].at = r
        \/ IF Alone THEN Findable(g, r)' ELSE Held(g, r)'
  BY DEF LeftFile, LeftSame, LeftFound
<1>5. row'[g].first <= ncrash' BY DEF LeftFile, LeftSame
<1>6. row'[g].kind = "create" => Alive(g)' BY DEF LeftFile, LeftSame, Alive
<1>7. g \in deleted' => call'[g] \in {"dropping", "gone"} BY DEF LeftFile, LeftSame, Alive
<1>8. call'[g] = "none" => MadeFor(g)' = {} BY DEF LeftSame, Alive, LeftFile
<1> QED BY <1>1, <1>3, <1>4, <1>5, <1>6, <1>7, <1>8 DEF LeftFile, LeftSame

(* What finds a node still does. *)
LEMMA FindableFrame ==
  ASSUME NEW g \in Files, NEW r \in 1 .. nnode, LeftSame(g), Findable(g, r),
         node'[r].name = node[r].name, node'[r].body = node[r].body,
         node'[r].epoch = node[r].epoch,
         r \in hidden' => r \in hidden,
         \A v \in Workers : pc[v] = "trash" /\ job[v].node = r => pc'[v] = "trash" /\ job'[v].node = r
  PROVE  Findable(g, r)'
<1>1. node'[r].name \in row'[g].to /\ node'[r].body \in {Empty} \cup row'[g].sha
  BY DEF Findable, LeftSame
<1>2. node'[r].epoch >= row'[g].first BY DEF Findable, LeftSame
<1> QED BY <1>1, <1>2 DEF Findable, LeftSame

LEMMA LeftJobFrame ==
  ASSUME Inv, NEW v \in Workers, LeftJob(v), JobSame(v)
  PROVE  LeftJob(v)'
<1>1. F(v)' = F(v) /\ (Alone' <=> Alone) /\ (Holds(v)' <=> Holds(v))
  BY DEF JobSame, F, Alone, Solo, Holds
<1> SUFFICES ASSUME Holds(v) PROVE LeftJob(v)' BY <1>1 DEF LeftJob
<1>2. SendName(v)' = SendName(v) BY <1>1 DEF SendName, JobSame, ConflictName
<1> DEFINE f == F(v)
           made == MadeFor(f)
<1>3. MadeFor(F(v))' = MadeFor(f)' BY <1>1 DEF MadeFor
<1>4. /\ row'[f].owner = v /\ row'[f].at = row[f].at
      /\ \/ row'[f].kind = "trash"
         \/ row'[f].kind = "create" /\ job[v].kind = "create" /\ pc[v] \in Early \cup {"fail"}
  BY DEF LeftJob, JobSame, RowHeld
<1>5. /\ (pc[v] \in {"note", "send"} /\ job[v].stage = "first") \/ pc[v] = "clash" =>
           \A r \in MadeFor(f)' : Alone /\ node'[r].name = job[v].name
      /\ (pc[v] \in {"note", "send"} /\ job[v].stage # "first") \/ pc[v] \in {"held", "trashed"} =>
           MadeFor(f)' = {}
      /\ pc[v] \in {"retire", "trash"} => \A r \in MadeFor(f)' : r = job[v].node
  <2>1. MadeFor(f)' \subseteq made BY DEF JobSame, RowHeld
  <2>2. /\ (pc[v] \in {"note", "send"} /\ job[v].stage # "first") \/ pc[v] \in {"held", "trashed"} =>
             MadeFor(f)' = {}
        /\ pc[v] \in {"retire", "trash"} => \A r \in MadeFor(f)' : r = job[v].node
    BY <2>1 DEF LeftJob
  <2>3. ASSUME (pc[v] \in {"note", "send"} /\ job[v].stage = "first") \/ pc[v] = "clash",
               NEW r \in MadeFor(f)'
        PROVE  Alone /\ node'[r].name = job[v].name
    BY <2>1, <2>3, HeldJob DEF LeftJob, Early, JobSame, RowHeld
  <2> QED BY <2>2, <2>3
<1>6. pc[v] = "send" => SendName(v) \in row'[f].to /\ job[v].blob \in {Empty} \cup row'[f].sha
  BY DEF LeftJob, JobSame, RowHeld
<1> QED BY <1>1, <1>2, <1>3, <1>4, <1>5, <1>6 DEF LeftJob, JobSame

LEMMA MarksStep ==
  ASSUME Inv, NEW w \in Workers, Step(w)
  PROVE  MarksKept
<1>0. pc[w] # "idle" BY StepFrame
<1>1. CASE UNCHANGED driveVars BY <1>1, Marks
<1>2. CASE Send(w)
  <2>1. pc[w] = "send" /\ (UNCHANGED driveVars \/ Applied(w)) /\ job[w].kind \in {"create", "rename"}
    BY <1>0, <1>2, SendEffect, KindAt
  <2>2. CASE Applied(w)
    <3>1. \/ NewNode(SendName(w), job[w].blob, F(w))
          \/ RenamedNode(job[w].node, SendName(w))
      BY <2>1, <2>2, AppliedEffect
    <3> QED BY <3>1, Marks
  <2> QED BY <1>1, <2>1, <2>2
<1>3. CASE Revise(w)
  <2>1. \/ ChangedNode(uid[F(w)], job[w].blob, node[uid[F(w)]].trashed)
        \/ UNCHANGED <<node, nnode>>
    BY <1>3, ReviseEffect
  <2> QED BY <2>1, Marks DEF driveVars
<1>4. CASE TrashSend(w)
  <2>1. \/ ChangedNode(job[w].node, node[job[w].node].body, TRUE)
        \/ UNCHANGED driveVars
    BY <1>4, TrashSendEffect
  <2> QED BY <2>1, Marks
<1>5. CASE ~(Send(w) \/ Revise(w) \/ TrashSend(w))
  <2>1. UNCHANGED driveVars
    BY <1>5 DEF Step, CreateLook, CreateNote, RenameGone, CreateClash, CheckHeld, Fail,
      CreateRetire, Repoint, AdoptAsk, AdoptRead, AdoptPlace, CreateEnd, RenameRetire, TrashFind,
      TrashRetire
  <2> QED BY <1>1, <2>1
<1> QED BY <1>2, <1>3, <1>4, <1>5

LEMMA ForeignNode ==
  ASSUME TypeOK, NEW n \in Names, ForeignCreate(n)
  PROVE  NewNode(n, Theirs, Other) /\ node'[nnode + 1].inline = FALSE
<1>1. n \in Name /\ Theirs \in 0 .. MaxBlob + 1 /\ Other \in Files \cup {Other}
  BY NameFacts, Constants
<1>2. nnode' = nnode + 1 /\ node' = Made(n, Theirs, Other) /\ nnode < MaxNode BY DEF ForeignCreate
<1>3. NewNode(n, Theirs, Other) BY <1>1, <1>2, MadeType DEF NewNode
<1>4. node'[nnode + 1].inline = FALSE
  <2>1. node'[nnode + 1] = [name |-> n, body |-> Theirs, by |-> Other, trashed |-> FALSE,
                            epoch |-> ncrash, inline |-> FALSE]
    BY <1>1, <1>2, MadeSeq
  <2> QED BY <2>1
<1> QED BY <1>3, <1>4

LEMMA MarksNext == Inv /\ [Next]_vars => MarksKept
<1> SUFFICES ASSUME Inv, [Next]_vars PROVE MarksKept OBVIOUS
<1>0. TypeOK BY DEF Inv
<1>1. CASE UserNext
  <2>1. PICK f \in Files : UserStep(f) BY <1>1 DEF UserNext, UserStep
  <2>2. ASSUME NEW n \in Names, Mint(f, n) \/ MintUnanswered(f, n) PROVE MarksKept
    <3>1. UNCHANGED driveVars \/ NewNode(n, Empty, f) BY <1>0, <2>2, MintDrive
    <3> QED BY <3>1, Marks
  <2>3. CASE ~\E n \in Names : Mint(f, n) \/ MintUnanswered(f, n)
    <3>1. UNCHANGED driveVars
      BY <2>1, <2>3 DEF UserStep, RenameStart, Intern, Open, Close, Release, RenameEnd,
        DeleteLocal, DeleteLanded, DeleteReal, Walk
    <3> QED BY <3>1, Marks
  <2> QED BY <2>2, <2>3
<1>2. CASE \/ SweepNext \/ UNCHANGED vars \/ Crash
           \/ \E w \in Workers, f \in Files : ClaimRow(w, f) \/ ClaimRename(w, f)
  <2>1. UNCHANGED driveVars
    BY <1>2, Zenon DEF SweepNext, Grow, SweepJudge, SweepAct, ClaimRow, ClaimRename, Crash, vars
  <2> QED BY <2>1, Marks, Zenon
<1>3. CASE \E w \in Workers : Step(w) BY <1>3, MarksStep
<1>4. CASE \E n \in Names : ForeignCreate(n) BY <1>0, <1>4, ForeignNode, Marks
<1> QED BY <1>1, <1>2, <1>3, <1>4 DEF Next

(* What nobody can tell stays so. *)
LEMMA WholeNext == Inv /\ [Next]_vars /\ Whole' => Whole
<1> SUFFICES ASSUME Inv, [Next]_vars, Whole' PROVE Whole OBVIOUS
<1>1. torn \subseteq torn'
  <2>1. torn' = torn \/ torn' = torn \cup {f \in Files : call[f] \in {"minting", "renaming", "dropping"}}
    <3>1. CASE \E w \in Workers : Step(w) BY <3>1, StepFrame DEF toldVars
    <3>2. CASE UserNext
      <4>1. PICK f \in Files : UserStep(f) BY <3>2 DEF UserNext, UserStep
      <4>2. CASE \E n \in Names : Mint(f, n) \/ MintUnanswered(f, n) \/ RenameStart(f, n)
        BY <4>2 DEF Mint, MintUnanswered, QueueLocalNode, RenameStart
      <4>3. CASE Intern(f) \/ Open(f) \/ Close(f) \/ Release(f) \/ RenameEnd(f)
        BY <4>3 DEF Intern, Open, Close, Release, RenameEnd, toldVars
      <4>4. CASE DeleteLocal(f) \/ DeleteLanded(f) \/ DeleteReal(f) \/ Walk(f)
        BY <4>4, Zenon DEF DeleteLocal, DeleteLanded, DeleteReal, Walk, toldVars
      <4> QED BY <4>1, <4>2, <4>3, <4>4 DEF UserStep
    <3>3. CASE \/ SweepNext \/ UNCHANGED vars \/ Crash \/ \E n \in Names : ForeignCreate(n)
               \/ \E w \in Workers, f \in Files : ClaimRow(w, f) \/ ClaimRename(w, f)
      BY <3>3, Zenon DEF SweepNext, Grow, SweepJudge, SweepAct, ClaimRow, ClaimRename,
        ForeignCreate, Crash, toldVars, vars
    <3> QED BY <3>1, <3>2, <3>3 DEF Next
  <2> QED BY <2>1
<1>2. SentInline \subseteq SentInline'
  <2> SUFFICES ASSUME NEW r \in 1 .. nnode, node[r].inline PROVE node[r].by \in SentInline'
    BY DEF SentInline
  <2>1. MarksKept BY MarksNext
  <2>2. r \in 1 .. nnode' /\ node'[r].inline /\ node'[r].by = node[r].by
    BY <2>1 DEF MarksKept, More
  <2> QED BY <2>2 DEF SentInline
<1> QED BY <1>1, <1>2 DEF Whole

(* A create goes inline, and loses its answer, where it may. *)
LEMMA InlineNext ==
  ASSUME Inv, SentInline # {} => "inline" \in Faults, [Next]_vars, SentInline' # {}
  PROVE  "inline" \in Faults
<1>0. TypeOK /\ MarksKept /\ nnode \in Nat BY MarksNext, Constants DEF Inv, TypeOK, Uid
<1> SUFFICES ASSUME SentInline = {} PROVE "inline" \in Faults OBVIOUS
<1>1. PICK r \in 1 .. nnode' : node'[r].inline BY DEF SentInline
<1>2. r \notin 1 .. nnode BY <1>0, <1>1 DEF MarksKept, SentInline
<1>3. nnode' # nnode BY <1>1, <1>2
<1>4. ~UNCHANGED driveVars BY <1>3 DEF driveVars
<1>5. CASE \E w \in Workers : Step(w)
  <2>1. PICK w \in Workers : Step(w) BY <1>5
  <2>2. /\ Send(w) /\ job[w].kind = "create" /\ Applied(w)
        /\ NewNode(SendName(w), job[w].blob, F(w))
    BY <1>3, <2>1, StepDrive
  <2>3. r = nnode + 1 BY <1>0, <1>1, <1>2, <2>2 DEF NewNode
  <2>4. /\ nnode < MaxNode /\ node' = Made(SendName(w), job[w].blob, F(w)) /\ pc[w] = "send"
    BY <2>2 DEF Applied, Send
  <2>5. job[w].blob \in 0 .. MaxBlob + 1 /\ F(w) \in Files /\ SendName(w) \in Name
    BY <2>2, <2>4, AtWork, AppliedEffect, JobFields, Numbers, Constants
  <2>6. node'[nnode + 1].inline = FALSE
    <3>1. F(w) \in Files \cup {Other} BY <2>5
    <3>2. node'[nnode + 1] = [name |-> SendName(w), body |-> job[w].blob, by |-> F(w),
                              trashed |-> FALSE, epoch |-> ncrash, inline |-> FALSE]
      BY <1>0, <2>4, <2>5, <3>1, MadeSeq
    <3> QED BY <3>2
  <2> QED BY <1>1, <2>3, <2>6
<1>6. CASE \E n \in Names : ForeignCreate(n)
  <2>1. PICK n \in Names : ForeignCreate(n) BY <1>6
  <2>2. node'[nnode + 1].inline = FALSE /\ nnode' = nnode + 1
    BY <1>0, <2>1, ForeignNode DEF NewNode
  <2> QED BY <1>0, <1>1, <1>2, <2>2
<1>7. CASE \E f \in Files, n \in Names : MintUnanswered(f, n) BY <1>7 DEF MintUnanswered, Fault
<1>8. CASE ~((\E w \in Workers : Step(w)) \/ (\E n \in Names : ForeignCreate(n))
             \/ (\E f \in Files, n \in Names : MintUnanswered(f, n)))
  <2>1. UNCHANGED driveVars
    BY <1>8, ZenonT(30) DEF Next, UserNext, SweepNext, Mint, RenameStart, Intern, Open, Close,
      Release, RenameEnd, DeleteLocal, DeleteLanded, DeleteReal, Walk, Grow, SweepJudge, SweepAct,
      ClaimRow, ClaimRename, Crash, vars
  <2> QED BY <1>4, <2>1
<1> QED BY <1>5, <1>6, <1>7, <1>8

(* Only nodes that are on Drive are known to be trashed. *)
LEMMA HiddenNext ==
  ASSUME Inv, hidden \subseteq 0 .. nnode, [Next]_vars
  PROVE  hidden' \subseteq 0 .. nnode'
<1>0. TypeOK /\ (\A r \in 0 .. nnode : r \in 0 .. nnode')
  BY MarksNext, MoreNodes DEF Inv, MarksKept
<1>1. \A f \in Files : uid[f] \in 0 .. nnode /\ row[f].at \in 0 .. nnode
  BY DEF Inv, FileFits, RowFits
<1>2. CASE hidden' \subseteq hidden BY <1>0, <1>2
<1>3. CASE \E w \in Workers : Step(w)
  <2>1. PICK w \in Workers : Step(w) BY <1>3
  <2>2. CASE CreateRetire(w)
    BY <2>2, AtWork, <1>0 DEF CreateRetire, JobFits
  <2>3. CASE TrashFind(w)
    <3>1. hidden' = hidden \/ \E r \in 1 .. nnode : hidden' = hidden \cup {r} BY <2>3, FindEffect
    <3>2. \A r \in 1 .. nnode : r \in 0 .. nnode OBVIOUS
    <3> QED BY <1>0, <3>1, <3>2
  <2>4. CASE ~(CreateRetire(w) \/ TrashFind(w))
    <3>1. hidden' = hidden
      BY <2>1, <2>4, Zenon DEF Step, CreateLook, CreateNote, RenameGone, Send, CreateClash,
        CheckHeld, Fail, Repoint, AdoptAsk, AdoptRead, AdoptPlace, CreateEnd, Revise, RenameRetire,
        TrashSend, TrashRetire, treeVars
    <3> QED BY <1>2, <3>1
  <2> QED BY <2>2, <2>3, <2>4
<1>4. CASE UserNext
  <2>1. PICK f \in Files : UserStep(f) BY <1>4 DEF UserNext, UserStep
  <2>2. hidden' = hidden \/ hidden' = hidden \cup {uid[f]}
    <3>1. CASE DeleteLanded(f) \/ DeleteReal(f)
      BY <3>1, Zenon DEF DeleteLanded, DeleteReal, QueueTrash
    <3>2. CASE ~(DeleteLanded(f) \/ DeleteReal(f))
      BY <2>1, <3>2 DEF UserStep, Mint, MintUnanswered, QueueLocalNode, RenameStart, Intern, Open,
        Close, Release, RenameEnd, DeleteLocal, Walk, treeVars
    <3> QED BY <3>1, <3>2
  <2>3. uid[f] \in 0 .. nnode BY <1>1
  <2> QED BY <1>0, <2>2, <2>3
<1>5. CASE Crash
  <2>1. hidden' = {row[f].at : f \in {g \in Files : row[g].kind = "trash"}} \ {Local}
    BY <1>5 DEF Crash
  <2> QED BY <1>0, <1>1, <2>1
<1>6. CASE \/ SweepNext \/ UNCHANGED vars \/ \E n \in Names : ForeignCreate(n)
           \/ \E w \in Workers, f \in Files : ClaimRow(w, f) \/ ClaimRename(w, f)
  <2>1. hidden' = hidden
    BY <1>6, Zenon DEF SweepNext, Grow, SweepJudge, SweepAct, ClaimRow, ClaimRename, ForeignCreate,
      vars, treeVars
  <2> QED BY <1>2, <2>1, Zenon
<1> QED BY <1>3, <1>4, <1>5, <1>6 DEF Next

(* A file that no step touches, and another one that a step does. *)
LEMMA FoundOthers ==
  ASSUME Inv, NEW f \in Files, NEW g \in Files, g # f,
         \A v \in Workers : pc[v] = "retire" /\ F(v) = g => pc'[v] = pc[v] /\ job'[v] = job[v]
  PROVE  LeftFound(g)
<1>1. ~Alone BY DEF Alone, Solo
<1>2. \A r : Held(g, r) => Held(g, r)' BY DEF Held, F
<1> QED BY <1>1, <1>2 DEF LeftFound

LEMMA FoundSame ==
  ASSUME Inv, NEW g \in Files, LeftSame(g), UNCHANGED <<driveVars, drainVars>>, hidden' \subseteq hidden
  PROVE  LeftFound(g)
<1>1. /\ pc' = pc /\ job' = job /\ node' = node /\ nnode' = nnode BY DEF driveVars, drainVars
<1>2. ASSUME NEW r \in MadeFor(g)', Findable(g, r) PROVE Findable(g, r)'
  <2>1. r \in 1 .. nnode BY <1>1, <1>2 DEF MadeFor, Live
  <2> QED BY <1>1, <1>2, <2>1, FindableFrame
<1>3. \A r : Held(g, r) => Held(g, r)' BY <1>1 DEF Held, F
<1> QED BY <1>2, <1>3 DEF LeftFound

(* A step of the user, or of the sweep, at one file. *)
LEMMA LeftUser ==
  ASSUME Inv, AllLeft, NEW f \in Files, UNCHANGED drainVars, MarksKept, ncrash' = ncrash,
         \A g \in Files : g # f => /\ LeftSame(g) /\ row'[g].owner = row[g].owner
                                   /\ MadeFor(g)' \subseteq MadeFor(g),
         LeftFile(f)',
         \A v \in Workers : Holds(v) /\ F(v) = f => RowHeld(f)
  PROVE  AllLeftNext
<1>1. pc' = pc /\ job' = job BY DEF drainVars
<1>2. ASSUME NEW g \in Files, g # f PROVE LeftFile(g)'
  <2>1. LeftFound(g) BY <1>1, <1>2, FoundOthers
  <2> QED BY <1>2, <2>1, LeftFileFrame DEF AllLeft
<1>3. ASSUME NEW v \in Workers PROVE LeftJob(v)'
  <2>1. ASSUME Holds(v), F(v) # f PROVE RowHeld(F(v))
    <3>1. PICK g \in Files : g = F(v) /\ g # f BY <2>1, HeldJob
    <3>2. ~Alone BY <3>1 DEF Alone, Solo
    <3>3. RowHeld(g) BY <3>1, <3>2 DEF LeftSame, RowHeld
    <3> QED BY <3>1, <3>3
  <2>2. JobSame(v) BY <1>1, <2>1 DEF JobSame
  <2> QED BY <2>2, LeftJobFrame DEF AllLeft
<1> QED BY <1>2, <1>3 DEF AllLeftNext

(* One that leaves the file as it is, or changes what does not matter. *)
LEMMA LeftQuiet ==
  ASSUME Inv, AllLeft, NEW f \in Files, UNCHANGED <<drainVars, driveVars, hidden>>, ncrash' = ncrash,
         \A g \in Files : LeftSame(g) /\ row'[g].owner = row[g].owner
  PROVE  AllLeftNext
<1>1. MarksKept /\ \A g : MadeFor(g)' = MadeFor(g) BY Marks, MadeByStep
<1>2. LeftFile(f)'
  <2>1. LeftFound(f) BY FoundSame
  <2> QED BY <1>1, <2>1, LeftFileFrame DEF AllLeft
<1>3. RowHeld(f) BY <1>1 DEF RowHeld, LeftSame, driveVars
<1> QED BY <1>1, <1>2, <1>3, LeftUser

LEMMA StillSame ==
  ASSUME NEW g \in Files, LeftFile(g), Still(g)
  PROVE  LeftSame(g) /\ row'[g].owner = row[g].owner
BY DEF Still, LeftSame, LeftFile

LEMMA RowSame ==
  ASSUME NEW g \in Files, LeftFile(g),
         row'[g].kind = row[g].kind, row'[g].at = row[g].at,
         row'[g].to = row[g].to, row'[g].sha = row[g].sha, row'[g].first = row[g].first,
         uid'[g] = uid[g], treeUid'[g] \in {treeUid[g], uid[g], Local},
         call'[g] = call[g] \/ (Alive(g) /\ Alive(g)'),
         verdict'[g] \in {verdict[g], "none", "release"}, g \in deleted' => g \in deleted
  PROVE  LeftSame(g)
BY DEF LeftSame, LeftFile

(* Rows with a field changed that tells nothing of what was sent. *)
LEMMA SentFields ==
  ASSUME NEW x \in Row
  PROVE  /\ \A b, t : LET y == [x EXCEPT !.blob = b, !.tries = t] IN
              /\ y.kind = x.kind /\ y.owner = x.owner /\ y.at = x.at
              /\ y.to = x.to /\ y.sha = x.sha /\ y.first = x.first
         /\ \A n : LET y == [x EXCEPT !.name = n] IN
              /\ y.kind = x.kind /\ y.owner = x.owner /\ y.at = x.at
              /\ y.to = x.to /\ y.sha = x.sha /\ y.first = x.first
         /\ \A p : LET y == [x EXCEPT !.parked = p] IN
              /\ y.kind = x.kind /\ y.owner = x.owner /\ y.at = x.at
              /\ y.to = x.to /\ y.sha = x.sha /\ y.first = x.first
         /\ \A o : LET y == [x EXCEPT !.owner = o] IN
              /\ y.kind = x.kind /\ y.owner = o /\ y.at = x.at
              /\ y.to = x.to /\ y.sha = x.sha /\ y.first = x.first
         /\ \A o, t : LET y == [x EXCEPT !.owner = o, !.tries = t] IN
              /\ y.kind = x.kind /\ y.owner = o /\ y.at = x.at
              /\ y.to = x.to /\ y.sha = x.sha /\ y.first = x.first
         /\ \A k, t, p : LET y == [x EXCEPT !.kind = k, !.tries = t, !.parked = p] IN
              /\ y.kind = k /\ y.owner = x.owner /\ y.at = x.at
              /\ y.to = x.to /\ y.sha = x.sha /\ y.first = x.first
         /\ \A r, n : LET y == [x EXCEPT !.at = r, !.name = n] IN
              /\ y.kind = x.kind /\ y.owner = x.owner /\ y.at = r
              /\ y.to = x.to /\ y.sha = x.sha /\ y.first = x.first
BY DEF Row

(* A file nobody has to himself. *)
LEMMA NoneHolds ==
  ASSUME Inv, AllLeft, NEW f \in Files,
         row[f].kind \notin {"create", "trash"} \/ row[f].owner = NoOne
  PROVE  \A v \in Workers : Holds(v) => F(v) # f
BY CreateNames DEF AllLeft, LeftJob

(* A trash of one that is on Drive. *)
LEMMA TrashesNobody ==
  ASSUME Inv, AllLeft, NEW f \in Files, Alive(f), row[f].kind # "create"
  PROVE  (\A v \in Workers : Holds(v) => F(v) # f) /\ uid[f] # Local
<1>1. row[f].kind # "trash" /\ uid[f] # Local BY DEF Inv, FileFits, RowFits, CallFits
<1> QED BY <1>1, NoneHolds

LEMMA LeftMint ==
  ASSUME Inv, AllLeft, Whole', NEW f \in Files, NEW n \in Names, Mint(f, n) \/ MintUnanswered(f, n)
  PROVE  AllLeftNext
<1>0. TypeOK /\ FileFits(f) BY DEF Inv
<1>1. QueueLocalNode(f, n) BY DEF Mint, MintUnanswered
<1>2. /\ call[f] = "none" /\ call' = [call EXCEPT ![f] = "minting"]
      /\ uid' = uid /\ treeUid' = treeUid /\ deleted' = deleted /\ verdict' = verdict
      /\ hidden' = hidden /\ UNCHANGED drainVars
      /\ row' = [row EXCEPT ![f] = [NoRow EXCEPT !.kind = "create", !.name = n,
                                                 !.parked = n \in Transient]]
  BY <1>1 DEF QueueLocalNode, treeVars, sweepVars
<1>3. UNCHANGED driveVars
  <2>1. CASE MintUnanswered(f, n)
    <3>1. /\ n \in Name /\ Empty \in 0 .. MaxBlob + 1 /\ nnode < MaxNode
          /\ f \in Files \cup {Other}
      BY <2>1, NameFacts, Constants DEF MintUnanswered
    <3> DEFINE m == Made(n, Empty, f)
               x == [name |-> n, body |-> Empty, by |-> f, trashed |-> FALSE,
                     epoch |-> ncrash, inline |-> FALSE]
    <3>2. m \in [1 .. nnode + 1 -> Node] /\ m[nnode + 1] = x /\ nnode \in Nat
      BY <1>0, <3>1, MadeSeq
    <3>3. node' = [m EXCEPT ![nnode + 1].inline = TRUE] /\ nnode' = nnode + 1
      BY <2>1 DEF MintUnanswered
    <3> HIDE DEF m
    <3>4. node'[nnode + 1] = [x EXCEPT !.inline = TRUE] BY <3>2, <3>3
    <3>5. nnode + 1 \in 1 .. nnode' /\ node'[nnode + 1].inline /\ node'[nnode + 1].by = f
      BY <3>2, <3>3, <3>4
    <3>6. f \in SentInline' BY <3>5 DEF SentInline
    <3> QED BY <3>6 DEF Whole
  <2> QED BY <2>1 DEF Mint
<1>4. ncrash' = ncrash BY DEF Mint, MintUnanswered, Call, Fault
<1>5. MarksKept /\ \A g : MadeFor(g)' = MadeFor(g) BY <1>3, Marks, MadeByStep
<1>6. \A g \in Files : g # f => Still(g) BY <1>0, <1>2 DEF Still, TypeOK
<1>7. \A g \in Files : g # f => LeftSame(g) /\ row'[g].owner = row[g].owner
  BY <1>6, StillSame DEF AllLeft
<1>8. LeftFile(f)'
  <2>1. /\ row'[f].kind = "create" /\ row'[f].at = Local /\ row'[f].first = 0
    BY <1>0, <1>2 DEF TypeOK, NoRow
  <2>2. call'[f] = "minting" /\ uid'[f] = Local /\ MadeFor(f)' = {}
    BY <1>0, <1>2, <1>5 DEF TypeOK, AllLeft, LeftFile, FileFits, CallFits
  <2>3. f \notin deleted' /\ verdict'[f] # "drop" /\ treeUid'[f] = Local
    BY <1>2, <2>2 DEF AllLeft, LeftFile
  <2>4. 0 <= ncrash' BY <1>0, <1>4, Constants DEF TypeOK
  <2> QED BY <2>1, <2>2, <2>3, <2>4 DEF LeftFile, Alive
<1>9. \A v \in Workers : Holds(v) => F(v) # f BY <1>2, HeldJob DEF JobFits
<1> QED BY <1>2, <1>4, <1>5, <1>7, <1>8, <1>9, LeftUser

LEMMA LeftOpen ==
  ASSUME Inv, AllLeft, NEW f \in Files, Intern(f) \/ Open(f) \/ Close(f) \/ Walk(f)
  PROVE  AllLeftNext
<1>0. TypeOK BY DEF Inv
<1>1. /\ row' = row /\ uid' = uid /\ verdict' = verdict /\ deleted' = deleted /\ hidden' = hidden
      /\ UNCHANGED <<drainVars, driveVars>> /\ ncrash' = ncrash
  BY DEF Intern, Open, Close, Walk, Call, dbVars, toldVars, sweepVars, boundVars
<1>2. \A g \in Files : treeUid'[g] \in {treeUid[g], uid[g]}
  BY <1>0 DEF Intern, Open, Close, Walk, TypeOK
<1>3. \A g \in Files : call'[g] = call[g] \/ (Alive(g) /\ Alive(g)')
  BY <1>0 DEF Intern, Open, Close, Walk, callVars, TypeOK, Alive
<1>4. \A g \in Files : LeftSame(g) BY <1>1, <1>2, <1>3, RowSame DEF AllLeft
<1> QED BY <1>1, <1>4, LeftQuiet

LEMMA LeftRelease ==
  ASSUME Inv, AllLeft, NEW f \in Files, Release(f)
  PROVE  AllLeftNext
<1> DEFINE b == nblob + 1
<1>0. TypeOK /\ row[f] \in Row BY DEF Inv, TypeOK
<1>1. /\ row' = [row EXCEPT ![f] = Written(f, b)] /\ call[f] = "idle"
      /\ uid' = uid /\ treeUid' = treeUid /\ call' = call /\ verdict' = verdict
      /\ deleted' = deleted /\ hidden' = hidden /\ UNCHANGED <<drainVars, driveVars>>
      /\ ncrash' = ncrash
  BY DEF Release, callVars, sweepVars
<1> HIDE DEF b
<1>2. row'[f] = Written(f, b) /\ \A g \in Files : g # f => row'[g] = row[g]
  BY <1>0, <1>1 DEF TypeOK
<1>3. \A g \in Files : g # f => LeftSame(g) /\ row'[g].owner = row[g].owner
  BY <1>1, <1>2, StillSame DEF AllLeft, Still
<1>4. CASE row[f].kind = "create"
  BY <1>0, <1>2, <1>4, SentFields, <1>1, RowSame, <1>3, LeftQuiet DEF Written, Attached, AllLeft
<1>5. CASE row[f].kind # "create"
  <2>1. MarksKept /\ \A g : MadeFor(g)' = MadeFor(g) BY <1>1, Marks, MadeByStep
  <2>2. uid[f] # Local /\ \A v \in Workers : Holds(v) => F(v) # f
    BY <1>1, <1>5, TrashesNobody DEF Alive
  <2>3. row'[f].kind = "revision" /\ row'[f].first = 0 BY <1>2, <1>5 DEF Written, NoRow
  <2>4. LeftFile(f)'
    <3>1. 0 <= ncrash' BY <1>0, <1>1, Constants DEF TypeOK
    <3>2. LeftFile(f) /\ uid'[f] # Local BY <1>1, <2>2 DEF AllLeft
    <3> QED BY <1>1, <2>1, <2>3, <3>1, <3>2 DEF LeftFile
  <2> QED BY <1>1, <1>3, <2>1, <2>2, <2>4, LeftUser
<1> QED BY <1>4, <1>5

LEMMA LeftRename ==
  ASSUME Inv, AllLeft, NEW f \in Files, RenameEnd(f) \/ \E n \in Names : RenameStart(f, n)
  PROVE  AllLeftNext
<1>0. TypeOK /\ row[f] \in Row BY DEF Inv, TypeOK
<1>1. /\ uid' = uid /\ treeUid' = treeUid /\ verdict' = verdict
      /\ deleted' = deleted /\ hidden' = hidden /\ UNCHANGED <<drainVars, driveVars>>
      /\ ncrash' = ncrash
  BY DEF RenameEnd, RenameStart, sweepVars, treeVars, Call, toldVars, boundVars
<1>2. \A g \in Files : call'[g] = call[g] \/ (Alive(g) /\ Alive(g)')
  BY <1>0 DEF RenameEnd, RenameStart, TypeOK, Alive
<1>3. \/ row' = row
      \/ \E n : row' = [row EXCEPT ![f] = [row[f] EXCEPT !.name = n]]
      \/ \E p : row' = [row EXCEPT ![f] = [row[f] EXCEPT !.parked = p]]
  BY DEF RenameEnd, RenameStart, Retarget
<1>4. \A g \in Files :
        /\ row'[g].kind = row[g].kind /\ row'[g].owner = row[g].owner /\ row'[g].at = row[g].at
        /\ row'[g].to = row[g].to /\ row'[g].sha = row[g].sha /\ row'[g].first = row[g].first
  <2>1. ASSUME NEW x, row' = [row EXCEPT ![f] = x]
        PROVE  row'[f] = x /\ \A g \in Files : g # f => row'[g] = row[g]
    BY <1>0, <2>1 DEF TypeOK
  <2>2. CASE \E n : row' = [row EXCEPT ![f] = [row[f] EXCEPT !.name = n]]
    <3>1. PICK n : row' = [row EXCEPT ![f] = [row[f] EXCEPT !.name = n]] BY <2>2
    <3>2. row'[f] = [row[f] EXCEPT !.name = n] /\ \A g \in Files : g # f => row'[g] = row[g]
      BY <2>1, <3>1
    <3>3. /\ row'[f].kind = row[f].kind /\ row'[f].owner = row[f].owner /\ row'[f].at = row[f].at
          /\ row'[f].to = row[f].to /\ row'[f].sha = row[f].sha /\ row'[f].first = row[f].first
      BY <1>0, <3>2 DEF Row
    <3> QED BY <3>2, <3>3
  <2>3. CASE \E p : row' = [row EXCEPT ![f] = [row[f] EXCEPT !.parked = p]]
    <3>1. PICK p : row' = [row EXCEPT ![f] = [row[f] EXCEPT !.parked = p]] BY <2>3
    <3>2. row'[f] = [row[f] EXCEPT !.parked = p] /\ \A g \in Files : g # f => row'[g] = row[g]
      BY <2>1, <3>1
    <3>3. /\ row'[f].kind = row[f].kind /\ row'[f].owner = row[f].owner /\ row'[f].at = row[f].at
          /\ row'[f].to = row[f].to /\ row'[f].sha = row[f].sha /\ row'[f].first = row[f].first
      BY <1>0, <3>2 DEF Row
    <3> QED BY <3>2, <3>3
  <2> QED BY <1>3, <2>2, <2>3
<1>5. \A g \in Files : LeftSame(g) BY <1>1, <1>2, <1>4, RowSame DEF AllLeft
<1> QED BY <1>1, <1>4, <1>5, LeftQuiet

LEMMA LeftDeleteLocal ==
  ASSUME Inv, AllLeft, NEW f \in Files, DeleteLocal(f)
  PROVE  AllLeftNext
<1>0. TypeOK /\ row[f] \in Row /\ FileFits(f) /\ LeftFile(f) BY DEF Inv, TypeOK, AllLeft
<1>1. /\ uid' = uid /\ treeUid' = treeUid /\ verdict' = verdict /\ hidden' = hidden
      /\ UNCHANGED <<drainVars, driveVars>> /\ ncrash' = ncrash
      /\ call[f] = "idle" /\ call' = [call EXCEPT ![f] = "dropping"]
      /\ deleted' = deleted \cup {f} /\ row' = [row EXCEPT ![f] = Doomed(f)]
  BY DEF DeleteLocal, DropOps, MayDelete, sweepVars, treeVars, Call
<1>2. /\ row'[f] = Doomed(f) /\ call'[f] = "dropping"
      /\ \A g \in Files : g # f => row'[g] = row[g] /\ call'[g] = call[g]
  BY <1>0, <1>1 DEF TypeOK
<1>3. \A g \in Files : g # f => LeftSame(g) /\ row'[g].owner = row[g].owner
  BY <1>1, <1>2, StillSame DEF AllLeft, Still
<1>4. MarksKept /\ \A g : MadeFor(g)' = MadeFor(g) BY <1>1, Marks, MadeByStep
<1>5. f \in deleted' => call'[f] \in {"dropping", "gone"} BY <1>2
<1>6. CASE row[f].kind = "create" /\ Sent(f)
  <2>1. /\ row'[f].kind = "trash" /\ row'[f].owner = row[f].owner /\ row'[f].at = row[f].at
        /\ row'[f].to = row[f].to /\ row'[f].sha = row[f].sha /\ row'[f].first = row[f].first
    BY <1>0, <1>2, <1>6 DEF Doomed, Row
  <2>2. uid'[f] = Local /\ uid[f] = Local /\ row[f].at = Local
    BY <1>0, <1>1, <1>6 DEF FileFits, RowFits
  <2>3. ASSUME NEW r \in MadeFor(f)'
        PROVE  IF Alone THEN Findable(f, r)' ELSE Held(f, r)'
    BY <1>4, <1>0, <1>6, <2>2, <1>1, <2>1 DEF MadeFor, Live, LeftFile, drainVars, driveVars,
      Findable, Held, F
  <2>4. LeftFile(f)'
    <3>1. Alone' <=> Alone BY DEF Alone, Solo
    <3> QED BY <1>0, <1>1, <1>2, <1>4, <1>5, <2>1, <2>2, <2>3, <3>1 DEF LeftFile
  <2>5. RowHeld(f) BY <1>1, <1>4, <2>1 DEF RowHeld, driveVars
  <2> QED BY <1>1, <1>3, <1>4, <2>4, <2>5, LeftUser
<1>7. CASE row[f].kind = "create" /\ ~Sent(f)
  <2>1. row'[f] = NoRow /\ row[f].owner = NoOne /\ row[f].to = {} BY <1>2, <1>7 DEF Doomed, Sent
  <2>2. uid'[f] = Local /\ uid[f] = Local /\ row[f].at = Local
    BY <1>0, <1>1, <1>7 DEF FileFits, RowFits
  <2>3. \A v \in Workers : Holds(v) => F(v) # f BY <2>1, NoneHolds
  <2>4. ASSUME NEW r \in MadeFor(f) PROVE FALSE
    BY <1>0, <1>7, <2>2, <2>1, <2>3 DEF LeftFile, Findable, Held, Holds, Early
  <2>5. LeftFile(f)'
    <3>1. MadeFor(f)' = {} /\ row'[f].kind = "none" /\ row'[f].first = 0 /\ 0 <= ncrash'
      BY <1>0, <1>1, <1>4, <2>1, <2>4, Constants DEF NoRow, TypeOK
    <3> QED BY <1>0, <1>1, <1>2, <1>5, <2>2, <3>1 DEF LeftFile
  <2> QED BY <1>1, <1>3, <1>4, <2>3, <2>5, LeftUser
<1>8. CASE row[f].kind # "create"
  <2>1. row'[f] = NoRow BY <1>2, <1>8 DEF Doomed
  <2>2. uid[f] # Local /\ \A v \in Workers : Holds(v) => F(v) # f
    BY <1>1, <1>8, TrashesNobody DEF Alive
  <2>3. LeftFile(f)'
    <3>1. row'[f].kind = "none" /\ row'[f].first = 0 /\ 0 <= ncrash'
      BY <1>0, <1>1, <2>1, Constants DEF NoRow, TypeOK
    <3> QED BY <1>0, <1>1, <1>2, <1>4, <1>5, <2>2, <3>1 DEF LeftFile
  <2> QED BY <1>1, <1>3, <1>4, <2>2, <2>3, LeftUser
<1> QED BY <1>6, <1>7, <1>8

(* A landed file is trashed. *)
LEMMA LeftTrashed ==
  ASSUME Inv, AllLeft, NEW f \in Files, QueueTrash(f), uid[f] # Local,
         uid' = uid, treeUid' = [treeUid EXCEPT ![f] = Local], verdict' = verdict,
         UNCHANGED <<drainVars, driveVars>>, ncrash' = ncrash,
         call' = [call EXCEPT ![f] = "gone"], deleted' \in {deleted, deleted \cup {f}},
         row[f].kind \notin {"create", "trash"}
  PROVE  AllLeftNext
<1>0. TypeOK /\ row[f] \in Row /\ FileFits(f) /\ LeftFile(f) BY DEF Inv, TypeOK, AllLeft
<1>1. row' = [row EXCEPT ![f] = [NoRow EXCEPT !.kind = "trash", !.name = place[f], !.at = uid[f]]]
  BY DEF QueueTrash
<1>2. /\ row'[f].kind = "trash" /\ row'[f].first = 0 /\ treeUid'[f] = Local /\ call'[f] = "gone"
      /\ \A g \in Files : g # f => row'[g] = row[g] /\ call'[g] = call[g] /\ treeUid'[g] = treeUid[g]
  BY <1>0, <1>1 DEF TypeOK, NoRow
<1>3. \A g \in Files : g # f => LeftSame(g) /\ row'[g].owner = row[g].owner
  BY <1>2, StillSame DEF AllLeft, Still
<1>4. MarksKept /\ \A g : MadeFor(g)' = MadeFor(g) BY Marks, MadeByStep
<1>5. LeftFile(f)'
  <2>1. 0 <= ncrash' BY <1>0, Constants DEF TypeOK
  <2> QED BY <1>0, <1>2, <1>4, <2>1 DEF LeftFile
<1>6. \A v \in Workers : Holds(v) => F(v) # f BY NoneHolds
<1> QED BY <1>3, <1>4, <1>5, <1>6, LeftUser

LEMMA LeftDelete ==
  ASSUME Inv, AllLeft, NEW f \in Files, DeleteLanded(f) \/ DeleteReal(f)
  PROVE  AllLeftNext
<1>0. TypeOK /\ row[f] \in Row /\ FileFits(f) /\ LeftFile(f) BY DEF Inv, TypeOK, AllLeft
<1>1. /\ uid' = uid /\ verdict' = verdict /\ UNCHANGED <<drainVars, driveVars>> /\ ncrash' = ncrash
      /\ Forgotten(f)
      /\ treeUid' = [treeUid EXCEPT ![f] = Local] /\ call' = [call EXCEPT ![f] = "gone"]
  BY DEF DeleteLanded, DeleteReal, Forgotten, sweepVars, boundVars, Call
<1>2. CASE DeleteReal(f)
  BY <1>2, <1>0, <1>1, LeftTrashed DEF DeleteReal, MayDelete, LeftFile, FileFits, RowFits, Alive
<1>3. CASE DeleteLanded(f) /\ uid[f] # Local
  BY <1>3, <1>0, <1>1, LeftTrashed DEF DeleteLanded, LandedUnder, toldVars, LeftFile
<1>4. CASE DeleteLanded(f) /\ uid[f] = Local
  <2>1. /\ row' = row /\ hidden' = hidden /\ deleted' = deleted /\ call[f] = "dropping"
    BY <1>4 DEF DeleteLanded, LandedUnder, toldVars
  <2>2. /\ treeUid'[f] = Local /\ call'[f] = "gone"
        /\ \A g \in Files : g # f => call'[g] = call[g] /\ treeUid'[g] = treeUid[g]
    BY <1>0, <1>1 DEF TypeOK
  <2>3. \A g \in Files : g # f => LeftSame(g) /\ row'[g].owner = row[g].owner
    BY <1>1, <2>1, <2>2, StillSame DEF AllLeft, Still
  <2>4. MarksKept /\ \A g : MadeFor(g)' = MadeFor(g) BY <1>1, Marks, MadeByStep
  <2>5. /\ pc' = pc /\ job' = job /\ node' = node BY <1>1 DEF drainVars, driveVars
  <2>6. LeftFile(f)'
    <3>1. (Alone' <=> Alone) /\ \A r : (Findable(f, r)' <=> Findable(f, r)) /\ (Held(f, r)' <=> Held(f, r))
      BY <2>1, <2>5 DEF Alone, Solo, Findable, Held, F
    <3>2. row[f].kind # "create" BY <1>0, <2>1 DEF LeftFile, Alive
    <3> QED BY <1>0, <1>1, <1>4, <2>1, <2>2, <2>4, <3>1, <3>2 DEF LeftFile
  <2>7. RowHeld(f) BY <2>1, <2>4, <2>5 DEF RowHeld
  <2> QED BY <1>1, <2>3, <2>4, <2>6, <2>7, LeftUser
<1> QED BY <1>2, <1>3, <1>4

LEMMA LeftSweep ==
  ASSUME Inv, AllLeft, NEW f \in Files, Grow(f) \/ SweepJudge(f) \/ SweepAct(f)
  PROVE  AllLeftNext
<1>0. TypeOK /\ row[f] \in Row /\ FileFits(f) /\ LeftFile(f) BY DEF Inv, TypeOK, AllLeft
<1>1. /\ uid' = uid /\ treeUid' = treeUid /\ call' = call /\ deleted' = deleted /\ hidden' = hidden
      /\ UNCHANGED <<drainVars, driveVars>> /\ ncrash' = ncrash
  BY DEF Grow, SweepJudge, SweepAct, treeVars, callVars, toldVars, boundVars, dbVars
<1>2. \A g \in Files : verdict'[g] \in {verdict[g], "none", "release"}
  <2>1. CASE Grow(f) \/ SweepAct(f) BY <1>0, <2>1 DEF Grow, SweepAct, TypeOK
  <2>2. CASE SweepJudge(f)
    <3>1. ParkVerdict(f) # "drop"
      <4>1. Alive(f) BY <1>0, <2>2 DEF SweepJudge, LeftFile
      <4>2. f \in listed \/ age[f] = "new" BY <1>0, <4>1 DEF FileFits, CallFits, Alive
      <4> QED BY <4>2 DEF ParkVerdict
    <3>2. ParkVerdict(f) \in {"none", "release"} BY <3>1 DEF ParkVerdict
    <3> QED BY <1>0, <2>2, <3>2 DEF SweepJudge, TypeOK
  <2> QED BY <2>1, <2>2
<1>3. row' = row \/ row' = [row EXCEPT ![f] = [row[f] EXCEPT !.parked = FALSE]]
  BY <1>0 DEF Grow, SweepJudge, SweepAct, dbVars, LeftFile
<1>4. \A g \in Files :
        /\ row'[g].kind = row[g].kind /\ row'[g].owner = row[g].owner /\ row'[g].at = row[g].at
        /\ row'[g].to = row[g].to /\ row'[g].sha = row[g].sha /\ row'[g].first = row[g].first
  <2>1. CASE row' = [row EXCEPT ![f] = [row[f] EXCEPT !.parked = FALSE]]
    BY <1>0, <2>1 DEF TypeOK, Row
  <2> QED BY <1>3, <2>1
<1>5. \A g \in Files : LeftSame(g) BY <1>1, <1>2, <1>4, RowSame DEF AllLeft
<1> QED BY <1>1, <1>4, <1>5, LeftQuiet

LEMMA LeftForeign ==
  ASSUME Inv, AllLeft, NEW n \in Names, ForeignCreate(n)
  PROVE  AllLeftNext
<1>0. TypeOK BY DEF Inv
<1>1. NewNode(n, Theirs, Other) BY <1>0, ForeignNode
<1>2. MarksKept /\ \A g \in Files : MadeFor(g)' \subseteq MadeFor(g)
  BY <1>1, Marks, MadeByStep, Constants
<1>3. /\ UNCHANGED <<drainVars, row, uid, treeUid, call, verdict, deleted, hidden>>
      /\ ncrash' = ncrash
  BY DEF ForeignCreate, dbVars, treeVars, callVars, sweepVars, toldVars
<1>4. \A g \in Files : Still(g) /\ LeftSame(g) BY <1>3, StillSame DEF Still, AllLeft
<1>5. /\ pc' = pc /\ job' = job BY <1>3 DEF drainVars
<1>6. ASSUME NEW g \in Files PROVE LeftFile(g)'
  <2>1. ASSUME NEW r \in MadeFor(g)', Findable(g, r) PROVE Findable(g, r)'
    <3>1. r \in 1 .. nnode BY <1>2, <2>1 DEF MadeFor, Live
    <3>2. node'[r] = node[r] BY <1>1, <3>1 DEF NewNode
    <3> QED BY <1>3, <1>4, <1>5, <2>1, <3>1, <3>2, FindableFrame
  <2>2. \A r : Held(g, r) => Held(g, r)' BY <1>5 DEF Held, F
  <2>3. LeftFound(g) BY <2>1, <2>2 DEF LeftFound
  <2> QED BY <1>2, <1>3, <1>4, <2>3, LeftFileFrame DEF AllLeft
<1>7. ASSUME NEW v \in Workers PROVE LeftJob(v)'
  <2>1. ASSUME Holds(v) PROVE RowHeld(F(v))
    <3>1. PICK g \in Files : g = F(v) BY <2>1, HeldJob
    <3>2. ASSUME NEW r \in MadeFor(g) PROVE node'[r].name = node[r].name
      BY <1>1, <3>2 DEF NewNode, MadeFor, Live
    <3>3. RowHeld(g) BY <1>2, <1>3, <3>2 DEF RowHeld
    <3> QED BY <3>1, <3>3
  <2>2. JobSame(v) BY <1>5, <2>1 DEF JobSame
  <2> QED BY <2>2, LeftJobFrame DEF AllLeft
<1> QED BY <1>6, <1>7 DEF AllLeftNext

LEMMA FoundKept ==
  ASSUME Inv, NEW g \in Files, LeftSame(g), UNCHANGED driveVars, hidden' \subseteq hidden,
         \A v \in Workers : pc[v] \in {"retire", "trash"} => pc'[v] = pc[v] /\ job'[v] = job[v]
  PROVE  LeftFound(g)
<1>1. node' = node /\ nnode' = nnode BY DEF driveVars
<1>2. ASSUME NEW r \in MadeFor(g)', Findable(g, r) PROVE Findable(g, r)'
  <2>1. r \in 1 .. nnode BY <1>1, <1>2 DEF MadeFor, Live
  <2> QED BY <1>1, <1>2, <2>1, FindableFrame
<1>3. \A r : Held(g, r) => Held(g, r)' BY DEF Held, F
<1> QED BY <1>2, <1>3 DEF LeftFound

(* A step of one worker, at one file. *)
LEMMA LeftWorker ==
  ASSUME Inv, AllLeft, NEW w \in Workers, NEW f \in Files, F(w) = f \/ pc[w] = "idle",
         \A v \in Workers : v # w => pc'[v] = pc[v] /\ job'[v] = job[v],
         MarksKept, ncrash' = ncrash,
         \A g \in Files : g # f => /\ LeftSame(g) /\ row'[g].owner = row[g].owner
                                   /\ MadeFor(g)' \subseteq MadeFor(g),
         LeftFile(f)', LeftJob(w)',
         \A v \in Workers : v # w /\ Holds(v) /\ F(v) = f => RowHeld(f)
  PROVE  AllLeftNext
<1>1. ASSUME NEW g \in Files, g # f PROVE LeftFile(g)'
  <2>1. \A v \in Workers : pc[v] = "retire" /\ F(v) = g => v # w BY <1>1
  <2>2. LeftFound(g) BY <1>1, <2>1, FoundOthers
  <2> QED BY <1>1, <2>2, LeftFileFrame DEF AllLeft
<1>2. ASSUME NEW v \in Workers, v # w PROVE LeftJob(v)'
  <2>1. ASSUME Holds(v) PROVE RowHeld(F(v))
    <3>1. PICK g \in Files : g = F(v) BY <2>1, HeldJob
    <3>2. CASE g = f BY <1>2, <2>1, <3>1, <3>2
    <3>3. CASE g # f
      <4>1. ~Alone BY <3>3 DEF Alone, Solo
      <4>2. RowHeld(g) BY <3>3, <4>1 DEF LeftSame, RowHeld
      <4> QED BY <3>1, <4>2
    <3> QED BY <3>2, <3>3
  <2>2. JobSame(v) BY <1>2, <2>1 DEF JobSame
  <2> QED BY <2>2, LeftJobFrame DEF AllLeft
<1> QED BY <1>1, <1>2 DEF AllLeftNext

LEMMA LeftClaimRow ==
  ASSUME Inv, AllLeft, NEW w \in Workers, NEW f \in Files, ClaimRow(w, f)
  PROVE  AllLeftNext
<1>0. TypeOK /\ row[f] \in Row /\ FileFits(f) /\ LeftFile(f) BY DEF Inv, TypeOK, AllLeft
<1>1. /\ pc[w] = "idle" /\ row[f].kind # "none" /\ row[f].owner = NoOne
      /\ row' = [row EXCEPT ![f].owner = w]
      /\ UNCHANGED driveVars /\ uid' = uid /\ treeUid' = treeUid /\ hidden' = hidden
      /\ call' = call /\ verdict' = verdict /\ deleted' = deleted /\ ncrash' = ncrash
  BY DEF ClaimRow, Free, treeVars, callVars, sweepVars, toldVars, boundVars
<1>2. \A v \in Workers : v # w => pc'[v] = pc[v] /\ job'[v] = job[v]
  BY <1>0 DEF ClaimRow, Goto, TypeOK
<1>3. /\ row'[f] = [row[f] EXCEPT !.owner = w]
      /\ \A g \in Files : g # f => row'[g] = row[g]
  BY <1>0, <1>1 DEF TypeOK
<1>4. /\ row'[f].kind = row[f].kind /\ row'[f].owner = w /\ row'[f].at = row[f].at
      /\ row'[f].to = row[f].to /\ row'[f].sha = row[f].sha /\ row'[f].first = row[f].first
  BY <1>0, <1>3 DEF Row
<1>5. \A g \in Files : LeftSame(g)
  <2>1. \A g \in Files : g # f => LeftSame(g) BY <1>1, <1>3, StillSame DEF AllLeft, Still
  <2> QED BY <1>0, <1>1, <1>4, <2>1, RowSame
<1>6. MarksKept /\ \A g : MadeFor(g)' = MadeFor(g) BY <1>1, Marks, MadeByStep
<1>7. LeftFile(f)'
  <2>1. \A v \in Workers : pc[v] \in {"retire", "trash"} => v # w BY <1>1
  <2>2. LeftFound(f) BY <1>1, <1>2, <1>5, <2>1, FoundKept
  <2> QED BY <1>0, <1>1, <1>5, <1>6, <2>2, LeftFileFrame
<1>8. \A v \in Workers : Holds(v) => F(v) # f BY <1>1, NoneHolds
<1>9. /\ job'[w] \in Job /\ job'[w].file = f /\ job'[w].kind = row[f].kind
      /\ job'[w].node = row[f].at /\ job'[w].stage = "first"
      /\ pc'[w] = IF row[f].kind = "create" THEN "twin"
                  ELSE IF f \in unadopted THEN "ask"
                  ELSE IF row[f].kind = "revision" THEN "revise"
                  ELSE IF row[f].at = Local THEN "find" ELSE "trash"
  <2>1. job'[w] \in Job /\ job'[w].file = f /\ job'[w].kind = row[f].kind /\ job'[w].node = row[f].at
    BY <1>0, ClaimRowEffect DEF OneJob
  <2>2. job'[w].stage = "first" BY <1>0 DEF ClaimRow, TypeOK, NoJob
  <2> QED BY <1>0, <2>1, <2>2 DEF ClaimRow, Goto, TypeOK
<1>10. LeftJob(w)'
  <2>1. F(w)' = f /\ MadeFor(F(w))' = MadeFor(f) BY <1>6, <1>9 DEF F, MadeFor
  <2>2. CASE row[f].kind = "create"
    <3>1. pc'[w] = "twin" /\ row[f].at = Local /\ job'[w].kind = "create"
      BY <1>0, <1>9, <2>2 DEF FileFits, RowFits
    <3> QED BY <1>4, <1>9, <2>1, <2>2, <3>1 DEF LeftJob, Early
  <2>3. CASE row[f].kind = "revision" BY <1>9, <2>3 DEF LeftJob, Holds, Early
  <2>4. CASE row[f].kind = "trash"
    <3>1. pc'[w] \in {"ask", "find", "trash"} /\ job'[w].kind = "trash" BY <1>9, <2>4
    <3>2. pc'[w] = "find" => row[f].at = Local BY <1>9, <2>4
    <3>3. pc'[w] = "trash" => \A r \in MadeFor(f) : r = row[f].at
      <4> SUFFICES ASSUME row[f].at # Local, NEW r \in MadeFor(f) PROVE r = row[f].at BY <1>9, <2>4
      <4>1. CASE uid[f] # Local BY <1>0, <2>4, <4>1 DEF FileFits, RowFits, LeftFile
      <4>2. CASE uid[f] = Local
        <5>1. ~Findable(f, r) BY DEF Findable
        <5>2. ~Held(f, r) BY <1>8 DEF Held, Holds, Early
        <5> QED BY <1>0, <4>2, <5>1, <5>2 DEF LeftFile
      <4> QED BY <4>1, <4>2
    <3> QED BY <1>4, <1>9, <2>1, <2>4, <3>1, <3>2, <3>3 DEF LeftJob, Early
  <2> QED BY <1>0, <1>1, <2>2, <2>3, <2>4, RowFields
<1> QED BY <1>1, <1>2, <1>3, <1>5, <1>6, <1>7, <1>8, <1>10, LeftWorker

LEMMA LeftClaimRename ==
  ASSUME Inv, AllLeft, NEW w \in Workers, NEW f \in Files, ClaimRename(w, f)
  PROVE  AllLeftNext
<1>0. TypeOK BY DEF Inv
<1>1. /\ pc[w] = "idle" /\ UNCHANGED driveVars /\ row' = row /\ uid' = uid /\ treeUid' = treeUid
      /\ hidden' = hidden /\ call' = call /\ verdict' = verdict /\ deleted' = deleted
      /\ ncrash' = ncrash
  BY DEF ClaimRename, treeVars, callVars, sweepVars, toldVars, boundVars
<1>2. \A v \in Workers : v # w => pc'[v] = pc[v] /\ job'[v] = job[v]
  BY <1>0 DEF ClaimRename, Goto, TypeOK
<1>3. \A g \in Files : LeftSame(g) BY <1>1, StillSame DEF AllLeft, Still
<1>4. MarksKept /\ \A g : MadeFor(g)' = MadeFor(g) BY <1>1, Marks, MadeByStep
<1>5. LeftFile(f)'
  <2>1. \A v \in Workers : pc[v] \in {"retire", "trash"} => v # w BY <1>1
  <2>2. LeftFound(f) BY <1>1, <1>2, <1>3, <2>1, FoundKept
  <2> QED BY <1>1, <1>3, <1>4, <2>2, LeftFileFrame DEF AllLeft
<1>6. job'[w].kind = "rename" /\ pc'[w] \in {"ask", "send"}
  <2>1. job'[w].kind = "rename" BY <1>0 DEF ClaimRename, TypeOK, NoJob
  <2> QED BY <1>0, <2>1 DEF ClaimRename, Goto, TypeOK
<1>7. LeftJob(w)' BY <1>6 DEF LeftJob, Holds, Early
<1>8. RowHeld(f) BY <1>1, <1>4 DEF RowHeld, driveVars
<1> QED BY <1>1, <1>2, <1>3, <1>4, <1>5, <1>7, <1>8, LeftWorker

LEMMA LeftCrash ==
  ASSUME Inv, AllLeft, Alone, Crash, torn' \cap Files = {}
  PROVE  AllLeftNext
<1>0. TypeOK /\ ncrash \in Nat BY Constants DEF Inv, TypeOK
<1>1. \A g \in Files : call[g] \notin {"minting", "renaming", "dropping"} BY DEF Crash
<1>2. /\ UNCHANGED driveVars /\ uid' = uid /\ deleted' = deleted /\ ncrash' = ncrash + 1
      /\ row' = [f \in Files |-> [row[f] EXCEPT !.owner = NoOne]]
      /\ hidden' = {row[f].at : f \in {g \in Files : row[g].kind = "trash"}} \ {Local}
      /\ \A g \in Files : /\ verdict'[g] = "none" /\ call'[g] = call[g]
                          /\ treeUid'[g] \in {Local, uid[g]}
      /\ \A w \in Workers : pc'[w] = "idle"
  BY <1>1 DEF Crash
<1>3. ASSUME NEW g \in Files
      PROVE  /\ row'[g].kind = row[g].kind /\ row'[g].at = row[g].at
             /\ row'[g].to = row[g].to /\ row'[g].sha = row[g].sha /\ row'[g].first = row[g].first
  <2>1. row'[g] = [row[g] EXCEPT !.owner = NoOne] /\ row[g] \in Row BY <1>0, <1>2 DEF TypeOK
  <2> QED BY <2>1 DEF Row
<1>4. MarksKept /\ \A g : MadeFor(g)' = MadeFor(g) BY <1>2, Marks, MadeByStep
<1>5. ASSUME NEW g \in Files PROVE LeftFile(g)'
  <2>1. LeftFile(g) /\ FileFits(g) /\ Alone' BY DEF AllLeft, Inv, Alone, Solo
  <2>2. row'[g].first <= ncrash'
    <3>1. row[g].first \in Nat BY <1>0, Constants, RowFields DEF TypeOK
    <3> QED BY <1>0, <1>2, <1>3, <2>1, <3>1 DEF LeftFile
  <2>3. ASSUME NEW r \in MadeFor(g), Findable(g, r) PROVE Findable(g, r)'
    <3>1. r \notin hidden'
      <4>1. \A h \in Files : h = g BY DEF Alone, Solo
      <4> QED BY <1>2, <2>3, <4>1 DEF Findable
    <3> QED BY <1>2, <1>3, <2>3, <3>1 DEF Findable, driveVars
  <2>4. uid'[g] # Local =>
          /\ \A r \in MadeFor(g)' : r = uid'[g]
          /\ call'[g] = "dropping" => row'[g].kind = "none"
          /\ call'[g] = "gone" => row'[g].kind = "trash" \/ node'[uid'[g]].trashed
    BY <1>2, <1>3, <1>4, <2>1 DEF LeftFile, driveVars
  <2>5. uid'[g] = Local => \A r \in MadeFor(g)' :
          (row'[g].kind = "trash" /\ row'[g].at = r) \/ Findable(g, r)'
    BY <1>2, <1>3, <1>4, <2>1, <2>3 DEF LeftFile
  <2> QED BY <1>2, <1>3, <1>4, <2>1, <2>2, <2>4, <2>5 DEF LeftFile, Alive
<1>6. \A w \in Workers : LeftJob(w)' BY <1>2 DEF LeftJob, Holds, Early
<1> QED BY <1>5, <1>6 DEF AllLeftNext

(* The other files, when a worker takes a step at one. *)
LEMMA StepAside ==
  ASSUME Inv, AllLeft, NEW w \in Workers, NEW f \in Files, f = F(w), Step(w)
  PROVE  /\ TypeOK /\ pc[w] # "idle" /\ ncrash' = ncrash /\ MarksKept
         /\ UNCHANGED <<callVars, sweepVars, toldVars>>
         /\ \A v \in Workers : v # w => pc'[v] = pc[v] /\ job'[v] = job[v]
         /\ \A g \in Files : g # f => /\ LeftSame(g) /\ row'[g].owner = row[g].owner
                                      /\ MadeFor(g)' \subseteq MadeFor(g)
<1>0. /\ TypeOK /\ pc[w] # "idle" /\ MarksKept
      /\ UNCHANGED <<callVars, sweepVars, toldVars>>
  BY StepFrame, MarksStep, Zenon DEF Inv
<1>1. ncrash' = ncrash
  BY Zenon DEF Step, CreateLook, CreateNote, RenameGone, Send, CreateClash, CheckHeld, Fail,
    CreateRetire, Repoint, AdoptAsk, AdoptRead, AdoptPlace, CreateEnd, Revise, RenameRetire,
    TrashFind, TrashSend, TrashRetire, boundVars, Fault
<1>2. \A v \in Workers : v # w => pc'[v] = pc[v] /\ job'[v] = job[v] BY StepJob DEF OnePc, OneJob
<1>3. \A g \in Files : g # f => row'[g] = row[g] /\ uid'[g] = uid[g] BY StepRow, StepUid DEF OneRow
<1>4. \A g \in Files : g # f => treeUid'[g] = treeUid[g]
  <2>1. CASE Repoint(w) \/ AdoptPlace(w) BY <1>0, <2>1, Zenon DEF Repoint, AdoptPlace, TypeOK
  <2>2. CASE ~(Repoint(w) \/ AdoptPlace(w))
    BY <2>2, Zenon DEF Step, CreateLook, CreateNote, RenameGone, Send, CreateClash, CheckHeld,
      Fail, CreateRetire, AdoptAsk, AdoptRead, CreateEnd, Revise, RenameRetire, TrashFind,
      TrashSend, TrashRetire, treeVars
  <2> QED BY <2>1, <2>2
<1>5. ASSUME NEW g \in Files, g # f
      PROVE  LeftSame(g) /\ row'[g].owner = row[g].owner /\ MadeFor(g)' \subseteq MadeFor(g)
  <2>1. Still(g) BY <1>0, <1>3, <1>4, <1>5 DEF Still, callVars, sweepVars, toldVars
  <2>2. MadeFor(g)' \subseteq MadeFor(g) BY <1>0, <1>5, StepDrive, MadeByStep
  <2> QED BY <2>1, <2>2, StillSame DEF AllLeft
<1> QED BY <1>0, <1>1, <1>2, <1>5

(* An attempt that does not have the file to itself has its node. *)
LEMMA NotHolding ==
  ASSUME Inv, NEW w \in Workers, pc[w] # "idle", ~Holds(w)
  PROVE  /\ uid[F(w)] # Local /\ job[w].node = uid[F(w)]
         /\ job[w].kind \in {"revision", "rename"} \/ pc[w] \in Adopts \cup {"repoint", "discard"}
<1>1. /\ JobFits(w) /\ job[w].kind \in {"create", "revision", "trash", "rename"}
      /\ pc[w] \in Way[job[w].kind]
  BY AtWork, KindAt DEF JobFits
<1>2. job[w].kind # "trash" /\ pc[w] \notin {"trash", "trashed"} BY DEF Holds
<1>3. CASE job[w].kind = "create"
  BY <1>3, <1>1, <1>2, Ways DEF Holds, Early, Adopts, JobFits
<1> QED BY <1>1, <1>2, <1>3 DEF JobFits

LEMMA LeftFree ==
  ASSUME Inv, AllLeft, NEW w \in Workers, Step(w), ~Holds(w)
  PROVE  AllLeftNext
<1>0. PICK f \in Files : f = F(w) BY StepFrame, AtWork
<1>1. /\ TypeOK /\ pc[w] # "idle" /\ ncrash' = ncrash /\ MarksKept
      /\ UNCHANGED <<callVars, sweepVars, toldVars>>
      /\ \A v \in Workers : v # w => pc'[v] = pc[v] /\ job'[v] = job[v]
      /\ \A g \in Files : g # f => /\ LeftSame(g) /\ row'[g].owner = row[g].owner
                                   /\ MadeFor(g)' \subseteq MadeFor(g)
  BY <1>0, StepAside
<1>2. /\ uid[f] # Local /\ job[w].node = uid[f]
      /\ job[w].kind \in {"revision", "rename"} \/ pc[w] \in Adopts \cup {"repoint", "discard"}
      /\ row[f] \in Row /\ FileFits(f) /\ LeftFile(f) /\ job[w].kind # "trash"
      /\ ~(pc[w] \in {"twin", "note", "clash", "find", "trash", "trashed"})
      /\ pc[w] \in {"send", "held", "retire", "fail"} => job[w].kind # "create"
  BY <1>0, <1>1, NotHolding, AtWork, KindAt, Zenon DEF AllLeft, Holds, Early, Adopts
<1>3. /\ Step(w) => \/ RenameGone(w) \/ Send(w) \/ CheckHeld(w) \/ Fail(w) \/ Repoint(w)
                    \/ AdoptAsk(w) \/ AdoptRead(w) \/ AdoptPlace(w) \/ CreateEnd(w) \/ Revise(w)
                    \/ RenameRetire(w)
  BY <1>2 DEF Step, CreateLook, CreateNote, CreateClash, CreateRetire, TrashFind, TrashSend,
    TrashRetire
<1>4. MadeFor(f)' \subseteq MadeFor(f) /\ uid' = uid
  <2>1. uid' = uid BY <1>2, StepUid, Zenon
  <2>2. nnode' = nnode BY <1>2, StepDrive DEF Send
  <2> QED BY <1>1, <2>1, <2>2, MadeByStep
<1>5. treeUid'[f] \in {treeUid[f], uid[f]}
  BY <1>0, <1>1, <1>2, <1>3 DEF Repoint, AdoptPlace, TypeOK, RenameGone, Send, CheckHeld, Fail,
    AdoptAsk, AdoptRead, CreateEnd, Revise, RenameRetire, treeVars
<1>6. \/ row' = row
      \/ /\ row[f].owner = w /\ row[f].kind = "revision" /\ row'[f] = NoRow
      \/ /\ row[f].owner = w /\ row'[f].kind = row[f].kind /\ row'[f].at = row[f].at
         /\ row'[f].to = row[f].to /\ row'[f].sha = row[f].sha /\ row'[f].first = row[f].first
  <2>1. CASE Fail(w)
    <3>1. CASE row' = row BY <3>1
    <3>2. CASE row' # row
      <4>1. /\ row[f].owner = w
            /\ row' = [row EXCEPT ![f].owner = NoOne,
                          ![f].tries = IF row[f].kind = job[w].kind THEN Grown(@) ELSE @]
        BY <1>0, <2>1, <3>2 DEF Fail
      <4> DEFINE t == IF row[f].kind = job[w].kind THEN Grown(row[f].tries) ELSE row[f].tries
      <4>2. row'[f] = [row[f] EXCEPT !.owner = NoOne, !.tries = t] BY <1>1, <4>1 DEF TypeOK
      <4> HIDE DEF t
      <4>3. /\ row'[f].kind = row[f].kind /\ row'[f].at = row[f].at /\ row'[f].to = row[f].to
            /\ row'[f].sha = row[f].sha /\ row'[f].first = row[f].first
        BY <1>2, <4>2 DEF Row
      <4> QED BY <4>1, <4>3
    <3> QED BY <3>1, <3>2
  <2>2. CASE CreateEnd(w)
    <3>1. CASE row[f].owner = w
      BY <1>0, <1>1, <2>2, <3>1, <1>2 DEF CreateEnd, Unowned, TypeOK, Row
    <3>2. CASE row[f].owner # w BY <1>0, <2>2, <3>2 DEF CreateEnd, Unowned
    <3> QED BY <3>1, <3>2
  <2>3. CASE Revise(w) BY <1>0, <2>3, ReviseEffect DEF OneRow
  <2>4. CASE ~(Fail(w) \/ CreateEnd(w) \/ Revise(w))
    BY <1>3, <2>4 DEF RenameGone, Send, CheckHeld, Repoint, AdoptAsk, AdoptRead, AdoptPlace,
      RenameRetire, dbVars
  <2> QED BY <2>1, <2>2, <2>3, <2>4
<1>7. LeftFile(f)'
  <2>1. CASE row'[f] = NoRow /\ row[f].kind = "revision"
    <3>1. row'[f].kind = "none" /\ row'[f].first = 0 /\ 0 <= ncrash'
      BY <1>1, <2>1, Constants DEF NoRow, TypeOK
    <3>2. uid[f] \in 1 .. nnode BY <1>2, Constants DEF FileFits, Inv, TypeOK, Uid
    <3>3. call'[f] = "gone" => node'[uid'[f]].trashed
      BY <1>1, <1>2, <1>4, <2>1, <3>2 DEF LeftFile, MarksKept, callVars
    <3> QED BY <1>1, <1>2, <1>4, <1>5, <3>1, <3>3 DEF LeftFile, callVars, sweepVars, toldVars
  <2>2. CASE row'[f].kind = row[f].kind /\ row'[f].at = row[f].at
             /\ row'[f].to = row[f].to /\ row'[f].sha = row[f].sha /\ row'[f].first = row[f].first
    <3>1. LeftSame(f) BY <1>1, <1>2, <1>4, <1>5, <2>2, RowSame DEF callVars, sweepVars, toldVars
    <3>2. LeftFound(f) BY <1>2 DEF LeftFound
    <3> QED BY <1>1, <1>2, <1>4, <3>1, <3>2, LeftFileFrame
  <2> QED BY <1>6, <2>1, <2>2
<1>8. ASSUME NEW v \in Workers, v # w, Holds(v), F(v) = f PROVE RowHeld(f)
  <2>1. row[f].owner = v BY <1>8 DEF AllLeft, LeftJob
  <2>2. row' = row BY <1>6, <1>8, <2>1
  <2> QED BY <1>2, <1>4, <2>2 DEF RowHeld
<1>9. LeftJob(w)'
  <2>1. job'[w].kind # "trash" /\ pc'[w] \notin {"trash", "trashed"}
        /\ ~(job'[w].kind = "create" /\ pc'[w] \in Early \cup {"fail"})
    <3>1. pc'[w] = "idle" \/ job'[w].kind = job[w].kind BY StepJob DEF SameOp
    <3>2. NoJob.kind = "create" BY DEF NoJob
    <3>3. CASE pc'[w] = "idle" BY <3>2, <3>3, StepJob DEF Early
    <3>4. CASE job[w].kind \in {"revision", "rename"} /\ pc'[w] # "idle"
      <4>1. pc'[w] \notin {"trash", "trashed"}
        <5>1. CASE RenameGone(w) \/ Repoint(w) \/ AdoptAsk(w)
          BY <1>1, <5>1 DEF RenameGone, Repoint, AdoptAsk, Goto, TypeOK
        <5>2. CASE Send(w) \/ CheckHeld(w)
          <6>1. job[w].kind = "rename" /\ pc[w] \in {"send", "held"}
            BY <1>1, <1>2, <5>2, KindAt DEF Send, CheckHeld
          <6>2. CASE Send(w) BY <6>1, <6>2, SendEffect, TakenEffect
          <6> QED BY <5>2, <6>1, <6>2, HeldEffect
        <5>3. CASE AdoptRead(w) \/ AdoptPlace(w) BY <3>4, <5>3, ReadEffect, PlaceEffect
        <5>4. CASE Fail(w) \/ CreateEnd(w) \/ Revise(w) \/ RenameRetire(w)
          <6>1. Goto(w, "idle") BY <5>4 DEF Fail, CreateEnd, Revise, RenameRetire, Idle
          <6> QED BY <1>1, <3>4, <6>1 DEF Goto, TypeOK
        <5> QED BY <1>3, <5>1, <5>2, <5>3, <5>4
      <4> QED BY <3>1, <3>4, <4>1
    <3>5. CASE job[w].kind = "create" /\ pc'[w] # "idle"
      <4>1. pc[w] \in Adopts \cup {"repoint", "discard"} BY <1>2, <3>5
      <4>2. pc'[w] \in Adopts \cup {"discard"}
        <5>1. CASE Repoint(w) \/ AdoptAsk(w)
          BY <1>1, <5>1 DEF Repoint, AdoptAsk, Goto, TypeOK, Adopts
        <5>2. CASE AdoptRead(w) \/ AdoptPlace(w) BY <3>5, <5>2, ReadEffect, PlaceEffect DEF Adopts
        <5>3. CASE CreateEnd(w)
          <6>1. Goto(w, "idle") BY <5>3 DEF CreateEnd, Idle
          <6> QED BY <1>1, <3>5, <6>1 DEF Goto, TypeOK
        <5> QED
          BY <1>3, <4>1, <5>1, <5>2, <5>3 DEF Adopts, RenameGone, Send, CheckHeld, Fail, Revise,
            RenameRetire
      <4> QED BY <3>1, <3>5, <4>2 DEF Adopts, Early
    <3> QED BY <1>1, <1>2, <3>3, <3>4, <3>5, AtWork, KindAt
  <2> QED BY <2>1 DEF LeftJob, Holds
<1> QED BY <1>0, <1>1, <1>7, <1>8, <1>9, LeftWorker

(* A step of the attempt that has the file to itself. *)
LEMMA LeftHolder ==
  ASSUME Inv, AllLeft, NEW w \in Workers, NEW f \in Files, f = F(w), Step(w), Holds(w),
         LeftFile(f)', LeftJob(w)'
  PROVE  AllLeftNext
<1>1. /\ pc[w] # "idle" /\ ncrash' = ncrash /\ MarksKept
      /\ \A v \in Workers : v # w => pc'[v] = pc[v] /\ job'[v] = job[v]
      /\ \A g \in Files : g # f => /\ LeftSame(g) /\ row'[g].owner = row[g].owner
                                   /\ MadeFor(g)' \subseteq MadeFor(g)
  BY StepAside
<1>2. \A v \in Workers : Holds(v) /\ F(v) = f => v = w BY DEF AllLeft, LeftJob
<1> QED BY <1>1, <1>2, LeftWorker

(* What there is to know where it takes a step. *)
LEMMA HolderFacts ==
  ASSUME Inv, AllLeft, NEW w \in Workers, NEW f \in Files, f = F(w), Holds(w)
  PROVE  /\ TypeOK /\ pc[w] # "idle" /\ row[f] \in Row /\ job[w] \in Job
         /\ JobFits(w) /\ CreateFits(w) /\ FileFits(f) /\ LeftFile(f) /\ LeftJob(w)
         /\ row[f].owner = w
         /\ job[w].kind \in {"create", "trash"}
         /\ pc[w] \in Early => job[w].kind = "create" /\ uid[f] = Local
         /\ pc[w] = "find" => row[f].kind = "trash" /\ uid[f] = Local
         /\ pc[w] \in Early \cup {"find"} => row[f].at = Local
         /\ \A v \in Workers : Holds(v) /\ F(v) = f => v = w
<1>1. /\ TypeOK /\ pc[w] # "idle" /\ row[f] \in Row /\ job[w] \in Job
      /\ JobFits(w) /\ CreateFits(w) /\ FileFits(f) /\ LeftFile(f) /\ LeftJob(w)
      /\ job[w].kind \in {"create", "trash"}
      /\ pc[w] \in Early => job[w].kind = "create" /\ uid[f] = Local
  BY HeldJob DEF AllLeft
<1>2. /\ row[f].owner = w /\ (pc[w] \in Early \cup {"find"} => row[f].at = Local)
      /\ pc[w] = "find" => row[f].kind = "trash"
  BY <1>1 DEF LeftJob, Early
<1>3. \A v \in Workers : Holds(v) /\ F(v) = f => v = w BY DEF AllLeft, LeftJob
<1> QED BY <1>1, <1>2, <1>3 DEF FileFits, RowFits

(* A step that leaves Drive and what is hidden alone. *)
LEMMA StillFile ==
  ASSUME Inv, AllLeft, NEW w \in Workers, NEW f \in Files, f = F(w), Step(w),
         LeftSame(f), UNCHANGED driveVars, hidden' = hidden, pc[w] \notin {"retire", "trash"}
  PROVE  LeftFile(f)' /\ \A g : MadeFor(g)' = MadeFor(g)
<1>1. /\ ncrash' = ncrash /\ \A v \in Workers : v # w => pc'[v] = pc[v] /\ job'[v] = job[v]
  BY StepAside
<1>2. LeftFound(f) BY <1>1, FoundKept
<1>3. MarksKept /\ \A g : MadeFor(g)' = MadeFor(g) BY Marks, MadeByStep
<1> QED BY <1>1, <1>2, <1>3, LeftFileFrame DEF AllLeft

(* What was made of a file that is alone is there to be found... *)
LEMMA AloneFinds ==
  ASSUME Inv, AllLeft, Alone, NEW w \in Workers, NEW f \in Files, f = F(w), Holds(w),
         pc[w] \in Early \cup {"find"}, NEW r \in MadeFor(f)
  PROVE  /\ r \in Twin(w, node[r].name) /\ node[r].name \in row[f].to
         /\ \A n : ~Creating(w, n)
<1>1. /\ TypeOK /\ LeftFile(f) /\ uid[f] = Local /\ row[f].at = Local /\ row[f] \in Row
      /\ \A v \in Workers : Holds(v) /\ F(v) = f => v = w
  BY HolderFacts
<1>2. /\ r \in Live /\ r \in 1 .. nnode /\ r # Local /\ node[r] \in Node
  <2>1. DriveType BY <1>1, TypeParts
  <2> QED BY <2>1, Constants DEF MadeFor, Live, DriveType
<1>3. Findable(f, r) BY <1>1, <1>2 DEF LeftFile
<1>4. r \notin hidden
  <2> SUFFICES ASSUME r \in hidden PROVE FALSE OBVIOUS
  <2>1. PICK v \in Workers : pc[v] = "trash" /\ job[v].node = r BY <1>3 DEF Findable
  <2>2. Holds(v) BY <2>1 DEF Holds
  <2>3. F(v) = f BY <2>2, HeldJob DEF Alone, Solo
  <2>4. v = w BY <1>1, <2>2, <2>3
  <2> QED BY <2>1, <2>4 DEF Early
<1>5. ~InTree(r)
  <2>1. \A g \in Files : g = f BY DEF Alone, Solo
  <2> QED BY <1>1, <1>2, <2>1 DEF InTree, LeftFile
<1>6. HoldsOurs(w, r) BY <1>3 DEF HoldsOurs, Findable
<1>7. Fresh(w, r)
  BY <1>3, <1>1, <1>2, RowFields, NodeFields, Constants DEF Findable, Fresh
<1>8. ASSUME NEW v \in Workers, v # w, pc[v] # "idle" PROVE job[v].kind # "create"
  <2>1. F(v) = f BY <1>8, AtWork DEF Alone, Solo
  <2>2. ~Holds(v) BY <1>1, <1>8, <2>1
  <2>3. uid[F(v)] # Local BY <1>8, <2>2, NotHolding
  <2> QED BY <1>1, <2>1, <2>3
<1> QED BY <1>2, <1>3, <1>4, <1>5, <1>6, <1>7, <1>8 DEF Twin, Unclaimed, Findable, Creating

(* ...and what is found was made of it... *)
LEMMA AloneMade ==
  ASSUME Inv, AllLeft, Alone, NEW w \in Workers, NEW f \in Files, f = F(w), Holds(w),
         NEW n, NEW r \in Twin(w, n)
  PROVE  r \in MadeFor(f) /\ \A s \in MadeFor(f) : s = r
<1>1. pc[w] # "idle" /\ LeftFile(f) /\ TypeOK BY HolderFacts
<1>2. /\ r \in 1 .. nnode /\ Ours(r) /\ r # Local /\ ~node[r].trashed BY <1>1, TwinOurs
<1>3. node[r].by \in Files BY <1>1, <1>2, NodeFields DEF Ours, TypeOK
<1>4. r \in MadeFor(f) BY <1>2, <1>3 DEF MadeFor, Live, Alone, Solo
<1> QED BY <1>1, <1>4 DEF LeftFile

(* ...and what is made of any other is in the attempt's hands. *)
LEMMA OthersFind ==
  ASSUME Inv, AllLeft, ~Alone, NEW w \in Workers, NEW f \in Files, f = F(w), Holds(w),
         pc[w] \in Early \cup {"find"}, pc[w] # "retire"
  PROVE  MadeFor(f) = {}
<1> SUFFICES ASSUME NEW r \in MadeFor(f) PROVE FALSE OBVIOUS
<1>1. /\ TypeOK /\ LeftFile(f) /\ uid[f] = Local /\ row[f].at = Local
      /\ \A v \in Workers : Holds(v) /\ F(v) = f => v = w
  BY HolderFacts
<1>2. r # Local BY <1>1, Constants DEF MadeFor, Live, TypeOK, Uid
<1>3. Held(f, r) BY <1>1, <1>2 DEF LeftFile
<1>4. PICK v \in Workers : pc[v] = "retire" /\ job[v].kind = "create" /\ F(v) = f BY <1>3 DEF Held
<1>5. Holds(v) BY <1>4 DEF Holds, Early
<1> QED BY <1>1, <1>4, <1>5

LEMMA HeldNext ==
  ASSUME NEW w \in Workers, NEW f \in Files
  PROVE  /\ job'[w].file = f /\ LeftHeld(w, f)' => LeftJob(w)'
         /\ F(w) = f /\ Holds(w) /\ LeftJob(w) => LeftHeld(w, f)
<1>1. ASSUME job'[w].file = f, LeftHeld(w, f)' PROVE LeftJob(w)'
  <2>1. F(w)' = f /\ MadeFor(F(w))' = MadeFor(f)' BY <1>1 DEF F, MadeFor
  <2> QED BY <1>1, <2>1 DEF LeftHeld, LeftJob
<1>2. F(w) = f /\ Holds(w) /\ LeftJob(w) => LeftHeld(w, f) BY DEF LeftHeld, LeftJob
<1> QED BY <1>1, <1>2

(* The folder is looked through, before it is sent and when the name is    *)
(* taken.                                                                  *)
LEMMA LeftLook ==
  ASSUME Inv, AllLeft, NEW w \in Workers, CreateLook(w) \/ CreateClash(w)
  PROVE  AllLeftNext
<1>1. /\ pc[w] \in {"twin", "clash"} /\ Step(w) /\ job[w].kind = "create" /\ pc[w] # "idle"
      /\ UNCHANGED <<dbVars, treeVars, callVars, sweepVars, driveVars, toldVars, boundVars>>
      /\ pc[w] \in Early
  BY LookEffect, KindAt DEF Step, Early
<1>2. Holds(w) /\ F(w) \in Files BY <1>1, AtWork DEF Holds
<1>3. PICK f \in Files : f = F(w) BY <1>2
<1>4. /\ TypeOK /\ LeftFile(f) /\ LeftJob(w) /\ row[f].at = Local /\ row[f].owner = w
      /\ uid[f] = Local
  BY <1>1, <1>2, <1>3, HolderFacts
<1>5. LeftHeld(w, f) BY <1>2, <1>3, <1>4, HeldNext
<1>6. /\ row' = row /\ hidden' = hidden BY <1>1 DEF dbVars, treeVars
<1>7. LeftFile(f)' /\ MadeFor(f)' = MadeFor(f)
  <2>1. LeftSame(f)
    BY <1>1, <1>4, StillSame DEF Still, dbVars, treeVars, callVars, sweepVars, toldVars
  <2> QED BY <1>1, <1>3, <1>6, <2>1, StillFile
<1>8. /\ pc'[w] \in {"fail", "note", "held", "retire"} /\ job'[w].file = f
      /\ job'[w].kind = "create" /\ job'[w].name = job[w].name
      /\ pc'[w] # "retire" => job' = job
      /\ pc'[w] = "retire" => /\ pc[w] \in {"twin", "clash"}
                              /\ \E n : \E r \in Twin(w, n) : job'[w].node = r
  <2>1. CASE job' = job /\ pc'[w] \in {"fail", "note", "held"} BY <1>1, <1>3, <2>1 DEF F
  <2>2. CASE pc'[w] = "retire"
    <3>0. PICK n \in row[f].to \cup {job[w].name} :
            \E r \in AdoptableTwin(w, n) : r \in 1 .. nnode /\ AdoptTwin(w, r)
      BY <1>3, <2>2, LookEffect
    <3>1. PICK r \in AdoptableTwin(w, n) : r \in 1 .. nnode /\ AdoptTwin(w, r) BY <3>0
    <3>2. SameOp(job[w], job'[w]) /\ job'[w].node = r BY <1>4, <3>1, AdoptEffect
    <3>3. r \in Twin(w, n) BY <3>1, AdoptableTwins
    <3> QED BY <1>1, <1>3, <2>2, <3>2, <3>3 DEF SameOp, F
  <2> QED BY <2>1, <2>2, LookEffect
<1>9. pc'[w] = "retire" => \A r \in MadeFor(f) : r = job'[w].node
  <2> SUFFICES ASSUME pc'[w] = "retire", NEW r \in MadeFor(f) PROVE r = job'[w].node OBVIOUS
  <2>1. Alone BY <1>1, <1>2, <1>3, OthersFind
  <2> QED BY <1>2, <1>3, <1>8, <2>1, AloneMade
<1>10. pc'[w] = "note" => /\ job[w].stage = "first" /\ job[w].node = Local
                          /\ \A r \in MadeFor(f) : Alone /\ node[r].name = job[w].name
  <2> SUFFICES ASSUME pc'[w] = "note" PROVE
        /\ job[w].stage = "first" /\ job[w].node = Local
        /\ \A r \in MadeFor(f) : Alone /\ node[r].name = job[w].name
    OBVIOUS
  <2>1. pc \in [Workers -> WorkerPc] /\ CreateLook(w) BY <1>4 DEF TypeOK, CreateClash, Goto
  <2>2. pc[w] = "twin" /\ EarlierTwin(w) = {} BY <2>1 DEF CreateLook, Goto
  <2>3. ASSUME NEW r \in MadeFor(f) PROVE Alone /\ node[r].name = job[w].name
    BY <1>1, <1>2, <1>3, <2>2, OthersFind, AloneFinds DEF AdoptableTwin, EarlierTwin
  <2> QED BY <1>5, <2>2, <2>3 DEF LeftHeld, Early
<1>11. pc'[w] = "held" => MadeFor(f) = {} /\ job[w].node = Local
  <2> SUFFICES ASSUME pc'[w] = "held" PROVE MadeFor(f) = {} /\ job[w].node = Local OBVIOUS
  <2>1. pc \in [Workers -> WorkerPc] /\ CreateClash(w) BY <1>4 DEF TypeOK, CreateLook, Goto
  <2>2. pc[w] = "clash" /\ AdoptableTwin(w, job[w].name) = {} BY <2>1 DEF CreateClash, Goto
  <2>3. ASSUME NEW r \in MadeFor(f) PROVE FALSE
    BY <1>5, <2>2, <1>1, <1>2, <1>3, AloneFinds DEF LeftHeld, AdoptableTwin
  <2> QED BY <1>5, <2>2, <2>3 DEF LeftHeld, Early
<1>12. LeftJob(w)'
  <2>1. \A r \in MadeFor(f)' : node'[r].name = node[r].name /\ (Alone' <=> Alone)
    BY <1>1 DEF driveVars, Alone, Solo
  <2>2. row'[f].kind = "trash" \/ row'[f].kind = "create" BY <1>5, <1>6 DEF LeftHeld
  <2>3. LeftHeld(w, f)'
    BY <1>4, <1>6, <1>7, <1>8, <1>9, <1>10, <1>11, <2>1, <2>2 DEF LeftHeld, Early
  <2> QED BY <1>8, <2>3, HeldNext
<1> QED BY <1>1, <1>2, <1>3, <1>7, <1>12, LeftHolder

(* What is about to be sent is noted. *)
LEMMA LeftNote ==
  ASSUME Inv, AllLeft, NEW w \in Workers, CreateNote(w)
  PROVE  AllLeftNext
<1>1. /\ pc[w] = "note" /\ Step(w) /\ job[w].kind = "create" /\ pc[w] # "idle" /\ pc[w] \in Early
      /\ UNCHANGED <<uid, treeVars, callVars, job, sweepVars, driveVars, toldVars>>
      /\ pc'[w] \in {"send", "fail"}
      /\ pc'[w] = "send" => job[w].blob \in staged \cup {Empty}
  BY NoteEffect, KindAt DEF Step, Early, CreateNote
<1>2. Holds(w) /\ F(w) \in Files BY <1>1, AtWork DEF Holds
<1>3. PICK f \in Files : f = F(w) BY <1>2
<1>4. /\ TypeOK /\ LeftFile(f) /\ LeftJob(w) /\ row[f].at = Local /\ row[f].owner = w
      /\ uid[f] = Local /\ row[f] \in Row
  BY <1>1, <1>2, <1>3, HolderFacts
<1>5. LeftHeld(w, f) BY <1>2, <1>3, <1>4, HeldNext
<1> DEFINE t == row[f].to \cup {SendName(w)}
           c == IF row[f].to = {} THEN ncrash ELSE row[f].first
           s == IF job[w].blob \in staged THEN row[f].sha \cup {job[w].blob} ELSE row[f].sha
<1>6. row'[f] = [row[f] EXCEPT !.to = t, !.first = c, !.sha = s]
  BY <1>3, <1>4 DEF CreateNote, TypeOK
<1> HIDE DEF t, c, s
<1>7. /\ row'[f].kind = row[f].kind /\ row'[f].at = row[f].at /\ row'[f].owner = row[f].owner
      /\ row'[f].to = t /\ row'[f].sha = s /\ row'[f].first = c
  BY <1>4, <1>6 DEF Row
<1>8. /\ row[f].to \subseteq t /\ SendName(w) \in t /\ row[f].sha \subseteq s
      /\ c <= ncrash /\ (row[f].to # {} => c = row[f].first)
      /\ job[w].blob \in staged => job[w].blob \in s
  BY <1>4, Constants DEF t, c, s, LeftFile, TypeOK
<1>9. LeftFile(f)' /\ MadeFor(f)' = MadeFor(f)
  <2>1. LeftSame(f) BY <1>1, <1>7, <1>8 DEF LeftSame, treeVars, callVars, sweepVars, toldVars
  <2>2. hidden' = hidden BY <1>1 DEF treeVars
  <2> QED BY <1>1, <1>3, <2>1, <2>2, StillFile
<1>10. LeftJob(w)'
  <2>1. \A r \in MadeFor(f)' : node'[r].name = node[r].name /\ (Alone' <=> Alone)
    BY <1>1 DEF driveVars, Alone, Solo
  <2>2. SendName(w)' = SendName(w) /\ job'[w].file = f BY <1>1, <1>3 DEF SendName, F, ConflictName
  <2>3. LeftHeld(w, f)' BY <1>1, <1>4, <1>5, <1>7, <1>8, <1>9, <2>1, <2>2 DEF LeftHeld, Early
  <2> QED BY <2>2, <2>3, HeldNext
<1> QED BY <1>1, <1>2, <1>3, <1>9, <1>10, LeftHolder, Zenon

(* Does a queued change free the name? *)
LEMMA LeftCheck ==
  ASSUME Inv, AllLeft, NEW w \in Workers, CheckHeld(w), job[w].kind = "create"
  PROVE  AllLeftNext
<1>1. /\ pc[w] = "held" /\ Step(w) /\ pc[w] # "idle" /\ pc[w] \in Early
      /\ UNCHANGED <<dbVars, treeVars, callVars, sweepVars, driveVars, toldVars, boundVars>>
      /\ pc'[w] \in {"note", "fail"} /\ SameOp(job[w], job'[w]) /\ job'[w].node = job[w].node
  BY HeldEffect DEF Step, Early, CheckHeld
<1>2. Holds(w) /\ F(w) \in Files BY <1>1, AtWork DEF Holds
<1>3. PICK f \in Files : f = F(w) BY <1>2
<1>4. /\ TypeOK /\ LeftFile(f) /\ LeftJob(w) /\ row[f].at = Local /\ row[f].owner = w
      /\ uid[f] = Local /\ job[w] \in Job
  BY <1>1, <1>2, <1>3, HolderFacts
<1>5. LeftHeld(w, f) BY <1>2, <1>3, <1>4, HeldNext
<1>6. pc'[w] = "note" => job'[w].stage = "again"
  <2>1. CASE NameIsHeld(w) BY <1>4, <2>1 DEF CheckHeld, Goto, TypeOK
  <2>2. CASE ~NameIsHeld(w)
    BY <2>2, <1>4 DEF CheckHeld, TypeOK, Job
  <2> QED BY <2>1, <2>2
<1>7. LeftFile(f)' /\ MadeFor(f)' = MadeFor(f) /\ row' = row
  <2>1. LeftSame(f) /\ hidden' = hidden /\ row' = row
    BY <1>1, <1>4, StillSame DEF Still, dbVars, treeVars, callVars, sweepVars, toldVars
  <2> QED BY <1>1, <1>3, <2>1, StillFile
<1>8. LeftJob(w)'
  <2>1. job'[w].file = f /\ job'[w].kind = "create" BY <1>1, <1>3 DEF F, SameOp
  <2>2. LeftHeld(w, f)' BY <1>1, <1>4, <1>5, <1>6, <1>7, <2>1 DEF LeftHeld, Early
  <2> QED BY <2>1, <2>2, HeldNext
<1> QED BY <1>1, <1>2, <1>3, <1>7, <1>8, LeftHolder

(* A name that is taken. *)
LEMMA TakenStage ==
  ASSUME Inv, NEW w \in Workers, pc[w] = "send", job[w].kind = "create", AfterTaken(w)
  PROVE  IF job[w].stage = "again" THEN pc'[w] = "note" /\ job'[w].stage = "alt"
         ELSE pc'[w] = "clash" /\ job'[w].stage = job[w].stage
<1>1. TypeOK /\ job[w] \in Job BY AtWork
<1> DEFINE t == IF job[w].stage = "again" THEN "alt" ELSE job[w].stage
<1>2. job' = [job EXCEPT ![w] = [job[w] EXCEPT !.stage = t]] BY DEF AfterTaken
<1> HIDE DEF t
<1>3. job'[w] = [job[w] EXCEPT !.stage = t] BY <1>1, <1>2 DEF TypeOK
<1>4. job'[w].stage = t BY <1>1, <1>3 DEF Job
<1>5. CASE job[w].stage = "again"
  <2>1. Goto(w, "note") BY <1>5 DEF AfterTaken
  <2> QED BY <1>1, <1>4, <1>5, <2>1 DEF Goto, TypeOK, t
<1>6. CASE job[w].stage # "again"
  <2>1. Goto(w, "clash") BY <1>6 DEF AfterTaken
  <2> QED BY <1>1, <1>4, <1>6, <2>1 DEF Goto, TypeOK, t
<1> QED BY <1>5, <1>6

(* The node of a create that is sent while none is there. *)
LEMMA LeftMade ==
  ASSUME Inv, AllLeft, hidden \subseteq 0 .. nnode, NEW w \in Workers, NEW f \in Files, f = F(w),
         Send(w), Holds(w), LeftHeld(w, f), job[w].kind = "create",
         NewNode(SendName(w), job[w].blob, f), ~Taken(SendName(w), job[w].node),
         \/ Alone
         \/ pc'[w] = "retire" /\ job'[w] \in Job /\ job'[w].kind = "create" /\ job'[w].file = f
            /\ job'[w].node = nnode + 1
  PROVE  LeftFile(f)' /\ MadeFor(f)' \subseteq {nnode + 1}
<1>1. /\ pc[w] = "send" /\ Step(w) /\ pc[w] \in Early /\ nnode \in Nat
      /\ UNCHANGED <<dbVars, treeVars, callVars, sweepVars, toldVars>>
  BY SendEffect DEF Step, Early, NewNode
<1>2. /\ TypeOK /\ LeftFile(f) /\ row[f].at = Local /\ uid[f] = Local /\ job[w].node = Local
      /\ JobFits(w)
  BY <1>1, HolderFacts DEF LeftHeld
<1>3. MadeFor(f) = {}
  <2> SUFFICES ASSUME NEW r \in MadeFor(f) PROVE FALSE OBVIOUS
  <2>1. r \in Live /\ r # Local BY <1>1, <1>2, Constants DEF MadeFor, Live
  <2>2. job[w].stage = "first" /\ node[r].name = job[w].name BY <1>1 DEF LeftHeld
  <2>3. SendName(w) = node[r].name BY <2>2 DEF SendName
  <2> QED BY <1>2, <2>1, <2>3 DEF Taken
<1>4. MadeFor(f)' \subseteq {nnode + 1} BY <1>3, MadeByStep
<1>5. ncrash' = ncrash BY <1>1, StepAside
<1>0. PICK q \in Nat : q = nnode + 1 BY <1>1
<1>6. ASSUME Alone PROVE Findable(f, q)'
  BY <1>2, <1>0, <1>1, RowFields, Constants DEF LeftHeld, LeftFile, treeVars, TypeOK, Findable,
    NewNode, dbVars
<1>7. ASSUME ~Alone PROVE Held(f, q)'
  <2>1. F(w)' = f BY <1>7 DEF F
  <2> QED BY <1>0, <1>7, <2>1 DEF Held
<1>8. (Alone' <=> Alone) /\ call[f] # "none" BY <1>2 DEF Alone, Solo, JobFits
<1>9. \A r \in MadeFor(f)' : r = q BY <1>0, <1>4
<1>10. \A r \in MadeFor(f)' : IF Alone THEN Findable(f, r)' ELSE Held(f, r)' BY <1>6, <1>7, <1>9
<1> QED
  BY <1>1, <1>2, <1>4, <1>5, <1>8, <1>9, <1>10 DEF LeftFile, dbVars, treeVars, callVars, sweepVars,
    toldVars, Alive

(* It is sent. *)
LEMMA LeftSend ==
  ASSUME Inv, AllLeft, hidden \subseteq 0 .. nnode, Alone \/ "answer" \notin Faults,
         NEW w \in Workers, Send(w), job[w].kind = "create"
  PROVE  AllLeftNext
<1>1. /\ pc[w] = "send" /\ Step(w) /\ pc[w] # "idle" /\ pc[w] \in Early
      /\ UNCHANGED <<dbVars, treeVars, callVars, sweepVars, toldVars>>
  BY SendEffect DEF Step, Early
<1>2. Holds(w) /\ F(w) \in Files BY <1>1, AtWork DEF Holds
<1>3. PICK f \in Files : f = F(w) BY <1>2
<1>4. /\ TypeOK /\ LeftFile(f) /\ LeftJob(w) /\ row[f].at = Local /\ row[f].owner = w
      /\ uid[f] = Local /\ job[w] \in Job
  BY <1>1, <1>2, <1>3, HolderFacts
<1>5. LeftHeld(w, f) BY <1>2, <1>3, <1>4, HeldNext
<1>6. row' = row /\ hidden' = hidden /\ LeftSame(f)
  BY <1>1, <1>4, StillSame DEF Still, dbVars, treeVars, callVars, sweepVars, toldVars
<1>7. ASSUME UNCHANGED driveVars
      PROVE  LeftFile(f)' /\ MadeFor(f)' = MadeFor(f)
             /\ \A r \in MadeFor(f)' : node'[r].name = node[r].name /\ (Alone' <=> Alone)
  BY <1>1, <1>3, <1>6, <1>7, StillFile DEF driveVars, Alone, Solo
<1>8. CASE AfterTaken(w) /\ UNCHANGED driveVars
  <2>1. /\ job'[w].file = f /\ job'[w].kind = "create" /\ job'[w].name = job[w].name
        /\ job'[w].node = job[w].node
    BY <1>1, <1>3, <1>8, TakenEffect DEF F, SameOp
  <2>2. IF job[w].stage = "again" THEN pc'[w] = "note" /\ job'[w].stage = "alt"
        ELSE pc'[w] = "clash" /\ job'[w].stage = job[w].stage
    BY <1>1, <1>8, TakenStage
  <2>3. LeftHeld(w, f)'
    BY <1>1, <1>4, <1>5, <1>6, <1>7, <1>8, <2>1, <2>2, JobFields DEF LeftHeld, Early
  <2> QED BY <1>1, <1>2, <1>3, <1>7, <1>8, <2>1, <2>3, HeldNext, LeftHolder
<1>9. ASSUME pc'[w] = "fail", job' = job PROVE LeftJob(w)'
  <2>1. LeftHeld(w, f)' /\ job'[w].file = f BY <1>3, <1>4, <1>5, <1>6, <1>9 DEF LeftHeld, Early, F
  <2> QED BY <2>1, HeldNext
<1>10. CASE UNCHANGED driveVars /\ pc'[w] = "fail" /\ job' = job
  BY <1>1, <1>2, <1>3, <1>7, <1>9, <1>10, LeftHolder
<1>11. CASE Applied(w) /\ pc'[w] \in {"retire", "fail"}
  <2>0. NewNode(SendName(w), job[w].blob, f) BY <1>1, <1>3, <1>11, AppliedEffect
  <2>4. ~UNCHANGED driveVars
    <3>1. nnode' # nnode BY <2>0 DEF NewNode
    <3> QED BY <3>1 DEF driveVars
  <2>1. ~Taken(SendName(w), job[w].node) BY <2>4 DEF Send
  <2>2. CASE pc'[w] = "fail"
    <3>1. job' = job /\ "answer" \in Faults
      <4>1. ~AfterTaken(w) BY <1>1, <2>2, TakenEffect
      <4> QED BY <2>2, <2>4, <4>1, SendEffect
    <3>2. Alone BY <3>1
    <3>3. LeftFile(f)' BY <1>2, <1>3, <1>5, <2>0, <2>1, <3>2, LeftMade
    <3> QED BY <1>1, <1>2, <1>3, <1>9, <2>2, <3>1, <3>3, LeftHolder
  <2>3. CASE pc'[w] = "retire"
    <3>1. /\ job'[w] \in Job /\ SameOp(job[w], job'[w]) /\ job'[w].node = nnode + 1
      BY <1>1, <1>11, <2>3, SendEffect, TakenEffect DEF OneJob
    <3>2. job'[w].kind = "create" /\ job'[w].file = f BY <1>3, <3>1 DEF SameOp, F
    <3>3. LeftFile(f)' /\ MadeFor(f)' \subseteq {nnode + 1}
      BY <1>2, <1>3, <1>5, <2>0, <2>1, <2>3, <3>1, <3>2, LeftMade
    <3>4. LeftHeld(w, f)' BY <1>1, <1>4, <1>5, <1>6, <2>3, <3>1, <3>2, <3>3 DEF LeftHeld, Early
    <3>5. LeftJob(w)' BY <3>2, <3>4, HeldNext
    <3> QED BY <1>1, <1>2, <1>3, <3>3, <3>5, LeftHolder
  <2> QED BY <1>11, <2>2, <2>3
<1> QED BY <1>8, <1>10, <1>11, SendEffect

(* The attempt fails, and gives its file back. *)
LEMMA LeftFail ==
  ASSUME Inv, AllLeft, NEW w \in Workers, Fail(w), Holds(w)
  PROVE  AllLeftNext
<1>1. /\ pc[w] = "fail" /\ Step(w) /\ pc'[w] = "idle"
      /\ UNCHANGED <<uid, treeVars, callVars, sweepVars, driveVars, toldVars>>
  BY FailEffect DEF Step, Fail, OnePc
<1>2. F(w) \in Files BY <1>1, AtWork
<1>3. PICK f \in Files : f = F(w) BY <1>2
<1>4. TypeOK /\ LeftFile(f) /\ row[f] \in Row /\ job[w].kind \in {"create", "trash"}
  BY <1>3, HolderFacts
<1>5. /\ row'[f].kind = row[f].kind /\ row'[f].at = row[f].at /\ row'[f].to = row[f].to
      /\ row'[f].sha = row[f].sha /\ row'[f].first = row[f].first
  <2> DEFINE t == IF row[f].kind = job[w].kind THEN Grown(row[f].tries) ELSE row[f].tries
  <2>1. CASE row' = row BY <2>1
  <2>2. CASE row' # row
    <3>1. row'[f] = [row[f] EXCEPT !.owner = NoOne, !.tries = t]
      BY <1>3, <1>4, <2>2 DEF Fail, TypeOK
    <3> HIDE DEF t
    <3> QED BY <1>4, <3>1 DEF Row
  <2> QED BY <2>1, <2>2
<1>6. LeftFile(f)'
  <2>1. LeftSame(f) /\ hidden' = hidden
    BY <1>1, <1>4, <1>5, RowSame DEF treeVars, callVars, sweepVars, toldVars
  <2> QED BY <1>1, <1>3, <2>1, StillFile
<1>7. LeftJob(w)'
  <2>1. job'[w].kind = "create" BY <1>1, StepJob DEF NoJob
  <2> QED BY <1>1, <2>1 DEF LeftJob, Holds, Early
<1> QED BY <1>1, <1>3, <1>6, <1>7, LeftHolder, Zenon

(* The create has landed, or was deleted meanwhile. *)
LEMMA LeftRetire ==
  ASSUME Inv, AllLeft, NEW w \in Workers, CreateRetire(w)
  PROVE  AllLeftNext
<1>1. /\ pc[w] = "retire" /\ job[w].kind = "create" /\ Step(w) /\ pc[w] \in Early
      /\ UNCHANGED <<treeUid, callVars, sweepVars, driveVars, toldVars>> /\ job' = job
  BY DEF Step, CreateRetire, Early
<1>2. F(w) \in Files /\ Holds(w) BY <1>1, AtWork DEF Holds
<1>3. PICK f \in Files : f = F(w) BY <1>2
<1>4. /\ TypeOK /\ LeftFile(f) /\ row[f] \in Row /\ row[f].owner = w /\ LeftJob(w) /\ CreateFits(w)
      /\ uid[f] = Local /\ row[f].at = Local
  BY <1>1, <1>2, <1>3, HolderFacts
<1>5. LeftHeld(w, f) /\ ncrash' = ncrash /\ 0 <= ncrash /\ job[w].node # Local
  BY <1>1, <1>2, <1>3, <1>4, HeldNext, StepAside, Constants DEF CreateFits, TypeOK
<1>6. \A g : MadeFor(g)' = MadeFor(g) BY <1>1, MadeByStep
<1>7. \A r \in MadeFor(f)' : r = job[w].node BY <1>1, <1>5, <1>6 DEF LeftHeld
<1>8. CASE row[f].kind = "create"
  <2>1. pc'[w] = "repoint" /\ uid'[f] = job[w].node BY <1>3, <1>8, RetireEffect
  <2>2. row'[f].first = 0 /\ row'[f].kind # "create"
    <3>1. row'[f] = Retired(w) BY <1>3, <1>4, <1>8 DEF CreateRetire, TypeOK
    <3> QED BY <3>1 DEF Retired, NoRow
  <2>3. Alive(f) BY <1>4, <1>8 DEF LeftFile
  <2>4. LeftFile(f)'
    BY <1>1, <1>4, <1>5, <1>6, <1>7, <2>1, <2>2, <2>3 DEF LeftFile, Alive, callVars, sweepVars,
      toldVars
  <2>5. LeftJob(w)' BY <1>1, <2>1 DEF LeftJob, Holds, Early
  <2> QED BY <1>1, <1>2, <1>3, <2>4, <2>5, LeftHolder
<1>9. CASE row[f].kind # "create"
  <2>1. row[f].kind = "trash" BY <1>5, <1>9 DEF LeftHeld
  <2>2. /\ uid' = uid /\ pc'[w] = "trash"
        /\ row'[f] = [row[f] EXCEPT !.at = job[w].node, !.name = job[w].seen]
    BY <1>3, <1>4, <2>1 DEF CreateRetire, TypeOK, Goto
  <2>3. /\ row'[f].kind = "trash" /\ row'[f].owner = w /\ row'[f].at = job[w].node
        /\ row'[f].first = row[f].first
    BY <1>4, <2>1, <2>2 DEF Row
  <2>4. LeftFile(f)'
    BY <1>1, <1>4, <1>5, <1>6, <1>7, <2>2, <2>3 DEF LeftFile, Alive, callVars, sweepVars, toldVars
  <2>5. LeftHeld(w, f)' /\ job'[w].file = f BY <1>1, <1>3, <1>7, <2>2, <2>3 DEF LeftHeld, Early, F
  <2> QED BY <1>1, <1>2, <1>3, <2>4, <2>5, HeldNext, LeftHolder
<1> QED BY <1>8, <1>9

(* The node is adopted before it is trashed. *)
LEMMA LeftAdopt ==
  ASSUME Inv, AllLeft, NEW w \in Workers, AdoptAsk(w) \/ AdoptRead(w) \/ AdoptPlace(w), Holds(w)
  PROVE  AllLeftNext
<1>1. /\ pc[w] \in Adopts /\ Step(w)
      /\ UNCHANGED <<dbVars, hidden, callVars, sweepVars, driveVars, toldVars>>
      /\ SameOp(job[w], job'[w]) /\ job'[w].node = job[w].node
  BY AskEffect, ReadEffect, PlaceEffect DEF Step, AdoptAsk, AdoptRead, AdoptPlace, Adopts, SameOp,
    treeVars
<1>2. PICK f \in Files : f = F(w) BY <1>1, AtWork DEF Adopts
<1>3. /\ TypeOK /\ LeftFile(f) /\ FileFits(f) /\ row[f] \in Row /\ row[f].owner = w /\ LeftJob(w)
      /\ JobFits(w)
  BY <1>2, HolderFacts
<1>4. LeftHeld(w, f) /\ job[w].kind = "trash"
  BY <1>1, <1>2, <1>3, HeldNext DEF Holds, Early, Adopts
<1>5. row[f].kind = "trash" /\ job[w].node = uid[f] /\ uid[f] # Local /\ row[f].at = uid[f]
  BY <1>1, <1>2, <1>3, <1>4 DEF LeftHeld, Early, Adopts, JobFits, FileFits, RowFits
<1>6. treeUid'[f] \in {treeUid[f], uid[f]}
  <2>1. CASE AdoptPlace(w) BY <1>2, <1>3, <1>5, <2>1 DEF AdoptPlace, TypeOK
  <2>2. CASE ~AdoptPlace(w) BY <2>2 DEF AdoptAsk, AdoptRead, treeVars
  <2> QED BY <2>1, <2>2
<1>7. row' = row /\ uid' = uid /\ LeftSame(f)
  BY <1>1, <1>3, <1>6, RowSame DEF dbVars, callVars, sweepVars, toldVars
<1>8. LeftFile(f)' /\ MadeFor(f)' = MadeFor(f) BY <1>1, <1>2, <1>7, StillFile DEF Adopts
<1>9. pc'[w] \in {"read", "place", "fail", "trash"} BY <1>4, AskEffect, ReadEffect, PlaceEffect
<1>10. \A r \in MadeFor(f)' : r = job'[w].node BY <1>1, <1>3, <1>5, <1>8 DEF LeftFile
<1>11. LeftHeld(w, f)' /\ job'[w].file = f
  BY <1>1, <1>2, <1>3, <1>5, <1>7, <1>9, <1>10 DEF LeftHeld, Early, SameOp, F
<1> QED BY <1>1, <1>2, <1>8, <1>11, HeldNext, LeftHolder

(* The node a withdrawn create may have made is looked for. *)
LEMMA LeftFind ==
  ASSUME Inv, AllLeft, NEW w \in Workers, TrashFind(w)
  PROVE  AllLeftNext
<1>1. /\ pc[w] = "find" /\ job[w].kind = "trash" /\ Step(w) /\ pc[w] # "idle"
      /\ UNCHANGED <<dbVars, treeUid, callVars, sweepVars, driveVars, toldVars>>
      /\ SameOp(job[w], job'[w])
  BY FindEffect DEF Step, TrashFind
<1>2. Holds(w) /\ F(w) \in Files BY <1>1, AtWork DEF Holds
<1>3. PICK f \in Files : f = F(w) BY <1>2
<1>4. /\ TypeOK /\ LeftFile(f) /\ row[f] \in Row /\ row[f].owner = w /\ LeftJob(w)
      /\ row[f].kind = "trash" /\ uid[f] = Local /\ row[f].at = Local
  BY <1>1, <1>2, <1>3, HolderFacts
<1>5. row' = row /\ uid' = uid /\ LeftSame(f) /\ ncrash' = ncrash /\ job'[w].file = f
  BY <1>1, <1>3, <1>4, StillSame, StepAside DEF Still, dbVars, callVars, sweepVars, toldVars,
    SameOp, F
<1>6. MarksKept /\ \A g : MadeFor(g)' = MadeFor(g) BY <1>1, Marks, MadeByStep
<1>7. CASE pc'[w] = "trashed" /\ job' = job /\ hidden' = hidden
  <2>1. LeftFile(f)' BY <1>1, <1>3, <1>5, <1>7, StillFile
  <2>2. ASSUME NEW r \in MadeFor(f) PROVE FALSE
    <3>1. Alone BY <1>1, <1>2, <1>3, OthersFind
    <3>2. r \in Twin(w, node[r].name) /\ node[r].name \in row[f].to
      BY <1>1, <1>2, <1>3, <3>1, AloneFinds
    <3>3. r # Local BY <1>4, Constants DEF MadeFor, Live, TypeOK, Uid
    <3>4. \A g \in Files : uid[g] # r BY <1>4, <3>1, <3>3 DEF Alone, Solo
    <3>5. r \in WithdrawnTwin(w) BY <1>3, <3>2, <3>4 DEF WithdrawnTwin
    <3>6. Goto(w, "trash") BY <3>5 DEF TrashFind
    <3> QED BY <1>4, <1>7, <3>6 DEF Goto, TypeOK
  <2>3. LeftHeld(w, f)' BY <1>4, <1>5, <1>6, <1>7, <2>2 DEF LeftHeld, Early
  <2> QED BY <1>1, <1>2, <1>3, <1>5, <2>1, <2>3, HeldNext, LeftHolder
<1>8. ASSUME pc'[w] = "trash", NEW n, NEW r \in Twin(w, n), job'[w].node = r,
             hidden' = hidden \cup {r}
      PROVE  AllLeftNext
  <2>1. \A x \in MadeFor(f) : x = r BY <1>1, <1>2, <1>3, <1>8, OthersFind, AloneMade
  <2>2. ASSUME NEW x \in MadeFor(f)', IF Alone THEN Findable(f, x) ELSE Held(f, x)
        PROVE  IF Alone THEN Findable(f, x)' ELSE Held(f, x)'
    BY <1>6, <2>1, <2>2, <1>1, <1>2, <1>3, OthersFind, <1>8, <1>5 DEF Findable, driveVars
  <2>3. LeftFound(f) BY <2>2 DEF LeftFound
  <2>4. LeftFile(f)' BY <1>4, <1>5, <1>6, <2>3, LeftFileFrame
  <2>5. LeftHeld(w, f)' BY <1>4, <1>5, <1>6, <1>8, <2>1 DEF LeftHeld, Early
  <2> QED BY <1>1, <1>2, <1>3, <1>5, <2>4, <2>5, HeldNext, LeftHolder
<1> QED BY <1>7, <1>8, FindEffect

(* The node goes, or is kept for another attempt. *)
LEMMA LeftTrashSend ==
  ASSUME Inv, AllLeft, NEW w \in Workers, TrashSend(w)
  PROVE  AllLeftNext
<1>1. /\ pc[w] = "trash" /\ Step(w) /\ pc[w] # "idle" /\ job' = job
      /\ UNCHANGED <<dbVars, treeVars, callVars, sweepVars, toldVars>>
      /\ job[w].node \in 1 .. nnode
  BY TrashSendEffect DEF Step, TrashSend
<1>2. Holds(w) /\ F(w) \in Files BY <1>1, AtWork DEF Holds
<1>3. PICK f \in Files : f = F(w) BY <1>2
<1>4. /\ TypeOK /\ LeftFile(f) /\ row[f] \in Row /\ row[f].owner = w /\ LeftJob(w)
      /\ job[w].kind \in {"create", "trash"}
      /\ \A v \in Workers : Holds(v) /\ F(v) = f => v = w
  BY <1>2, <1>3, HolderFacts
<1>5. LeftHeld(w, f) /\ row[f].kind = "trash"
  BY <1>1, <1>2, <1>3, <1>4, HeldNext DEF LeftHeld, Early
<1>6. /\ row' = row /\ uid' = uid /\ hidden' = hidden /\ LeftSame(f) /\ job'[w].file = f
      /\ ncrash' = ncrash /\ MarksKept
      /\ \A v \in Workers : v # w => pc'[v] = pc[v] /\ job'[v] = job[v]
  BY <1>1, <1>3, <1>4, StillSame, StepAside DEF Still, dbVars, treeVars, callVars, sweepVars,
    toldVars, F
<1>7. \A r \in MadeFor(f) : r = job[w].node BY <1>1, <1>5 DEF LeftHeld
<1>8. CASE pc'[w] = "trashed" /\ ChangedNode(job[w].node, node[job[w].node].body, TRUE)
  <2>1. MadeFor(f)' = {}
    <3>1. MadeFor(f)' \subseteq MadeFor(f) BY <1>6, <1>8, MadeByStep DEF ChangedNode
    <3>2. job[w].node \notin MadeFor(f)' BY <1>1, <1>8 DEF ChangedNode, MadeFor, Live
    <3> QED BY <1>7, <3>1, <3>2
  <2>2. LeftFile(f)'
    <3>1. LeftFound(f) BY <2>1 DEF LeftFound
    <3> QED BY <1>4, <1>6, <2>1, <3>1, LeftFileFrame
  <2>3. LeftHeld(w, f)' BY <1>4, <1>5, <1>6, <1>8, <2>1 DEF LeftHeld, Early
  <2> QED BY <1>1, <1>2, <1>3, <1>6, <2>2, <2>3, HeldNext, LeftHolder
<1>9. CASE pc'[w] = "fail" /\ UNCHANGED driveVars
  <2>1. \A g : MadeFor(g)' = MadeFor(g) BY <1>9, MadeByStep
  <2>2. ASSUME NEW r \in MadeFor(f)', IF Alone THEN Findable(f, r) ELSE Held(f, r)
        PROVE  IF Alone THEN Findable(f, r)' ELSE Held(f, r)'
    <3>1. CASE Alone
      <4>1. row[f].at = Local BY <2>2, <3>1 DEF Findable
      <4>2. "trash twin" \in Faults
        <5>1. ~Goto(w, "trashed") BY <1>4, <1>9 DEF Goto, TypeOK
        <5> QED BY <1>3, <4>1, <5>1 DEF TrashSend, Fault
      <4> QED BY <3>1, <4>2 DEF Alone
    <3>2. CASE ~Alone
      <4>1. PICK v \in Workers : /\ pc[v] = "retire" /\ job[v].kind = "create" /\ F(v) = f
                                 /\ job[v].node = r
        BY <2>2, <3>2 DEF Held
      <4>2. v # w BY <1>1, <4>1
      <4>3. Held(f, r)' BY <1>6, <4>1, <4>2 DEF Held, F
      <4> QED BY <3>2, <4>3
    <3> QED BY <3>1, <3>2
  <2>3. LeftFile(f)'
    <3>1. LeftFound(f) BY <2>2 DEF LeftFound
    <3> QED BY <1>4, <1>6, <2>1, <3>1, LeftFileFrame
  <2>4. LeftHeld(w, f)' BY <1>4, <1>5, <1>6, <1>9 DEF LeftHeld, Early
  <2> QED BY <1>1, <1>2, <1>3, <1>6, <2>3, <2>4, HeldNext, LeftHolder
<1> QED BY <1>8, <1>9, TrashSendEffect

(* The trash is done with. *)
LEMMA LeftTrashRetire ==
  ASSUME Inv, AllLeft, NEW w \in Workers, TrashRetire(w),
         Alone \/ \A g \in Files : MadeBy(uid[g], g)
  PROVE  AllLeftNext
<1>1. /\ pc[w] = "trashed" /\ Step(w) /\ pc[w] # "idle"
      /\ UNCHANGED <<uid, treeVars, callVars, sweepVars, driveVars, toldVars>>
  BY DEF Step, TrashRetire
<1>2. Holds(w) /\ F(w) \in Files BY <1>1, AtWork DEF Holds
<1>3. PICK f \in Files : f = F(w) BY <1>2
<1>4. TypeOK /\ LeftFile(f) /\ row[f] \in Row /\ row[f].owner = w /\ LeftJob(w) /\ FileFits(f)
  BY <1>2, <1>3, HolderFacts
<1>5. LeftHeld(w, f) /\ ncrash' = ncrash /\ 0 <= ncrash
  BY <1>1, <1>2, <1>3, <1>4, HeldNext, StepAside, Constants DEF TypeOK
<1>6. MadeFor(f)' = {} /\ MadeFor(f) = {} BY <1>1, <1>5, MadeByStep DEF LeftHeld
<1>7. uid[f] # Local => node[uid[f]].trashed
  <2> SUFFICES ASSUME uid[f] # Local PROVE node[uid[f]].trashed OBVIOUS
  <2>1. uid[f] \in 1 .. nnode BY <1>4, Constants DEF TypeOK, FileFits, Uid
  <2>2. node[uid[f]].by = f
    <3>1. CASE Alone
      <4>1. node[uid[f]].by \in Files BY <1>4, <2>1, NodeFields DEF Inv, NotTheirs, Ours, TypeOK
      <4> QED BY <3>1, <4>1 DEF Alone, Solo
    <3> QED BY <3>1 DEF MadeBy
  <2> QED BY <1>6, <2>1, <2>2 DEF MadeFor, Live
<1>8. row'[f] = NoRow BY <1>3, <1>4 DEF TrashRetire, TypeOK
<1>9. LeftFile(f)'
  BY <1>1, <1>4, <1>5, <1>6, <1>7, <1>8 DEF LeftFile, NoRow, Alive, treeVars, callVars, sweepVars,
    driveVars, toldVars
<1>10. LeftJob(w)'
  <2>1. Goto(w, "idle") /\ job' = [job EXCEPT ![w] = NoJob] BY DEF TrashRetire, Idle
  <2>2. pc'[w] = "idle" /\ job'[w] = NoJob BY <1>4, <2>1, IdleEffect
  <2> QED BY <2>2 DEF LeftJob, Holds, Early, NoJob
<1> QED BY <1>1, <1>2, <1>3, <1>9, <1>10, LeftHolder

(* A worker takes a step. *)
LEMMA LeftStep ==
  ASSUME Inv, AllLeft, hidden \subseteq 0 .. nnode, Alone \/ (Quiet /\ QuietInv),
         NEW w \in Workers, Step(w)
  PROVE  AllLeftNext
<1>1. /\ Alone \/ "answer" \notin Faults
      /\ Alone \/ \A g \in Files : MadeBy(uid[g], g)
  BY QuietSteps DEF Inv, QuietInv, QuietFile
<1>2. CASE ~Holds(w) BY <1>2, LeftFree
<1>3. CASE Holds(w)
  <2>1. /\ JobFits(w) /\ job[w].kind \in {"create", "trash"}
        /\ pc[w] \in Early => job[w].kind = "create"
    BY <1>3, HeldJob
  <2>2. pc[w] \notin {"repoint", "discard", "revise"}
    <3>1. CASE job[w].kind = "trash" BY <2>1, <3>1, Ways DEF JobFits
    <3>2. CASE job[w].kind = "create"
      <4>1. pc[w] # "revise" BY <2>1, <3>2, Ways DEF JobFits
      <4> QED BY <1>3, <3>2, <4>1 DEF Holds, Early
    <3> QED BY <2>1, <3>1, <3>2
  <2>3. ~(RenameGone(w) \/ RenameRetire(w) \/ Repoint(w) \/ CreateEnd(w) \/ Revise(w))
    BY <2>1, <2>2 DEF RenameGone, Renameless, RenameRetire, Repoint, CreateEnd, Revise
  <2>4. CASE CreateLook(w) \/ CreateClash(w) BY <2>4, LeftLook
  <2>5. CASE CreateNote(w) BY <2>5, LeftNote
  <2>6. CASE Send(w)
    <3>1. job[w].kind = "create" BY <2>1, <2>6 DEF Send, Early
    <3> QED BY <1>1, <2>6, <3>1, LeftSend
  <2>7. CASE CheckHeld(w)
    <3>1. job[w].kind = "create" BY <2>1, <2>7 DEF CheckHeld, Early
    <3> QED BY <2>7, <3>1, LeftCheck
  <2>8. CASE Fail(w) BY <1>3, <2>8, LeftFail
  <2>9. CASE CreateRetire(w) BY <2>9, LeftRetire
  <2>10. CASE AdoptAsk(w) \/ AdoptRead(w) \/ AdoptPlace(w) BY <1>3, <2>10, LeftAdopt
  <2>11. CASE TrashFind(w) BY <2>11, LeftFind
  <2>12. CASE TrashSend(w) BY <2>12, LeftTrashSend
  <2>13. CASE TrashRetire(w) BY <1>1, <2>13, LeftTrashRetire
  <2> QED BY <2>3, <2>4, <2>5, <2>6, <2>7, <2>8, <2>9, <2>10, <2>11, <2>12, <2>13 DEF Step
<1> QED BY <1>2, <1>3

(* The user's calls. *)
LEMMA LeftUserNext ==
  ASSUME Inv, AllLeft, Whole', UserNext
  PROVE  AllLeftNext
<1>1. PICK f \in Files : UserStep(f) BY DEF UserNext, UserStep
<1>2. CASE \E n \in Names : Mint(f, n) \/ MintUnanswered(f, n) BY <1>2, LeftMint
<1>3. CASE RenameEnd(f) \/ \E n \in Names : RenameStart(f, n) BY <1>3, LeftRename
<1>4. CASE Intern(f) \/ Open(f) \/ Close(f) \/ Walk(f) BY <1>4, LeftOpen
<1>5. CASE Release(f) BY <1>5, LeftRelease
<1>6. CASE DeleteLocal(f) BY <1>6, LeftDeleteLocal
<1>7. CASE DeleteLanded(f) \/ DeleteReal(f) BY <1>7, LeftDelete
<1> QED BY <1>1, <1>2, <1>3, <1>4, <1>5, <1>6, <1>7 DEF UserStep

LEMMA LeftNext ==
  ASSUME Alone \/ Quiet
  PROVE  Inv /\ LeftInv /\ (Alone \/ QuietInv) /\ [Next]_vars => LeftInv'
<1> SUFFICES ASSUME Inv, LeftInv, Alone \/ QuietInv, [Next]_vars PROVE LeftInv' OBVIOUS
<1>1. hidden' \subseteq 0 .. nnode' /\ (SentInline' # {} => "inline" \in Faults)
  BY HiddenNext, InlineNext DEF LeftInv
<1> SUFFICES ASSUME Whole' PROVE AllLeftNext BY <1>1 DEF LeftInv, AllLeftNext
<1>2. AllLeft /\ hidden \subseteq 0 .. nnode BY WholeNext DEF LeftInv, AllLeft
<1>3. CASE UserNext BY <1>2, <1>3, LeftUserNext
<1>4. CASE SweepNext BY <1>2, <1>4, LeftSweep DEF SweepNext
<1>5. CASE \E w \in Workers : Step(w) BY <1>2, <1>5, LeftStep
<1>6. CASE \E w \in Workers, f \in Files : ClaimRow(w, f) \/ ClaimRename(w, f)
  BY <1>2, <1>6, LeftClaimRow, LeftClaimRename
<1>7. CASE \E n \in Names : ForeignCreate(n) BY <1>2, <1>7, LeftForeign
<1>8. CASE Crash
  <2>1. Alone BY <1>8, QuietSteps DEF Inv
  <2>2. torn' \cap Files = {} BY DEF Whole
  <2> QED BY <1>2, <1>8, <2>1, <2>2, LeftCrash
<1>9. CASE UNCHANGED vars
  <2>1. \A f \in Files : MadeFor(f)' = MadeFor(f) /\ (Alive(f)' <=> Alive(f))
    BY <1>9 DEF vars, driveVars, callVars, MadeFor, Live, Alive
  <2>2. ASSUME NEW f \in Files PROVE LeftFile(f)'
    <3>1. ASSUME NEW r, Findable(f, r) PROVE Findable(f, r)'
      BY <1>9, <3>1 DEF vars, dbVars, treeVars, driveVars, drainVars, Findable
    <3>2. ASSUME NEW r, Held(f, r) PROVE Held(f, r)' BY <1>9, <3>2 DEF vars, drainVars, Held, F
    <3>3. LeftFile(f) /\ (Alone' <=> Alone) BY <1>2 DEF AllLeft, Alone, Solo
    <3> QED
      BY <1>9, <2>1, <3>1, <3>2, <3>3 DEF LeftFile, vars, dbVars, treeVars, callVars, sweepVars,
        toldVars, driveVars, boundVars
  <2>3. ASSUME NEW w \in Workers PROVE LeftJob(w)'
    <3>1. JobSame(w)
      <4>1. Holds(w) => RowHeld(F(w))
        <5> SUFFICES ASSUME Holds(w) PROVE RowHeld(F(w)) OBVIOUS
        <5>1. F(w) \in Files /\ F(w)' = F(w) BY <1>9, HeldJob DEF vars, drainVars, F
        <5>2. MadeFor(F(w))' = MadeFor(F(w)) BY <1>9, <5>1 DEF vars, driveVars, MadeFor, Live
        <5> QED BY <1>9, <5>1, <5>2 DEF RowHeld, vars, dbVars, driveVars
      <4> QED BY <1>9, <4>1 DEF JobSame, vars, drainVars
    <3> QED BY <1>2, <3>1, LeftJobFrame DEF AllLeft
  <2> QED BY <2>2, <2>3 DEF AllLeftNext
<1> QED BY <1>3, <1>4, <1>5, <1>6, <1>7, <1>8, <1>9 DEF Next

LEMMA LeftInit == Init => LeftInv
<1> SUFFICES ASSUME Init PROVE LeftInv OBVIOUS
<1>1. nnode = 0 /\ \A r \in 1 .. nnode : FALSE BY DEF Init
<1>2. hidden = {} /\ SentInline = {} BY <1>1 DEF Init, SentInline
<1>3. ASSUME NEW f \in Files PROVE LeftFile(f)
  BY <1>1 DEF MadeFor, Live, Init, LeftFile, NoRow
<1>4. \A w \in Workers : LeftJob(w) BY DEF Init, LeftJob, Holds, Early, NoJob
<1> QED BY <1>2, <1>3, <1>4 DEF LeftInv

(* With no attempt left, a node is that of the file it was made for. *)
LEMMA LeftEnds ==
  ASSUME Alone \/ Quiet, LeftInv
  PROVE  NothingLeftBehind
<1> SUFFICES ASSUME torn = {},
                    \A f \in Files : Settled(f) /\ call[f] \in {"none", "idle", "gone"},
                    NEW r \in Live, node[r].by \in Files \ SentInline
             PROVE  \E f \in Files \ deleted : uid[f] = r
  BY DEF NothingLeftBehind
<1>1. PICK f \in Files \ SentInline : f = node[r].by OBVIOUS
<1>2. SentInline \cap Files = {}
  <2>1. CASE Alone BY <1>1, <2>1 DEF Alone, Solo
  <2>2. CASE Quiet BY <2>2 DEF Quiet, LeftInv
  <2> QED BY <2>1, <2>2
<1>3. LeftFile(f) /\ r \in MadeFor(f) BY <1>1, <1>2 DEF LeftInv, Whole, MadeFor
<1>4. row[f].kind = "none" /\ \A w \in Workers : pc[w] # "idle" => F(w) # f
  <2>1. Settled(f) BY <1>1
  <2>2. row[f].kind = "none" /\ At(f) = {} BY <2>1 DEF Settled
  <2> QED BY <2>2 DEF At, F
<1>5. uid[f] # Local BY <1>3, <1>4 DEF LeftFile, Findable, Held
<1>6. r = uid[f] /\ ~node[r].trashed BY <1>3, <1>5, Zenon DEF LeftFile, Live
<1>7. f \notin deleted BY <1>1, <1>3, <1>4, <1>5, <1>6, Zenon DEF LeftFile
<1> QED BY <1>1, <1>6, <1>7

(* Once every op is done, Drive has no node of a file that is gone and no  *)
(* second one of a file that is not (drop_doomed_ops, finish_create,       *)
(* earlier_twin, withdrawn_twin): for one file and any number of workers,  *)
(* whatever calls fail or lose their answers and however often the process *)
(* is killed between calls, unless the trash of a node found by name is    *)
(* given up.                                                               *)
THEOREM NothingIsLeft ==
  ASSUME Alone
  PROVE  Spec => []NothingLeftBehind
<1>1. Init => Inv /\ LeftInv BY InitInv, LeftInit
<1>2. Inv /\ LeftInv /\ [Next]_vars => Inv' /\ LeftInv' BY InvNext, LeftNext
<1>3. LeftInv => NothingLeftBehind BY LeftEnds
<1> QED BY <1>1, <1>2, <1>3, PTL DEF Spec

(* And for any number of files where no answer is lost, until another      *)
(* worker's op comes between a landing and the tree.                       *)
THEOREM NoneOfManyLeft ==
  ASSUME Quiet
  PROVE  Spec => [](Uncrossed => NothingLeftBehind)
<1>1. Init => (Uncrossed => LeftInv) BY LeftInit
<1>2. Inv /\ QuietHolds /\ (Uncrossed => LeftInv) /\ [Next]_vars => (Uncrossed => LeftInv)'
  BY CrossedStays, LeftNext DEF QuietHolds, Uncrossed
<1>3. (Uncrossed => LeftInv) => (Uncrossed => NothingLeftBehind) BY LeftEnds
<1> QED BY <1>1, <1>2, <1>3, QuietHolding, PTL DEF Spec
==============================================================================
