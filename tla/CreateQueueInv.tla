---------------------------- MODULE CreateQueueInv ----------------------------
(***************************************************************************)
(* What always holds of files made here: where a file's node is recorded   *)
(* in each phase of its call, what a worker's attempt may rely on, and     *)
(* where a node Drive has made can be found.  CreateQueueProofs shows it   *)
(* inductive.                                                              *)
(***************************************************************************)
EXTENDS CreateQueue

(* The user has the file.                                                  *)
Alive(f) == call[f] \in {"minting", "idle", "renaming"}

(***************************************************************************)
(* Files                                                                   *)
(***************************************************************************)
RowFits(f) ==
  /\ row[f].at \in 0 .. nnode
  /\ row[f].kind = "create" =>
       /\ uid[f] = Local /\ row[f].at = Local /\ ren[f] = <<>>
       /\ row[f].name \in Names
  /\ row[f].kind = "revision" => row[f].at = uid[f] /\ uid[f] # Local
  /\ row[f].kind = "trash" => ~Alive(f) /\ (uid[f] # Local => row[f].at = uid[f])

RenFits(f) ==
  /\ ren[f] # <<>> => uid[f] # Local
  /\ \A i \in 1 .. Len(ren[f]) : ren[f][i].name \in Names

CallFits(f) ==
  /\ call[f] = "none" => /\ row[f].kind = "none" /\ ~row[f].parked
                         /\ uid[f] = Local /\ f \notin named
  /\ call[f] \in {"none", "minting"} => age[f] = "new"
  /\ call[f] \in {"idle", "renaming"} => f \in listed
  /\ Alive(f) => row[f].kind = "create" \/ uid[f] # Local
  /\ verdict[f] = "drop" => call[f] \in {"dropping", "gone"}

FileFits(f) ==
  /\ RowFits(f) /\ RenFits(f) /\ CallFits(f)
  /\ uid[f] \in 0 .. nnode
  /\ f \in unadopted => uid[f] # Local

(***************************************************************************)
(* Attempts                                                                *)
(***************************************************************************)
(* Where an attempt at each kind of op can be.                             *)
Way == [create   |-> {"twin", "note", "send", "clash", "held", "retire", "repoint", "ask", "read",
                      "place", "discard", "trash", "trashed", "fail"},
        revision |-> {"ask", "read", "place", "revise", "fail"},
        rename   |-> {"ask", "read", "place", "send", "held", "retire", "fail"},
        trash    |-> {"ask", "read", "place", "find", "trash", "trashed", "fail"}]

(* A create that has not landed.                                           *)
Early   == {"twin", "note", "send", "clash", "held", "retire"}
(* Adoption of a node.                                                     *)
Adopts  == {"ask", "read", "place"}

JobFits(w) ==
  /\ F(w) \in Files /\ call[F(w)] # "none"
  /\ pc[w] \in Way[job[w].kind]
  /\ job[w].node \in 0 .. nnode
  /\ row[F(w)].kind = "create" =>
       row[F(w)].owner = w /\ job[w].kind = "create" /\ pc[w] \in Early \cup {"fail"}
  /\ job[w].kind \in {"create", "rename"} => job[w].name \in Names
  /\ job[w].kind \in {"revision", "rename"} \/ pc[w] \in Adopts \cup {"repoint", "discard"} =>
       job[w].node = uid[F(w)] /\ uid[F(w)] # Local
  /\ job[w].kind = "trash" \/ pc[w] \in {"find", "trash", "trashed"} => ~Alive(F(w))
  /\ pc[w] = "trash" => job[w].node # Local

CreateFits(w) ==
  job[w].kind = "create" =>
    /\ pc[w] \in Early => uid[F(w)] = Local
    /\ pc[w] \in Early \cup {"fail"} /\ Alive(F(w)) => row[F(w)].kind = "create"
    /\ pc[w] \in Early \ {"retire"} => job[w].sent = job[w].name
    /\ pc[w] = "retire" => job[w].node # Local /\ job[w].seen \in Name

(* Two attempts never create one file.                                     *)
OneCreator ==
  \A w, v \in Workers :
    /\ pc[w] \in Early /\ job[w].kind = "create"
    /\ pc[v] \in Early /\ job[v].kind = "create"
    /\ F(w) = F(v)
    => w = v

(* A claimed revision is the one attempted.                                *)
RevisionFits(w) ==
  job[w].kind = "revision" /\ row[F(w)].owner = w =>
    row[F(w)].kind = "revision" /\ row[F(w)].blob = job[w].blob

(* A claimed rename of a file the user has is the one attempted.           *)
RenameFits(w) ==
  job[w].kind = "rename" /\ Alive(F(w)) =>
    /\ ren[F(w)] # <<>>
    /\ ren[F(w)][1].owner = w /\ ren[F(w)][1].name = job[w].name

Ours(r) == r # Local => node[r].by # Other

(* Another device's file is recognised by what it holds.                   *)
NotTheirs ==
  /\ \A r \in 1 .. nnode : node[r].by = Other => node[r].body = Theirs /\ ~node[r].trashed
  /\ \A f \in Files : Ours(uid[f]) /\ Ours(row[f].at)
  /\ \A w \in Workers : Ours(job[w].node)

Inv ==
  /\ TypeOK
  /\ \A f \in Files : FileFits(f)
  /\ \A w \in Workers : pc[w] # "idle" =>
       JobFits(w) /\ CreateFits(w) /\ RevisionFits(w) /\ RenameFits(w)
  /\ \A w \in Workers : pc[w] = "idle" => job[w] = NoJob
  /\ OneCreator
  /\ NotTheirs

(***************************************************************************)
(* A file with no name of its own                                          *)
(***************************************************************************)
Scratch(f) == f \notin named /\ age[f] # "expired"

ScratchInv ==
  \A f \in Files :
    /\ Scratch(f) => /\ \A r \in 1 .. nnode : node[r].by # f
                     /\ row[f].kind = "create" => row[f].parked
                     /\ \A w \in Workers : pc[w] # "idle" /\ job[w].kind = "create" => F(w) # f
    /\ f \notin named /\ call[f] = "renaming" => target[f] \in Transient
    /\ verdict[f] = "release" => age[f] = "expired"

(***************************************************************************)
(* What a file holds and is called                                         *)
(***************************************************************************)
(* Every file has a node to itself, one that is not trashed while the user *)
(* has the file.                                                           *)
Apart ==
  /\ \A f, g \in Files : f # g /\ uid[f] # Local => uid[f] # uid[g]
  /\ \A w \in Workers, g \in Files :
       pc[w] = "retire" /\ job[w].kind = "create" /\ g # F(w) => job[w].node # uid[g]
  /\ \A f \in Files : Alive(f) /\ uid[f] # Local => ~node[uid[f]].trashed

(* A blob belongs to one file.                                             *)
BlobsFit ==
  /\ \A f \in Files : content[f] <= nblob /\ row[f].blob <= nblob
  /\ \A w \in Workers : job[w].blob <= nblob /\ job[w].landed <= nblob
  /\ \A g \in Files : content[g] # Empty =>
       /\ \A f \in Files : f # g => content[f] # content[g] /\ row[f].blob # content[g]
       /\ \A w \in Workers : F(w) # g => job[w].blob # content[g] /\ job[w].landed # content[g]

ContentKept(f) ==
  /\ call[f] = "none" => content[f] = Empty
  /\ Alive(f) =>
       IF row[f].kind = "none" THEN content[f] # Empty => node[uid[f]].body = content[f]
       ELSE row[f].blob = content[f] /\ content[f] \in staged \cup {Empty}

(* The bytes sent are on the node, and not those a write left behind.      *)
LandedFits(w) ==
  job[w].kind = "create" /\ job[w].landed # Empty =>
    /\ pc[w] = "retire" => node[job[w].node].body = job[w].landed
    /\ pc[w] \in Adopts \cup {"repoint", "discard"} => row[F(w)].blob # job[w].landed

NameKept(f) ==
  Alive(f) /\ f \notin torn =>
    IF row[f].kind = "create" THEN row[f].name = want[f]
    ELSE IF ren[f] # <<>> THEN ren[f][Len(ren[f])].name = want[f]
    ELSE node[uid[f]].name \in {want[f], ConflictName(f)}

(* The node has the name that was sent.                                    *)
SentFits(w) ==
  pc[w] = "retire" =>
    /\ job[w].kind = "create" => node[job[w].node].name \in {job[w].sent, ConflictName(F(w))}
    /\ job[w].kind = "rename" /\ Alive(F(w)) =>
         \/ node[job[w].node].name \in {job[w].name, ConflictName(F(w))}
         \/ node[job[w].node].trashed

BytesInv ==
  /\ BlobsFit
  /\ \A f \in Files : ContentKept(f)
  /\ \A w \in Workers : pc[w] # "idle" => LandedFits(w)

NamesInv ==
  /\ \A f \in Files : NameKept(f)
  /\ \A w \in Workers : pc[w] # "idle" => SentFits(w)

KeptInv == BytesInv /\ NamesInv

(***************************************************************************)
(* With no answer lost and no restart                                      *)
(***************************************************************************)
Quiet ==
  /\ ~MintRaces
  /\ "answer" \notin Faults /\ "inline" \notin Faults
  /\ MaxCrash = 0

Lands(w) == pc[w] \in {"retire", "repoint"} /\ job[w].kind = "create"

(* An attempt that has the node it made, under a name it sent.             *)
Carries(w, r) ==
  /\ Lands(w) /\ F(w) = node[r].by /\ job[w].node = r
  /\ node[r].name \in {job[w].name, ConflictName(F(w))}

(* A node made here is one that no create will take for its own.           *)
Tracked(r) ==
  \/ node[r].by = Other
  \/ r \in hidden
  \/ \E f \in Files : place[f] # NoName /\ treeUid[f] = r
  \/ \E w \in Workers : Carries(w, r)

MadeBy(r, f) == r # Local => node[r].by = f

QuietFile(f) ==
  /\ MadeBy(uid[f], f) /\ MadeBy(row[f].at, f)
  /\ treeUid[f] \in {Local, uid[f]}
  /\ row[f].to \subseteq Names \cup {ConflictName(f)}
  /\ row[f].kind = "create" => Alive(f)
  /\ call[f] = "minting" => want[f] # NoName /\ row[f].kind = "create"
  /\ call[f] = "renaming" => target[f] # NoName
  /\ call[f] \in {"idle", "renaming", "dropping"} => place[f] # NoName
  /\ call[f] = "gone" => uid[f] \in hidden \cup {Local}
  /\ \A r \in 1 .. nnode : node[r].by = f /\ node[r].trashed => call[f] \in {"dropping", "gone"}

QuietJob(w) ==
  /\ MadeBy(job[w].node, F(w))
  /\ call[F(w)] # "minting"
  /\ pc[w] = "place" => job[w].seen # NoName

(* No rename of a file is tried while the tree is given its uid.           *)
RenamesLater ==
  \A w, v \in Workers :
    pc[w] # "idle" /\ job[w].kind = "rename" /\ pc[v] = "repoint" => F(v) # F(w)

QuietInv ==
  /\ \A r \in 1 .. nnode : Tracked(r)
  /\ \A f \in Files : QuietFile(f)
  /\ \A w \in Workers : pc[w] # "idle" => QuietJob(w)
  /\ RenamesLater

(* And all of it, until another op comes between a landing and the tree.   *)
QuietHolds == Uncrossed => QuietInv /\ Apart /\ KeptInv

(***************************************************************************)
(* The name the tree has                                                   *)
(***************************************************************************)
(* No two attempts at one file at a time.                                  *)
OneAttempt ==
  \A w, v \in Workers : pc[w] # "idle" /\ pc[v] # "idle" /\ F(w) = F(v) => w = v

(* The name the user gave the file, or the one Drive has it under instead. *)
Owed(f) == {want[f], ConflictName(f)}

TreeFits(f) ==
  /\ call[f] = "renaming" => target[f] = want[f]
  /\ call[f] = "idle" /\ f \notin torn => place[f] \in Owed(f)

(* What is read is not an older name, unless a rename follows.             *)
ReadFits(w) ==
  pc[w] = "place" /\ Alive(F(w)) /\ F(w) \notin torn /\ ~StillRenaming(w) =>
    job[w].seen \in Owed(F(w))

TreeInv ==
  /\ \A f \in Files : TreeFits(f)
  /\ \A w \in Workers : ReadFits(w)

(***************************************************************************)
(* One file made here                                                      *)
(***************************************************************************)
Solo == \A f, g \in Files : f = g

(* Nothing is trashed before a file is deleted.                            *)
TrashedGone ==
  \A r \in 1 .. nnode : node[r].trashed => \E f \in Files : call[f] \in {"dropping", "gone"}

(***************************************************************************)
(* What is on Drive of a file                                              *)
(***************************************************************************)
(* What no queue can tell: a call that a crash cut short, a create that    *)
(* went inline and lost its answer.                                        *)
Whole == torn = {} /\ SentInline \cap Files = {}

(* One file, and no trash of a node found by name is given up.             *)
Alone == Solo /\ "trash twin" \notin Faults

(* An attempt that has the create, or the trash, of its file to itself.    *)
Holds(w) ==
  \/ pc[w] \in Early \cup {"fail"} /\ job[w].kind = "create"
  \/ pc[w] # "idle" /\ job[w].kind = "trash"
  \/ pc[w] \in {"trash", "trashed"}

(* A node that the queued create, or its trash, is sure to find.           *)
Findable(f, r) ==
  /\ row[f].kind \in {"create", "trash"} /\ row[f].at = Local
  /\ node[r].name \in row[f].to
  /\ node[r].body \in {Empty} \cup row[f].sha
  /\ node[r].epoch >= row[f].first
  /\ r \in hidden => \E w \in Workers : pc[w] = "trash" /\ job[w].node = r

(* A node that the attempt which made it is about to hand on.              *)
Held(f, r) ==
  \E w \in Workers : pc[w] = "retire" /\ job[w].kind = "create" /\ F(w) = f /\ job[w].node = r

LeftFile(f) ==
  /\ treeUid[f] \in {Local, uid[f]}
  /\ row[f].first <= ncrash
  /\ row[f].kind = "create" => Alive(f)
  /\ f \in deleted => call[f] \in {"dropping", "gone"}
  /\ verdict[f] # "drop"
  /\ call[f] = "none" => MadeFor(f) = {}
  /\ \A r, s \in MadeFor(f) : r = s
  /\ uid[f] # Local =>
       /\ \A r \in MadeFor(f) : r = uid[f]
       /\ call[f] = "dropping" => row[f].kind = "none"
       /\ call[f] = "gone" => row[f].kind = "trash" \/ node[uid[f]].trashed
  /\ uid[f] = Local => \A r \in MadeFor(f) :
       \/ row[f].kind = "trash" /\ row[f].at = r
       \/ IF Alone THEN Findable(f, r) ELSE Held(f, r)

LeftJob(w) ==
  LET f == F(w)  made == MadeFor(F(w)) IN
  Holds(w) =>
    /\ row[f].owner = w
    /\ \/ row[f].kind = "trash"
       \/ row[f].kind = "create" /\ job[w].kind = "create" /\ pc[w] \in Early \cup {"fail"}
    /\ pc[w] \in Early \cup {"find"} => row[f].at = Local
    /\ pc[w] \in Early \ {"retire"} => job[w].node = Local
    /\ pc[w] = "twin" => job[w].stage = "first"
    /\ \/ pc[w] \in {"note", "send"} /\ job[w].stage = "first"
       \/ pc[w] = "clash"
       => \A r \in made : Alone /\ node[r].name = job[w].name
    /\ \/ pc[w] \in {"note", "send"} /\ job[w].stage # "first"
       \/ pc[w] \in {"held", "trashed"}
       => made = {}
    /\ pc[w] = "send" => SendName(w) \in row[f].to /\ job[w].blob \in {Empty} \cup row[f].sha
    /\ pc[w] \in {"retire", "trash"} => \A r \in made : r = job[w].node
    /\ pc[w] = "trash" => row[f].at \in {Local, job[w].node}

LeftInv ==
  /\ hidden \subseteq 0 .. nnode
  /\ SentInline # {} => "inline" \in Faults
  /\ Whole => /\ \A f \in Files : LeftFile(f)
              /\ \A w \in Workers : LeftJob(w)

(* Until then where answers are lost to nobody, always for a file alone.   *)
LeftHolds == Alone \/ Uncrossed => LeftInv

(***************************************************************************)
(* What a step does, in the words of the proofs                            *)
(***************************************************************************)
(* What the user may do to a file.                                         *)
UserStep(f) ==
  \/ \E n \in Names : Mint(f, n) \/ MintUnanswered(f, n) \/ RenameStart(f, n)
  \/ Intern(f) \/ Open(f) \/ Close(f) \/ Release(f) \/ RenameEnd(f)
  \/ DeleteLocal(f) \/ DeleteLanded(f) \/ DeleteReal(f) \/ Walk(f)

RenType(s) == s \in Seq(Ren) /\ Len(s) <= 2 /\ (Len(s) = 2 => s[2].owner = NoOne)

DbType ==
  /\ row \in [Files -> Row]
  /\ ren \in [Files -> Seq(Ren)] /\ \A f \in Files : RenType(ren[f])
  /\ uid \in [Files -> Uid] /\ listed \subseteq Files /\ staged \subseteq Blob

TreeType ==
  /\ place \in [Files -> Name \cup {NoName}] /\ treeUid \in [Files -> Uid]
  /\ open \subseteq Files /\ hidden \subseteq Uid /\ unadopted \subseteq Files

CallType ==
  /\ call \in [Files -> {"none", "minting", "idle", "renaming", "dropping", "gone"}]
  /\ target \in [Files -> Name \cup {NoName}]

DrainType == pc \in [Workers -> WorkerPc] /\ job \in [Workers -> Job]

SweepType ==
  /\ verdict \in [Files -> {"none", "drop", "release"}]
  /\ age \in [Files -> {"new", "settled", "expired"}]

DriveType == nnode \in Uid /\ node \in [1 .. nnode -> Node]

ToldType ==
  /\ want \in [Files -> Name \cup {NoName}] /\ content \in [Files -> {Empty} \cup Blob]
  /\ deleted \subseteq Files /\ torn \subseteq Files /\ named \subseteq Files

BoundType ==
  /\ nblob \in 0 .. MaxBlob /\ ncall \in 0 .. MaxCall /\ nforeign \in 0 .. MaxForeign
  /\ nfault \in 0 .. MaxFault /\ ncrash \in 0 .. MaxCrash
  /\ crossed \subseteq {"rename", "trash"}
  /\ crossed \subseteq {"rename", "trash"}

(* One row, one file's renames and one job change at a time.               *)
OneRow(f, x) == /\ row' \in [Files -> Row] /\ row'[f] = x
                /\ \A g \in Files : g # f => row'[g] = row[g]

OneRen(f, s) == /\ ren' \in [Files -> Seq(Ren)] /\ ren'[f] = s
                /\ \A g \in Files : g # f => ren'[g] = ren[g]

OneJob(w, j) == /\ job' \in [Workers -> Job] /\ job'[w] = j
                /\ \A v \in Workers : v # w => job'[v] = job[v]

OnePc(w, p)  == /\ pc' \in [Workers -> WorkerPc] /\ pc'[w] = p
                /\ \A v \in Workers : v # w => pc'[v] = pc[v]

(* What an attempt that only moves on keeps of its job.                    *)
SameOp(j, k) ==
  /\ k.file = j.file /\ k.kind = j.kind /\ k.name = j.name /\ k.blob = j.blob

(* The oldest rename changes hands.                                        *)
Handed(s, o, t) == [s EXCEPT ![1] = [s[1] EXCEPT !.owner = o, !.tries = t]]

(* The node gets another name.                                             *)
RenamedNode(r, n) ==
  /\ nnode' = nnode /\ DriveType'
  /\ \A x \in 1 .. nnode :
       /\ node'[x].by = node[x].by /\ node'[x].body = node[x].body
       /\ node'[x].trashed = node[x].trashed
       /\ node'[x].epoch = node[x].epoch /\ node'[x].inline = node[x].inline
       /\ node'[x].name = IF x = r THEN n ELSE node[x].name

(* A node is made.                                                         *)
NewNode(n, b, who) ==
  /\ DriveType' /\ nnode \in Nat /\ nnode' = nnode + 1
  /\ \A r \in 1 .. nnode : node'[r] = node[r]
  /\ node'[nnode + 1].name = n /\ node'[nnode + 1].body = b /\ node'[nnode + 1].by = who
  /\ node'[nnode + 1].trashed = FALSE /\ node'[nnode + 1].epoch = ncrash

(* The node changes, but not what it is called or who made it.             *)
ChangedNode(r, b, t) ==
  /\ nnode' = nnode /\ DriveType'
  /\ \A x \in 1 .. nnode :
       /\ node'[x].by = node[x].by /\ node'[x].name = node[x].name
       /\ node'[x].epoch = node[x].epoch /\ node'[x].inline = node[x].inline
       /\ node'[x].body = IF x = r THEN b ELSE node[x].body
       /\ node'[x].trashed = IF x = r THEN t ELSE node[x].trashed

AttemptFits(w) == JobFits(w) /\ CreateFits(w) /\ RevisionFits(w) /\ RenameFits(w)

Creator(w) == pc[w] \in Early /\ job[w].kind = "create"

(* The drive's nodes are never fewer.                                      *)
More == nnode' \in Nat /\ nnode \in Nat /\ nnode <= nnode'

(* A file a step does nothing to.                                          *)
FileSame(f) ==
  /\ row'[f] = row[f] /\ ren'[f] = ren[f] /\ uid'[f] = uid[f] /\ call'[f] = call[f]
  /\ age'[f] = age[f] /\ verdict'[f] = verdict[f]
  /\ f \in named' => f \in named
  /\ f \in listed => f \in listed'
  /\ f \in unadopted' => f \in unadopted \/ uid[f] # Local

(* What a step has to leave an attempt with, of the file it is at.         *)
Spared(v) ==
  LET f == F(v) IN
  /\ pc'[v] = pc[v] /\ job'[v] = job[v]
  /\ uid'[f] = uid[f]
  /\ call'[f] # "none" /\ (Alive(f)' => Alive(f))
  /\ row'[f].kind = "create" => row[f].kind = "create" /\ row'[f].owner = row[f].owner
  /\ Alive(f)' /\ row[f].kind = "create" => row'[f].kind = "create"
  /\ row'[f].owner = v /\ job[v].kind = "revision" =>
       row[f].owner = v /\ row'[f].kind = row[f].kind /\ row'[f].blob = row[f].blob
  /\ Alive(f)' /\ ren[f] # <<>> /\ ren[f][1].owner = v =>
       ren'[f] # <<>> /\ ren'[f][1].owner = v /\ ren'[f][1].name = ren[f][1].name

(* What a step does to the nodes that are there, and with those it makes.  *)
DriveKept ==
  /\ More
  /\ \A r \in 1 .. nnode :
       /\ node'[r].by = node[r].by
       /\ node[r].by = Other => node'[r].body = node[r].body /\ node'[r].trashed = node[r].trashed
  /\ \A r \in nnode + 1 .. nnode' :
       node'[r].by = Other => node'[r].body = Theirs /\ ~node'[r].trashed

(* A node of ours, there before the step or made by it.                    *)
Known(r) ==
  \/ r \in 0 .. nnode /\ Ours(r)
  \/ r \in nnode + 1 .. nnode' /\ node'[r].by # Other

Passes(w) ==
  \/ /\ job'[w].file = job[w].file /\ job'[w].blob = job[w].blob
     /\ job'[w].landed \in {job[w].landed, job[w].blob, Empty}
  \/ job'[w].blob = Empty /\ job'[w].landed = Empty
  \/ /\ job'[w].file \in Files /\ job'[w].blob = row[job'[w].file].blob
     /\ job'[w].landed = Empty

(* What a step has to leave a file with.                                   *)
BytesSame(g) ==
  /\ content'[g] = content[g] /\ (call'[g] = "none" => call[g] = "none")
  /\ Alive(g)' => /\ Alive(g)
                  /\ row'[g].kind = row[g].kind /\ row'[g].blob = row[g].blob
                  /\ uid'[g] = uid[g]
                  /\ content[g] \in staged /\ row[g].kind # "none" =>
                       content[g] \in staged' \cup {Empty}
                  /\ row[g].kind = "none" => node'[uid[g]].body = node[uid[g]].body

(* What a step has to leave an attempt with.                               *)
LandedSame(v) ==
  /\ pc'[v] = pc[v] /\ job'[v] = job[v]
  /\ row'[F(v)].blob \in {row[F(v)].blob, Empty, nblob + 1}
  /\ pc[v] = "retire" /\ job[v].kind = "create" =>
       node'[job[v].node].body = node[job[v].node].body

NamesSame(g) ==
  Alive(g)' /\ g \notin torn' =>
    /\ Alive(g) /\ g \notin torn
    /\ want'[g] = want[g] /\ uid'[g] = uid[g]
    /\ row'[g].kind = "create" <=> row[g].kind = "create"
    /\ row[g].kind = "create" => row'[g].name = row[g].name
    /\ ren'[g] = <<>> <=> ren[g] = <<>>
    /\ ren[g] # <<>> => ren'[g][Len(ren'[g])].name = ren[g][Len(ren[g])].name
    /\ row[g].kind # "create" /\ ren[g] = <<>> => node'[uid[g]].name = node[uid[g]].name

SentSame(v) ==
  /\ pc'[v] = pc[v] /\ job'[v] = job[v] /\ (Alive(F(v))' => Alive(F(v)))
  /\ pc[v] = "retire" /\ (job[v].kind = "create" \/ Alive(F(v))) =>
       /\ node'[job[v].node].name = node[job[v].node].name
       /\ node[job[v].node].trashed => node'[job[v].node].trashed

(* Nodes keep their names, and those that are trashed stay so.             *)
NamesStay ==
  /\ More
  /\ \A r \in 1 .. nnode : /\ node'[r].name = node[r].name
                           /\ node[r].trashed => node'[r].trashed

(* What a step has to leave a file with.                                   *)
FileKept(g) ==
  /\ uid'[g] = uid[g] /\ row'[g].at \in {row[g].at, uid[g], Local}
  /\ treeUid'[g] \in {treeUid[g], uid[g], Local}
  /\ row'[g].to \subseteq row[g].to \cup Names \cup {ConflictName(g)}
  /\ row'[g].kind = "create" => row[g].kind = "create"
  /\ call'[g] = "minting" => row'[g].kind = row[g].kind
  /\ call'[g] = call[g] /\ want'[g] = want[g] /\ target'[g] = target[g]
  /\ place'[g] = NoName => place[g] = NoName

(* Only nodes of files that are deleted are trashed.                       *)
TrashKept ==
  \A r \in 1 .. nnode' : node'[r].trashed =>
    r \in 1 .. nnode /\ (node[r].trashed \/ call[node[r].by] \in {"dropping", "gone"})

(* What a step of the user may do to it besides.                           *)
FileMoves(g) ==
  /\ uid'[g] = uid[g] /\ row'[g].at \in {row[g].at, uid[g], Local}
  /\ treeUid'[g] \in {treeUid[g], uid[g], Local}
  /\ row'[g].to \subseteq row[g].to \cup Names \cup {ConflictName(g)}
  /\ row'[g].kind = "create" => Alive(g)'
  /\ call'[g] = "minting" => want'[g] # NoName /\ row'[g].kind = "create"
  /\ call'[g] = "renaming" => target'[g] # NoName
  /\ call'[g] \in {"idle", "renaming", "dropping"} => place'[g] # NoName
  /\ call'[g] = "gone" => uid'[g] \in hidden' \cup {Local}
  /\ call[g] \in {"dropping", "gone"} => call'[g] \in {"dropping", "gone"}

TreeSame(g) ==
  /\ call'[g] = call[g] /\ want'[g] = want[g] /\ target'[g] = target[g]
  /\ g \in torn => g \in torn'
  /\ call[g] = "idle" => place'[g] \in {place[g], ConflictName(g)}

(* What was read stays good, or a rename follows.                          *)
ReadSame(v) ==
  /\ pc'[v] = pc[v] /\ job'[v] = job[v]
  /\ pc[v] = "place" /\ Alive(F(v))' =>
       \/ ren'[F(v)] # <<>>
       \/ /\ Alive(F(v)) /\ want'[F(v)] = want[F(v)] /\ ren[F(v)] = <<>>
          /\ F(v) \in torn => F(v) \in torn'

NoneTrashed ==
  /\ \A r \in 1 .. nnode' : node'[r].trashed => r \in 1 .. nnode /\ node[r].trashed
  /\ \A g \in Files : call[g] \in {"dropping", "gone"} => call'[g] \in {"dropping", "gone"}

MarksKept ==
  /\ More
  /\ \A r \in 1 .. nnode :
       /\ node'[r].by = node[r].by
       /\ node'[r].epoch = node[r].epoch /\ node'[r].inline = node[r].inline
       /\ node[r].trashed => node'[r].trashed

(* A file that is left alone, but for what is noted of its create.         *)
LeftSame(g) ==
  /\ row'[g].kind = row[g].kind /\ row'[g].at = row[g].at
  /\ row[g].to \subseteq row'[g].to /\ row[g].sha \subseteq row'[g].sha
  /\ row'[g].first <= ncrash /\ (row[g].to # {} => row'[g].first = row[g].first)
  /\ uid'[g] = uid[g] /\ treeUid'[g] \in {treeUid[g], uid[g], Local}
  /\ call'[g] = call[g] \/ (Alive(g) /\ Alive(g)')
  /\ verdict'[g] \in {verdict[g], "none", "release"}
  /\ g \in deleted' => g \in deleted

(* Its nodes are found as before, or on their way as before.               *)
LeftFound(g) ==
  uid[g] = Local => \A r \in MadeFor(g)' :
    IF Alone THEN Findable(g, r) => Findable(g, r)' ELSE Held(g, r) => Held(g, r)'

(* An attempt that keeps what it has of its file.                          *)
RowHeld(f) ==
  /\ row'[f].owner = row[f].owner /\ row'[f].at = row[f].at
  /\ row'[f].kind \in {row[f].kind, "trash"}
  /\ row[f].to \subseteq row'[f].to /\ row[f].sha \subseteq row'[f].sha
  /\ MadeFor(f)' \subseteq MadeFor(f)
  /\ Alone /\ uid[f] = Local => \A r \in MadeFor(f) : node'[r].name = node[r].name

JobSame(v) == pc'[v] = pc[v] /\ job'[v] = job[v] /\ (Holds(v) => RowHeld(F(v)))

AllLeft == (\A g \in Files : LeftFile(g)) /\ (\A w \in Workers : LeftJob(w))

AllLeftNext == (\A g \in Files : LeftFile(g)') /\ (\A w \in Workers : LeftJob(w)')

(* A file whose row, uid and call are what they were.                      *)
Still(g) ==
  /\ row'[g] = row[g] /\ uid'[g] = uid[g] /\ treeUid'[g] = treeUid[g] /\ call'[g] = call[g]
  /\ verdict'[g] = verdict[g] /\ (g \in deleted' => g \in deleted)

(* The attempt, at a file that is named.                                   *)
LeftHeld(w, f) ==
  /\ row[f].owner = w
  /\ \/ row[f].kind = "trash"
     \/ row[f].kind = "create" /\ job[w].kind = "create" /\ pc[w] \in Early \cup {"fail"}
  /\ pc[w] \in Early \cup {"find"} => row[f].at = Local
  /\ pc[w] \in Early \ {"retire"} => job[w].node = Local
  /\ pc[w] = "twin" => job[w].stage = "first"
  /\ \/ pc[w] \in {"note", "send"} /\ job[w].stage = "first"
     \/ pc[w] = "clash"
     => \A r \in MadeFor(f) : Alone /\ node[r].name = job[w].name
  /\ \/ pc[w] \in {"note", "send"} /\ job[w].stage # "first"
     \/ pc[w] \in {"held", "trashed"}
     => MadeFor(f) = {}
  /\ pc[w] = "send" => SendName(w) \in row[f].to /\ job[w].blob \in {Empty} \cup row[f].sha
  /\ pc[w] \in {"retire", "trash"} => \A r \in MadeFor(f) : r = job[w].node
  /\ pc[w] = "trash" => row[f].at \in {Local, job[w].node}
================================================================================
