--------------------------- MODULE MirrorSyncInv ---------------------------
(***************************************************************************)
(* Why the properties of MirrorSync hold: what is known of a path while a  *)
(* pass works on it.  Inv is inductive as long as NoWindow: the pairs of   *)
(* system calls that Windows is about leave no room for a local write.     *)
(***************************************************************************)
EXTENDS MirrorSync

NoWindow == Windows \cap {"drop", "place", "placed", "remove"} = {}

(* Revisions and versions are numbered in order, each is the active one of *)
(* its own number until that node has another, and each node is at one     *)
(* path.                                                                   *)
Sealed ==
  /\ \A r \in 1 .. nrev : tip[r] <= nrev /\ seal[r].body <= nver /\ seal[r].stamp <= nver
  /\ \A r \in Rev : nrev < r => tip[r] = r
  /\ \A p, q \in Paths : drive[p] = drive[q] /\ drive[p] # None => p = q

Numbered(p) ==
  /\ file[p] <= nver /\ got[p] <= nver /\ drive[p] <= nrev /\ sent[p] <= nrev
  /\ base[p].local <= nver /\ base[p].stamp <= nver /\ base[p].rev <= nrev
  /\ walk[p].node <= nrev /\ walk[p].rev <= nrev /\ (walk[p].node = None <=> walk[p].rev = None)

(* A row has the stamp of its revision, or without one is an upload's own; *)
(* it is given only a revision that agrees with it.                        *)
Stamped(p) ==
  /\ base[p] # NoRow =>
       IF base[p].rev = None THEN base[p].local = base[p].stamp
                             ELSE base[p].stamp = seal[base[p].rev].stamp
  /\ step[p] = "note" =>
       base[p] # NoRow /\ walk[p].rev # None /\ ~RemoteChanged(base[p], walk[p].rev)

(* Between passes nothing is under way.                                    *)
Resting(p) == phase # "applying" => step[p] = "done" /\ got[p] = None

(***************************************************************************)
(* Edits                                                                   *)
(***************************************************************************)
(* A version the user is done with, or that is whole on Drive.             *)
Replaced(v) == v <= nver /\ v \notin owed
Safe(v) == Replaced(v) \/ \E r \in 1 .. nrev : seal[r].body = v

(* The steps of a plan that puts Drive's content at the path.              *)
Taking == {"hash", "copy", "drop", "fetch", "guard", "aside", "place", "placed"}

(* What was synced may be overwritten; so may be what a pass is about to   *)
(* overwrite or remove, unless it was copied.                              *)
Harmless(p) ==
  /\ base[p] # NoRow => Safe(base[p].local)
  /\ step[p] \in {"fetch", "guard", "drop", "condemn"} => Safe(scan[p].content)
  /\ step[p] \in {"place", "remove"} => Safe(file[p])
  /\ step[p] = "drop" => file[p] \in copies
  /\ step[p] \in Taking => Safe(got[p])
  /\ step[p] = "placed" => file[p] = got[p]
  /\ step[p] \in {"stat", "send", "readback"} =>
       got[p] # None /\ (got[p] = file[p] \/ Replaced(got[p]))
  /\ step[p] = "readback" => Safe(got[p])

(***************************************************************************)
(* Baselines                                                               *)
(***************************************************************************)
Same(p) == InStep(p) => file[p] = seal[tip[drive[p]]].body

(* The row of p says that Drive has nothing, or something else, at p.      *)
Behind(p) == base[p] = NoRow \/ drive[p] = None \/ RemoteChanged(base[p], tip[drive[p]])

(* The revision that was walked is not the active one.                     *)
Passed(p) == drive[p] = None \/ tip[drive[p]] # walk[p].rev

(* Until a download is recorded its path is behind, and what it fetched is *)
(* of the revision it will be recorded as, or that one is passed.          *)
Download(p) ==
  step[p] \in Taking =>
    /\ Behind(p)
    /\ walk[p].rev # None /\ (drive[p] = walk[p].node \/ Passed(p))
    /\ drive[p] = None => p \in trashed
    /\ step[p] \in {"guard", "aside", "place", "placed"} => got[p] # None
    /\ got[p] # None => got[p] = seal[walk[p].rev].body \/ Passed(p)

(* An upload to be recorded holds what it is recorded as, or the file has  *)
(* changed since; a later revision bears another stamp.                    *)
Upload(p) ==
  step[p] = "readback" =>
    /\ sent[p] # None
    /\ seal[sent[p]].body = got[p] \/ file[p] # got[p]
    /\ drive[p] = None \/ tip[drive[p]] = sent[p] \/ seal[tip[drive[p]]].stamp # got[p]
    /\ drive[p] = None => p \in trashed

(***************************************************************************)
(* Deletions                                                               *)
(***************************************************************************)
(* What is missing on one side and recorded as synced was deleted there,   *)
(* or the other side is not what was recorded.                             *)
Missing(p) ==
  base[p] # NoRow =>
    /\ file[p] = None => p \in removed \/ Behind(p)
    /\ drive[p] = None => p \in trashed \/ file[p] # base[p].local

(* The same of what a scan saw.                                            *)
ScannedMissing(p) ==
  phase = "scanned" =>
    /\ scan[p].content # None => file[p] # None \/ p \in removed
    /\ ~scan[p].hidden /\ base[p] # NoRow =>
         /\ scan[p].content = None => (p \in removed \/ Behind(p)) /\ file[p] # base[p].local
         /\ drive[p] = None => p \in trashed \/ scan[p].content # base[p].local

(* And of what a pass does for it.                                         *)
Deletion(p) ==
  /\ step[p] = "trash" => p \in removed /\ base[p] # NoRow /\ file[p] # base[p].local
  /\ step[p] \in {"condemn", "remove"} => p \in trashed /\ Behind(p)
  /\ step[p] \in {"note", "open", "stat", "send", "readback"} => file[p] # None \/ p \in removed

AtPath(p) ==
  /\ Numbered(p) /\ Stamped(p) /\ Resting(p) /\ Harmless(p) /\ Same(p) /\ Download(p) /\ Upload(p)
  /\ Missing(p) /\ ScannedMissing(p) /\ Deletion(p)

(* The inductive invariant.                                                *)
Inv == TypeOK /\ Sealed /\ NoEditLost /\ \A p \in Paths : AtPath(p)
=============================================================================
