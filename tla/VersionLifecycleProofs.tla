------------------------ MODULE VersionLifecycleProofs ------------------------
(***************************************************************************)
(* Proofs about VersionLifecycle, for any number of versions, requests,    *)
(* workers and manifests, any attempt limit and either signature policy.   *)
(*                                                                         *)
(* The argument.  A request or a worker acts on a row it loaded earlier,   *)
(* so the invariant says what a loaded row still tells about the row in    *)
(* the table (Tells): what was immutable is so with the same payload, and  *)
(* an artifact that was there is there.  Every step keeps that because     *)
(* every step moves the rows, the reviews and the release bucket forward   *)
(* only (Evolves).  The rest says when a row is immutable (Shaped), which  *)
(* reviews a status implies and the reverse (InvReviews), and what the     *)
(* requests and workers in progress have already checked.                  *)
(*                                                                         *)
(* Two further parts: what the feed says of a version (FeedTells), and     *)
(* what holds besides when there is one worker (OneWorker).                *)
(***************************************************************************)
EXTENDS VersionLifecycle, TLAPS

ApprovedStatuses == {"approved", "published", "deprecated"}

(* A row has all of its payload, with the manifest object the release      *)
(* bucket holds, or none of it; it is immutable exactly from submission    *)
(* on, and then has it.                                                    *)
Whole(object, row) ==
  \/ /\ ~row.artifact
     /\ row.manifest = NoManifest
     /\ row.manifestSha = NoManifest
  \/ /\ row.artifact
     /\ row.manifest = object
     /\ object \in Manifests
     /\ row.manifestSha = ManifestDigest(object)

Shaped(object, row) ==
  /\ row.immutable <=> row.status \in Outcomes
  /\ row.immutable => row.artifact
  /\ Whole(object, row)

(* What a row loaded at some time tells about the row as it is now.        *)
Tells(object, row, current) ==
  /\ Shaped(object, row)
  /\ row.artifact => current.artifact
  /\ row.immutable => current.immutable /\ Payload(current) = Payload(row)

Trusted(row) ==
  /\ row.scan = "passed"
  /\ PublishRequiresSignature => row.signature = "verified"

InvRows ==
  \A v \in Versions :
    /\ Shaped(manifests[v], rows[v])
    /\ rows[v].artifact => v \in artifacts
    /\ Released(v) => Trusted(rows[v])

Verdict(status) == IF status = "rejected" THEN "rejected" ELSE "approved"

InvReviews ==
  /\ \A r \in reviews :
       /\ rows[r.version].status \in ApprovedStatuses \cup {"rejected"}
       /\ r.decision = Verdict(rows[r.version].status)
  /\ \A v \in Versions : rows[v].status \in ApprovedStatuses \cup {"rejected"} =>
       EvidenceOf(v, Verdict(rows[v].status), Payload(rows[v])) \in reviews

Checked(to, row) ==
  /\ to = "submitted" => row.status = "draft" /\ row.artifact
  /\ to \in {"approved", "rejected"} => row.status = "submitted"
  /\ to = "published" => row.status = "approved" /\ Trusted(row)
  /\ to = "deprecated" => row.status = "published"

InvSessions ==
  \A s \in Sessions : sess[s] # Idle =>
    /\ Tells(manifests[sess[s].version], sess[s].row, rows[sess[s].version])
    /\ Checked(sess[s].to, sess[s].row)

InvWorkers ==
  \A w \in Workers :
    /\ worker[w].stage \in Writing =>
         /\ Tells(manifests[worker[w].version], worker[w].row, rows[worker[w].version])
         /\ worker[w].row.status = "scanning"
    /\ worker[w].stage \in {"result", "finish"} /\ Passes(worker[w].version) =>
         worker[w].manifest \in Manifests
    /\ worker[w].stage \in {"stored", "listed"} =>
         worker[w].manifest \in Manifests /\ worker[w].version \in artifacts
    /\ worker[w].stage = "listed" => manifests[worker[w].version] = worker[w].manifest

(* The inductive invariant.                                                *)
IInv == TypeOK /\ InvRows /\ InvReviews /\ InvSessions /\ InvWorkers

(* Every step moves forward: no row leaves what the guard allows, nothing  *)
(* is taken from a row, from the evidence or from the release bucket.      *)
Evolves ==
  /\ \A v \in Versions :
       /\ GuardAllows(rows[v], rows'[v])
       /\ rows[v].artifact => rows'[v].artifact
       /\ manifests[v] \in Manifests => manifests'[v] = manifests[v]
  /\ artifacts \subseteq artifacts'
  /\ reviews \subseteq reviews'

-----------------------------------------------------------------------------
(* What a write of one row leaves.                                         *)

(* The UPDATE of changed columns makes a row.                              *)
LEMMA MergeType ==
  ASSUME NEW current \in Row, NEW loaded \in Row, NEW target \in Row
  PROVE  Merge(current, loaded, target) \in Row
BY DEF Merge, Column, Row

(* What a request wants the row to be is a row.                            *)
LEMMA TargetType ==
  ASSUME NEW to \in Outcomes, NEW row \in Row, row.manifest \in Manifests
  PROVE  Target(to, row) \in Row
<1>1. ManifestDigest(row.manifest) \in Digests
  BY DEF Digests
<1>2. to \in Statuses
  BY DEF Statuses, Outcomes
<1> QED  BY <1>1, <1>2 DEF Target, Row

(* A worker's write lands only on a row that is still mutable, and leaves  *)
(* it whole: the manifest it sets is the one in the release bucket.        *)
LEMMA WorkerWriteKeeps ==
  ASSUME NEW object, NEW current \in Row, NEW loaded \in Row, NEW target \in Row,
         Shaped(object, current), Shaped(object, loaded),
         loaded.status = "scanning",
         target.status \in {"pending_scan", "scan_failed", "draft"},
         target.immutable = loaded.immutable,
         \/ /\ target.artifact = loaded.artifact
            /\ target.manifest = loaded.manifest
            /\ target.manifestSha = loaded.manifestSha
         \/ /\ target.artifact
            /\ target.manifest = object
            /\ object \in Manifests
            /\ target.manifestSha = ManifestDigest(object),
         WriteAllowed(current, loaded, target)
  PROVE  /\ ~current.immutable
         /\ current.artifact => Merge(current, loaded, target).artifact
         /\ Shaped(object, Merge(current, loaded, target))
         /\ Merge(current, loaded, target).status = target.status
<1> DEFINE new == Merge(current, loaded, target)
<1>1. new \in Row
  BY MergeType
<1>2. new.status = target.status
  BY DEF Merge, Column
<1>3. new.immutable = current.immutable
  BY DEF Merge, Column
<1>4. ~current.immutable
  <2>1. GuardAllows(current, new)
    BY DEF WriteAllowed, TriggerAllows
  <2>2. current.immutable => current.status \in Outcomes
    BY DEF Shaped
  <2>3. new.status \notin Outcomes /\ <<current.status, new.status>> \notin LifecycleMoves
    BY <1>2 DEF Outcomes, LifecycleMoves
  <2> QED  BY <2>1, <2>2, <2>3 DEF GuardAllows
<1>5. current.artifact => new.artifact
  BY DEF Merge, Column, Shaped, Whole, Row
<1>6. Whole(object, new)
  BY NoManifestAssumption DEF Merge, Column, Shaped, Whole, Row
<1>7. Shaped(object, new)
  BY <1>1, <1>2, <1>3, <1>4, <1>6 DEF Shaped, Outcomes, Row
<1> QED  BY <1>2, <1>4, <1>5, <1>7

(* A request's write leaves the status it is named for, an immutable row,  *)
(* and, unless it is the submission, the payload that it had loaded.       *)
LEMMA RequestWriteKeeps ==
  ASSUME NEW object, NEW current \in Row, NEW loaded \in Row, NEW to \in Outcomes,
         Shaped(object, current), Shaped(object, loaded), Checked(to, loaded),
         loaded.artifact => current.artifact,
         loaded.immutable => current.immutable /\ Payload(current) = Payload(loaded),
         WriteAllowed(current, loaded, Target(to, loaded))
  PROVE  LET new == Merge(current, loaded, Target(to, loaded)) IN
         /\ new \in Row
         /\ new.status = to
         /\ new.immutable
         /\ GuardAllows(current, new)
         /\ Shaped(object, new)
         /\ Payload(new) = Payload(current)
         /\ to # "submitted" => current.immutable /\ Payload(new) = Payload(loaded)
<1> DEFINE target == Target(to, loaded)
           new == Merge(current, loaded, target)
<1>1. loaded.artifact /\ current.artifact /\ loaded.manifest \in Manifests
  <2>1. loaded.artifact
    BY DEF Checked, Shaped, Outcomes
  <2> QED  BY <2>1 DEF Shaped, Whole
<1>2. target \in Row
  BY <1>1, TargetType
<1>3. new \in Row
  BY <1>2, MergeType
<1>4. loaded.manifestSha = ManifestDigest(loaded.manifest)
  BY <1>1 DEF Shaped, Whole
<1>5. Payload(target) = Payload(loaded)
  BY <1>4 DEF Target, Payload, Row
<1>6. Payload(new) = Payload(current)
  BY <1>5, <1>2 DEF Merge, Column, Payload
<1>7. new.status = to
  BY DEF Merge, Column, Target, Checked, Outcomes, Row
<1>8. new.immutable /\ (to # "submitted" => current.immutable)
  BY DEF Merge, Column, Target, Checked, Outcomes, Row, Shaped
<1>9. GuardAllows(current, new)
  BY DEF WriteAllowed, TriggerAllows
<1>10. Shaped(object, new)
  BY <1>1, <1>3, <1>6, <1>7, <1>8 DEF Shaped, Whole, Payload
<1>11. to # "submitted" => Payload(new) = Payload(loaded)
  BY <1>6, <1>8 DEF Checked, Outcomes, Shaped
<1> QED  BY <1>3, <1>6, <1>7, <1>8, <1>9, <1>10, <1>11

-----------------------------------------------------------------------------
(* What a step does to the rows and the reviews: nothing, or a change of a *)
(* row that is mutable and stays so, or the write of a request.            *)

Drafts(v, new) ==
  /\ rows' = [rows EXCEPT ![v] = new]
  /\ UNCHANGED reviews
  /\ ~rows[v].immutable
  /\ rows[v].artifact => new.artifact
  /\ new.artifact => v \in artifacts
  /\ Shaped(manifests[v], new)
  /\ new.status \notin Outcomes

Advances(s, new) ==
  LET v == sess[s].version
      to == sess[s].to
  IN  /\ rows' = [rows EXCEPT ![v] = new]
      /\ reviews' = reviews \cup IF to \in {"approved", "rejected"}
                                 THEN {EvidenceOf(v, to, Payload(sess[s].row))}
                                 ELSE {}
      /\ new.status = to
      /\ new.immutable
      /\ GuardAllows(rows[v], new)
      /\ Shaped(manifests[v], new)
      /\ Payload(new) = Payload(rows[v])
      /\ to # "submitted" => rows[v].immutable /\ Payload(new) = Payload(sess[s].row)

RowEffect ==
  \/ rows' = rows /\ reviews' = reviews
  \/ \E v \in Versions, new \in Row : Drafts(v, new)
  \/ \E s \in Sessions, new \in Row :
       sess[s] \in Request /\ sess[s].version \in Versions /\ Advances(s, new)

(* The fields of a worker's task.                                          *)
LEMMA TaskParts ==
  ASSUME TypeOK, NEW w \in Workers, worker[w].stage \in Holding \cup Writing
  PROVE  /\ worker[w].version \in Versions
         /\ worker[w].manifest \in Manifests \cup {NoManifest}
         /\ worker[w].stage \in Writing => worker[w].row \in Row
BY DEF TypeOK, Task, Free, Holding, Writing

(* The fields of a request that is to commit.                              *)
LEMMA RequestParts ==
  ASSUME TypeOK, NEW s \in Sessions, sess[s].to \in Outcomes
  PROVE  /\ sess[s] \in Request
         /\ sess[s] # Idle
         /\ sess[s].version \in Versions
         /\ sess[s].row \in Row
BY DEF TypeOK, Request, Idle, Outcomes

(* The signature status a scan assigns.                                    *)
LEMMA ScannedSignatureType == \A v \in Versions : ScannedSignature(v) \in Signatures
BY DEF ScannedSignature, Signatures

(* The write of one worker session, whichever.                             *)
LEMMA WorkerWriteEffect ==
  ASSUME IInv, NEW w \in Workers, worker[w].stage \in Writing, NEW then,
         NEW target \in Row,
         target.status \in {"pending_scan", "scan_failed", "draft"},
         target.immutable = worker[w].row.immutable,
         \/ /\ target.artifact = worker[w].row.artifact
            /\ target.manifest = worker[w].row.manifest
            /\ target.manifestSha = worker[w].row.manifestSha
         \/ /\ target.artifact
            /\ worker[w].version \in artifacts
            /\ target.manifest = manifests[worker[w].version]
            /\ manifests[worker[w].version] \in Manifests
            /\ target.manifestSha = ManifestDigest(manifests[worker[w].version]),
         WorkerWrite(w, target, then), UNCHANGED reviews
  PROVE  RowEffect
<1> DEFINE v == worker[w].version
           loaded == worker[w].row
           new == Merge(rows[v], loaded, target)
<1>1. v \in Versions /\ loaded \in Row /\ rows[v] \in Row
  BY TaskParts DEF IInv, TypeOK, Writing
<1>2. /\ Shaped(manifests[v], rows[v]) /\ Shaped(manifests[v], loaded) /\ loaded.status = "scanning"
      /\ loaded.artifact => rows[v].artifact
      /\ rows[v].artifact => v \in artifacts
  BY <1>1 DEF IInv, InvRows, InvWorkers, Tells
<1>3. CASE WriteAllowed(rows[v], loaded, target)
  <2>1. /\ ~rows[v].immutable
        /\ rows[v].artifact => new.artifact
        /\ Shaped(manifests[v], new)
        /\ new.status = target.status
    BY <1>1, <1>2, <1>3, WorkerWriteKeeps
  <2>2. new \in Row
    BY <1>1, MergeType
  <2>3. new.artifact => v \in artifacts
    BY <1>1, <1>2 DEF Merge, Column, Row
  <2>4. Drafts(v, new)
    BY <1>3, <2>1, <2>3 DEF Drafts, WorkerWrite, Outcomes
  <2> QED  BY <1>1, <2>2, <2>4 DEF RowEffect
<1>4. CASE ~WriteAllowed(rows[v], loaded, target)
  BY <1>4 DEF WorkerWrite, RowEffect
<1> QED  BY <1>3, <1>4

(* The write of a request, with the reviews as its commit leaves them.     *)
LEMMA RequestWriteEffect ==
  ASSUME IInv, NEW s \in Sessions, sess[s].to \in Outcomes, Write(s),
         reviews' = reviews \cup IF sess[s].to \in {"approved", "rejected"}
                                 THEN {EvidenceOf(sess[s].version, sess[s].to,
                                                  Payload(sess[s].row))}
                                 ELSE {}
  PROVE  RowEffect
<1> DEFINE v == sess[s].version
           to == sess[s].to
           loaded == sess[s].row
           new == Merge(rows[v], loaded, Target(to, loaded))
<1>1. sess[s] \in Request /\ sess[s] # Idle /\ v \in Versions /\ loaded \in Row
  BY RequestParts DEF IInv
<1>2. rows[v] \in Row
  BY <1>1 DEF IInv, TypeOK
<1>3. /\ Shaped(manifests[v], rows[v]) /\ Shaped(manifests[v], loaded) /\ Checked(to, loaded)
      /\ loaded.artifact => rows[v].artifact
      /\ loaded.immutable => rows[v].immutable /\ Payload(rows[v]) = Payload(loaded)
  BY <1>1 DEF IInv, InvRows, InvSessions, Tells
<1>4. WriteAllowed(rows[v], loaded, Target(to, loaded))
  BY DEF Write, Permitted
<1>5. /\ new \in Row
      /\ new.status = to
      /\ new.immutable
      /\ GuardAllows(rows[v], new)
      /\ Shaped(manifests[v], new)
      /\ Payload(new) = Payload(rows[v])
      /\ to # "submitted" => rows[v].immutable /\ Payload(new) = Payload(loaded)
  BY <1>1, <1>2, <1>3, <1>4, RequestWriteKeeps
<1>6. rows' = [rows EXCEPT ![v] = new]
  BY DEF Write
<1>7. Advances(s, new)
  BY <1>5, <1>6 DEF Advances
<1> QED  BY <1>1, <1>5, <1>7 DEF RowEffect

(* A claim moves one row of the queue.                                     *)
LEMMA ClaimEffect ==
  ASSUME IInv, NEW v \in Versions, NEW new \in Row, Claimable(v),
         new.status \in {"scanning", "scan_failed"},
         new.artifact = rows[v].artifact, new.manifest = rows[v].manifest,
         new.manifestSha = rows[v].manifestSha, new.immutable = rows[v].immutable,
         rows' = [rows EXCEPT ![v] = new], UNCHANGED reviews
  PROVE  RowEffect
<1>1. rows[v] \in Row /\ Shaped(manifests[v], rows[v]) /\ (rows[v].artifact => v \in artifacts)
  BY DEF IInv, TypeOK, InvRows
<1>2. ~rows[v].immutable
  BY <1>1 DEF Shaped, Claimable, Outcomes
<1>3. Shaped(manifests[v], new) /\ new.status \notin Outcomes
  BY <1>1, <1>2 DEF Shaped, Whole, Outcomes, Row
<1>4. Drafts(v, new)
  BY <1>1, <1>2, <1>3 DEF Drafts
<1> QED  BY <1>4 DEF RowEffect

(* A worker changes one row, or none.                                      *)
LEMMA WorkerEffect ==
  ASSUME IInv, NEW w \in Workers, WorkerStep(w)
  PROVE  RowEffect
<1>1. ASSUME NEW v \in Versions, Claim(w, v)
      PROVE  RowEffect
  <2> DEFINE new == [rows[v] EXCEPT !.status = "scanning",
                                    !.attempts = @ + 1,
                                    !.lease = "live"]
  <2>1. rows[v] \in Row
    BY DEF IInv, TypeOK
  <2>2. new \in Row
    <3>1. rows[v].attempts + 1 \in Nat
      BY <2>1 DEF Row
    <3>2. "scanning" \in Statuses /\ "live" \in Leases
      BY DEF Statuses, Leases
    <3> QED  BY ONLY <2>1, <3>1, <3>2 DEF Row
  <2>3. /\ new.status = "scanning"
        /\ new.artifact = rows[v].artifact /\ new.manifest = rows[v].manifest
        /\ new.manifestSha = rows[v].manifestSha /\ new.immutable = rows[v].immutable
    BY <2>1 DEF Row
  <2>4. Claimable(v) /\ rows' = [rows EXCEPT ![v] = new] /\ UNCHANGED reviews
    BY <1>1 DEF Claim, ClaimWrites
  <2> QED  BY ONLY IInv, <2>2, <2>3, <2>4, ClaimEffect
<1>2. ASSUME NEW v \in Versions, ClaimExhausted(w, v)
      PROVE  RowEffect
  <2> DEFINE new == [rows[v] EXCEPT !.status = "scan_failed",
                                    !.scan = "failed",
                                    !.lease = "none"]
  <2>1. rows[v] \in Row
    BY DEF IInv, TypeOK
  <2>2. new \in Row
    BY <2>1 DEF Row, Statuses, ScanStatuses, Leases
  <2>3. /\ new.status = "scan_failed"
        /\ new.artifact = rows[v].artifact /\ new.manifest = rows[v].manifest
        /\ new.manifestSha = rows[v].manifestSha /\ new.immutable = rows[v].immutable
    BY <2>1 DEF Row
  <2>4. Claimable(v) /\ rows' = [rows EXCEPT ![v] = new] /\ UNCHANGED reviews
    BY <1>2 DEF ClaimExhausted, ClaimWrites
  <2> QED  BY ONLY IInv, <2>2, <2>3, <2>4, ClaimEffect
<1>3. CASE Requeue(w)
  <2> DEFINE target == [worker[w].row EXCEPT !.status = "pending_scan", !.lease = "none"]
  <2>1. worker[w].stage \in Writing /\ worker[w].row \in Row
    BY <1>3, TaskParts DEF Requeue, IInv, Writing
  <2>2. target \in Row
    BY <2>1 DEF Row, Statuses, Leases
  <2>3. /\ target.status = "pending_scan"
        /\ target.artifact = worker[w].row.artifact
        /\ target.manifest = worker[w].row.manifest
        /\ target.manifestSha = worker[w].row.manifestSha
        /\ target.immutable = worker[w].row.immutable
    BY <2>1 DEF Row
  <2>4. WorkerWrite(w, target, Free) /\ UNCHANGED reviews
    BY <1>3 DEF Requeue
  <2> HIDE DEF target
  <2> QED  BY <2>1, <2>2, <2>3, <2>4, WorkerWriteEffect
<1>4. CASE RejectPackage(w)
  <2> DEFINE target == [worker[w].row EXCEPT
                          !.status = "scan_failed",
                          !.scan = "failed",
                          !.signature = ScannedSignature(worker[w].version),
                          !.lease = "none"]
  <2>1. /\ worker[w].stage \in Writing /\ worker[w].row \in Row
        /\ worker[w].version \in Versions
    BY <1>4, TaskParts DEF RejectPackage, IInv, Writing
  <2>2. target \in Row
    BY <2>1, ScannedSignatureType DEF Row, Statuses, ScanStatuses, Leases
  <2>3. /\ target.status = "scan_failed"
        /\ target.artifact = worker[w].row.artifact
        /\ target.manifest = worker[w].row.manifest
        /\ target.manifestSha = worker[w].row.manifestSha
        /\ target.immutable = worker[w].row.immutable
    BY <2>1 DEF Row
  <2>4. WorkerWrite(w, target, Free) /\ UNCHANGED reviews
    BY <1>4 DEF RejectPackage
  <2> HIDE DEF target
  <2> QED  BY <2>1, <2>2, <2>3, <2>4, WorkerWriteEffect
<1>5. CASE Promote(w)
  <2> DEFINE v == worker[w].version
             m == worker[w].manifest
             target == [worker[w].row EXCEPT
                          !.status = "draft",
                          !.artifact = TRUE,
                          !.manifest = m,
                          !.manifestSha = ManifestDigest(m),
                          !.scan = "passed",
                          !.signature = ScannedSignature(v),
                          !.lease = "none"]
  <2>1. worker[w].stage \in Writing /\ worker[w].row \in Row /\ v \in Versions
    BY <1>5, TaskParts DEF Promote, IInv, Writing
  <2>2. m \in Manifests /\ manifests[v] = m /\ v \in artifacts
    BY <1>5 DEF Promote, IInv, InvWorkers
  <2>3. ManifestDigest(m) \in Digests
    BY <2>2 DEF Digests
  <2>4. target \in Row
    BY <2>1, <2>2, <2>3, ScannedSignatureType DEF Row, Statuses, ScanStatuses, Leases
  <2>5. /\ target.status = "draft"
        /\ target.artifact
        /\ target.manifest = m
        /\ target.manifestSha = ManifestDigest(m)
        /\ target.immutable = worker[w].row.immutable
    BY <2>1 DEF Row
  <2>6. WorkerWrite(w, target, TaskOf("cleanup", v)) /\ UNCHANGED reviews
    BY <1>5 DEF Promote
  <2> HIDE DEF target
  <2> QED  BY <2>1, <2>2, <2>4, <2>5, <2>6, WorkerWriteEffect
<1>6. CASE \/ ScanStart(w) \/ ScanRaises(w)
           \/ \E m \in Manifests \cup {NoManifest} : ScanDone(w, m)
           \/ InfraReload(w) \/ FinishReload(w)
           \/ StoreArtifact(w) \/ StoreManifest(w) \/ ManifestConflict(w)
           \/ DeleteQuarantine(w)
  BY <1>6 DEF RowEffect, ScanStart, ScanRaises, ScanDone, InfraReload, FinishReload, Reload,
              StoreArtifact, StoreManifest, ManifestConflict, DeleteQuarantine
<1> QED  BY <1>1, <1>2, <1>3, <1>4, <1>5, <1>6 DEF WorkerStep

(* A request changes one row, or none.                                     *)
LEMMA RequestEffect ==
  ASSUME IInv, NEW s \in Sessions, RequestStep(s)
  PROVE  RowEffect
<1>1. CASE SubmitCommit(s)
  BY <1>1, RequestWriteEffect DEF SubmitCommit, Outcomes
<1>2. CASE ReviewCommit(s)
  <2> DEFINE v == sess[s].version
             row == sess[s].row
  <2>1. sess[s].to \in {"approved", "rejected"} /\ Write(s)
    BY <1>2 DEF ReviewCommit
  <2>2. sess[s] # Idle /\ v \in Versions
    BY <2>1, RequestParts DEF IInv, Outcomes
  <2>3. Shaped(manifests[v], row) /\ row.status = "submitted"
    BY <2>1, <2>2 DEF IInv, InvSessions, Tells, Checked
  <2>4. row.manifestSha = ManifestDigest(row.manifest)
    BY <2>3 DEF Shaped, Whole, Outcomes
  <2>5. EvidenceOf(v, sess[s].to, Payload(row)) =
          [version |-> v, decision |-> sess[s].to,
           manifestSha |-> ManifestDigest(row.manifest), signature |-> row.signature]
    BY <2>4 DEF EvidenceOf, Payload
  <2>6. reviews' = reviews \cup {EvidenceOf(v, sess[s].to, Payload(row))}
    BY <1>2, <2>5 DEF ReviewCommit
  <2> QED  BY <2>1, <2>6, RequestWriteEffect DEF Outcomes
<1>3. CASE PublishCommit(s)
  BY <1>3, RequestWriteEffect DEF PublishCommit, Outcomes
<1>4. CASE DeprecateCommit(s)
  BY <1>4, RequestWriteEffect DEF DeprecateCommit, Outcomes
<1>5. CASE \/ \E v \in Versions :
                \/ SubmitLoad(s, v) \/ PublishLoad(s, v) \/ DeprecateLoad(s, v)
                \/ \E decision \in {"approved", "rejected"} : ReviewLoad(s, v, decision)
           \/ Rollback(s)
  BY <1>5 DEF RowEffect, SubmitLoad, PublishLoad, DeprecateLoad, ReviewLoad, Load, Rollback
<1> QED  BY <1>1, <1>2, <1>3, <1>4, <1>5 DEF RequestStep

(* The end of a lease changes nothing but the lease.                       *)
LEMMA LeaseEffect ==
  ASSUME IInv, NEW v \in Versions, LeaseExpires(v)
  PROVE  RowEffect
<1> DEFINE new == [rows[v] EXCEPT !.lease = "expired"]
<1>1. rows[v] \in Row /\ Shaped(manifests[v], rows[v]) /\ rows[v].status = "scanning"
  BY DEF IInv, TypeOK, InvRows, LeaseExpires
<1>2. new \in Row
  BY <1>1 DEF Row, Leases
<1>3. /\ new.status = "scanning"
      /\ new.artifact = rows[v].artifact /\ new.manifest = rows[v].manifest
      /\ new.manifestSha = rows[v].manifestSha /\ new.immutable = rows[v].immutable
  BY <1>1 DEF Row
<1>4. ~rows[v].immutable /\ Shaped(manifests[v], new)
  BY <1>1, <1>3 DEF Shaped, Whole, Outcomes
<1>5. rows' = [rows EXCEPT ![v] = new] /\ UNCHANGED reviews
  BY DEF LeaseExpires
<1>6. rows[v].artifact => v \in artifacts
  BY DEF IInv, InvRows
<1> HIDE DEF new
<1>7. Drafts(v, new)
  BY <1>3, <1>4, <1>5, <1>6 DEF Drafts, Outcomes
<1> QED  BY <1>2, <1>7 DEF RowEffect

(* Every step changes one row, or none.                                    *)
LEMMA StepEffect ==
  ASSUME IInv, [Next]_vars
  PROVE  RowEffect
<1>1. ASSUME NEW w \in Workers, WorkerDies(w)
      PROVE  RowEffect
  BY <1>1 DEF WorkerDies, RowEffect
<1>2. CASE UNCHANGED vars
  BY <1>2 DEF vars, RowEffect
<1> QED  BY <1>1, <1>2, WorkerEffect, RequestEffect, LeaseEffect DEF Next

-----------------------------------------------------------------------------
(* Every step moves forward.                                               *)

(* Every step moves rows, reviews and release bucket forward only.         *)
LEMMA StepEvolves ==
  ASSUME IInv, [Next]_vars
  PROVE  Evolves
<1>1. rows \in [Versions -> Row]
  BY DEF IInv, TypeOK
<1>2. ASSUME NEW v \in Versions
      PROVE  GuardAllows(rows[v], rows'[v]) /\ (rows[v].artifact => rows'[v].artifact)
  <2>1. CASE rows' = rows
    BY <2>1 DEF GuardAllows, Payload
  <2>2. ASSUME NEW u \in Versions, NEW new \in Row, Drafts(u, new)
        PROVE  GuardAllows(rows[v], rows'[v]) /\ (rows[v].artifact => rows'[v].artifact)
    BY <1>1, <2>2 DEF Drafts, GuardAllows, Payload
  <2>3. ASSUME NEW s \in Sessions, NEW new \in Row, sess[s].version \in Versions,
               Advances(s, new)
        PROVE  GuardAllows(rows[v], rows'[v]) /\ (rows[v].artifact => rows'[v].artifact)
    <3>1. CASE v = sess[s].version
      BY <1>1, <2>3, <3>1 DEF Advances, Payload
    <3>2. CASE v # sess[s].version
      BY <1>1, <2>3, <3>2 DEF Advances, GuardAllows, Payload
    <3> QED  BY <3>1, <3>2
  <2> QED  BY <2>1, <2>2, <2>3, StepEffect DEF RowEffect
<1>3. reviews \subseteq reviews'
  <2>1. RowEffect
    BY StepEffect
  <2> QED  BY <2>1 DEF RowEffect, Drafts, Advances
<1>4. /\ artifacts \subseteq artifacts'
      /\ \A v \in Versions : manifests[v] \in Manifests => manifests'[v] = manifests[v]
  <2>1. CASE UNCHANGED <<artifacts, manifests>>
    BY <2>1
  <2>2. ASSUME NEW w \in Workers, StoreArtifact(w)
        PROVE  artifacts \subseteq artifacts' /\ UNCHANGED manifests
    BY <2>2 DEF StoreArtifact
  <2>3. ASSUME NEW w \in Workers, StoreManifest(w)
        PROVE  /\ UNCHANGED artifacts
               /\ \A v \in Versions : manifests[v] \in Manifests => manifests'[v] = manifests[v]
    <3>1. manifests \in [Versions -> Manifests \cup {NoManifest}]
      BY DEF IInv, TypeOK
    <3> QED  BY <2>3, <3>1, NoManifestAssumption DEF StoreManifest
  <2>4. ASSUME NEW w \in Workers, WorkerStep(w) \/ WorkerDies(w),
               ~StoreArtifact(w), ~StoreManifest(w)
        PROVE  UNCHANGED <<artifacts, manifests>>
    BY <2>4 DEF WorkerStep, WorkerDies, Claim, ClaimExhausted, ScanStart, ScanRaises, ScanDone,
                InfraReload, FinishReload, Reload, Requeue, RejectPackage, ManifestConflict,
                Promote, DeleteQuarantine, store
  <2>5. ASSUME NEW v \in Versions, LeaseExpires(v)
        PROVE  UNCHANGED <<artifacts, manifests>>
    BY <2>5 DEF LeaseExpires, store
  <2>6. ASSUME NEW s \in Sessions, RequestStep(s)
        PROVE  UNCHANGED <<artifacts, manifests>>
    BY <2>6 DEF RequestStep, SubmitLoad, ReviewLoad, PublishLoad, DeprecateLoad, Load,
                SubmitCommit, ReviewCommit, PublishCommit, DeprecateCommit, Write, Rollback, store
  <2>7. CASE UNCHANGED vars
    BY <2>7 DEF vars
  <2> QED  BY <2>1, <2>2, <2>3, <2>4, <2>5, <2>6, <2>7 DEF Next
<1> QED  BY <1>2, <1>3, <1>4 DEF Evolves

(* What a loaded row tells, it tells for ever.                             *)
LEMMA ShapedStable ==
  ASSUME NEW object, NEW later, NEW row, object \in Manifests => later = object,
         Shaped(object, row)
  PROVE  Shaped(later, row)
BY DEF Shaped, Whole

(* What a loaded row tells stays true.                                     *)
LEMMA TellsStable ==
  ASSUME Evolves, NEW v \in Versions, NEW row, Tells(manifests[v], row, rows[v])
  PROVE  Tells(manifests'[v], row, rows'[v])
<1>1. Shaped(manifests'[v], row)
  BY ShapedStable DEF Evolves, Tells
<1>2. row.artifact => rows'[v].artifact
  BY DEF Evolves, Tells
<1>3. row.immutable => rows'[v].immutable /\ Payload(rows'[v]) = Payload(row)
  BY DEF Evolves, Tells, GuardAllows
<1> QED  BY <1>1, <1>2, <1>3 DEF Tells

-----------------------------------------------------------------------------
(* The parts of the invariant, one by one.                                 *)

(* Every step keeps the shape of the rows.                                 *)
LEMMA PreservesRows ==
  ASSUME IInv, [Next]_vars
  PROVE  InvRows'
<1> DEFINE Good(v) == /\ Shaped(manifests'[v], rows'[v])
                      /\ rows'[v].artifact => v \in artifacts'
                      /\ rows'[v].status \in {"published", "deprecated"} => Trusted(rows'[v])
<1>1. Evolves
  BY StepEvolves
<1>2. rows \in [Versions -> Row]
  BY DEF IInv, TypeOK
<1>3. ASSUME NEW v \in Versions
      PROVE  Good(v)
  <2>1. /\ \A row : Shaped(manifests[v], row) => Shaped(manifests'[v], row)
        /\ Shaped(manifests[v], rows[v])
        /\ v \in artifacts => v \in artifacts'
        /\ rows[v].artifact => v \in artifacts
        /\ rows[v].status \in {"published", "deprecated"} => Trusted(rows[v])
    BY <1>1, ShapedStable DEF IInv, InvRows, Released, Evolves
  <2>2. CASE rows'[v] = rows[v]
    BY <2>1, <2>2
  <2>3. ASSUME NEW u \in Versions, NEW new \in Row, Drafts(u, new), rows'[v] # rows[v]
        PROVE  Good(v)
    <3>1. u = v /\ rows'[v] = new
      BY <1>2, <2>3 DEF Drafts
    <3> QED  BY <2>1, <2>3, <3>1 DEF Drafts, Outcomes
  <2>4. ASSUME NEW s \in Sessions, NEW new \in Row, sess[s] \in Request,
               sess[s].version \in Versions, Advances(s, new), rows'[v] # rows[v]
        PROVE  Good(v)
    <3>1. sess[s].version = v /\ rows'[v] = new
      BY <1>2, <2>4 DEF Advances
    <3>2. /\ Shaped(manifests[v], new) /\ Payload(new) = Payload(rows[v])
          /\ new.status = sess[s].to
          /\ new.status # "submitted" => /\ rows[v].immutable
                                         /\ Payload(new) = Payload(sess[s].row)
          /\ GuardAllows(rows[v], new)
      BY <2>4, <3>1 DEF Advances
    <3>3. new.artifact => v \in artifacts
      BY <2>1, <3>2 DEF Payload
    <3>4. new.status = "published" => Trusted(new)
      <4>1. sess[s] # Idle
        BY <2>4 DEF Request, Idle, Outcomes
      <4>2. sess[s].to = "published" => Trusted(sess[s].row)
        BY <4>1 DEF IInv, InvSessions, Checked
      <4> QED  BY <3>2, <4>2 DEF Trusted, Payload
    <3>5. new.status = "deprecated" => Trusted(new)
      <4>1. new.status = "deprecated" => rows[v].status \in {"published", "deprecated"}
        BY <3>2 DEF GuardAllows, LifecycleMoves
      <4> QED  BY <2>1, <3>2, <4>1 DEF Trusted, Payload
    <3> QED  BY <2>1, <3>1, <3>2, <3>3, <3>4, <3>5
  <2> QED  BY <2>2, <2>3, <2>4, StepEffect DEF RowEffect
<1> QED  BY <1>3 DEF InvRows, Released

(* Every step keeps reviews and statuses in accord.                        *)
LEMMA PreservesReviews ==
  ASSUME IInv, [Next]_vars
  PROVE  InvReviews'
<1> DEFINE Decided == ApprovedStatuses \cup {"rejected"}
<1>1. rows \in [Versions -> Row] /\ reviews \subseteq Review
  BY DEF IInv, TypeOK
<1>2. \A r \in reviews : /\ r.version \in Versions
                         /\ rows[r.version].status \in Decided
                         /\ r.decision = Verdict(rows[r.version].status)
  BY <1>1 DEF Review, IInv, InvReviews
<1>3. \A v \in Versions : rows[v].status \in Decided =>
        EvidenceOf(v, Verdict(rows[v].status), Payload(rows[v])) \in reviews
  BY DEF IInv, InvReviews
<1>4. CASE rows' = rows /\ reviews' = reviews
  BY <1>4, <1>2, <1>3 DEF InvReviews
<1>5. ASSUME NEW u \in Versions, NEW new \in Row, Drafts(u, new)
      PROVE  InvReviews'
  <2>1. rows[u].status \notin Decided /\ new.status \notin Decided
    BY <1>5 DEF IInv, InvRows, Shaped, Drafts, Outcomes, ApprovedStatuses
  <2>2. /\ \A v \in Versions \ {u} : rows'[v] = rows[v]
        /\ rows'[u] = new
        /\ reviews' = reviews
    BY <1>1, <1>5 DEF Drafts
  <2> QED  BY <1>2, <1>3, <2>1, <2>2 DEF InvReviews
<1>6. ASSUME NEW s \in Sessions, NEW new \in Row, sess[s] \in Request,
             sess[s].version \in Versions, Advances(s, new)
      PROVE  InvReviews'
  <2> DEFINE u == sess[s].version
             to == sess[s].to
             evidence == EvidenceOf(u, to, Payload(sess[s].row))
  <2>1. /\ \A v \in Versions \ {u} : rows'[v] = rows[v]
        /\ rows'[u] = new
        /\ new.status = to
        /\ Payload(new) = Payload(rows[u])
        /\ to # "submitted" => rows[u].immutable /\ Payload(new) = Payload(sess[s].row)
        /\ GuardAllows(rows[u], new)
        /\ to \in Outcomes
    BY <1>1, <1>6 DEF Advances, Request
  <2>2. rows[u].immutable <=> rows[u].status \in Outcomes
    BY <1>6 DEF IInv, InvRows, Shaped
  <2>3. CASE to = "submitted"
    <3>1. rows[u].status \notin Decided /\ new.status \notin Decided /\ reviews' = reviews
      BY <1>6, <2>1, <2>2, <2>3
         DEF Advances, GuardAllows, LifecycleMoves, ApprovedStatuses, Outcomes
    <3> QED  BY <1>2, <1>3, <2>1, <3>1 DEF InvReviews
  <2>4. CASE to \in {"approved", "rejected"}
    <3>1. rows[u].status \in {"submitted", to}
      BY <2>1, <2>4 DEF GuardAllows, LifecycleMoves
    <3>2. reviews' = reviews \cup {evidence}
      BY <1>6, <2>4 DEF Advances
    <3>3. evidence.version = u /\ evidence.decision = to /\ Verdict(to) = to
      BY <2>4 DEF EvidenceOf, Verdict
    <3>4. to \in Decided /\ "submitted" \notin Decided
      BY <2>4 DEF ApprovedStatuses
    <3>5. evidence = EvidenceOf(u, Verdict(new.status), Payload(new))
      BY <2>1, <2>4, <3>3
    <3> QED  BY <1>2, <1>3, <2>1, <3>1, <3>2, <3>3, <3>4, <3>5 DEF InvReviews
  <2>5. CASE to \in {"published", "deprecated"}
    <3>1. rows[u].status \in ApprovedStatuses
      BY <2>1, <2>5 DEF GuardAllows, LifecycleMoves, ApprovedStatuses
    <3>2. /\ to \in Decided /\ rows[u].status \in Decided
          /\ Verdict(to) = "approved" /\ Verdict(rows[u].status) = "approved"
      BY <2>5, <3>1 DEF Verdict, ApprovedStatuses
    <3>3. reviews' = reviews
      BY <1>6, <2>5 DEF Advances
    <3> QED  BY <1>2, <1>3, <2>1, <3>2, <3>3 DEF InvReviews
  <2> QED  BY <2>1, <2>3, <2>4, <2>5 DEF Outcomes
<1> QED  BY <1>4, <1>5, <1>6, StepEffect DEF RowEffect

(* A request is left alone, ends, or loads a row that passes its checks.   *)
LEMMA SessionEffect ==
  ASSUME IInv, [Next]_vars, NEW s \in Sessions
  PROVE  \/ sess'[s] \in {sess[s], Idle}
         \/ \E v \in Versions, to \in Outcomes :
              /\ sess'[s] = [to |-> to, version |-> v, row |-> rows[v]]
              /\ Checked(to, rows[v])
              /\ rows' = rows /\ manifests' = manifests
<1> DEFINE Loads(v, to) == /\ sess'[s] = [to |-> to, version |-> v, row |-> rows[v]]
                           /\ Checked(to, rows[v])
                           /\ rows' = rows /\ manifests' = manifests
<1>1. sess \in [Sessions -> Request \cup {Idle}]
  BY DEF IInv, TypeOK
<1>2. ASSUME NEW t \in Sessions, NEW v \in Versions, NEW to \in Outcomes,
             Load(t, to, v), Checked(to, rows[v])
      PROVE  sess'[s] = sess[s] \/ Loads(v, to)
  BY <1>1, <1>2 DEF Load, store
<1>3. ASSUME NEW t \in Sessions, RequestStep(t)
      PROVE  \/ sess'[s] \in {sess[s], Idle}
             \/ \E v \in Versions, to \in Outcomes : Loads(v, to)
  <2>1. ASSUME NEW v \in Versions, SubmitLoad(t, v)
        PROVE  sess'[s] = sess[s] \/ Loads(v, "submitted")
    BY <1>2, <2>1 DEF SubmitLoad, Ready, Checked, Outcomes
  <2>2. ASSUME NEW v \in Versions, NEW to \in {"approved", "rejected"}, ReviewLoad(t, v, to)
        PROVE  sess'[s] = sess[s] \/ Loads(v, to)
    BY <1>2, <2>2 DEF ReviewLoad, Checked, Outcomes
  <2>3. ASSUME NEW v \in Versions, PublishLoad(t, v)
        PROVE  sess'[s] = sess[s] \/ Loads(v, "published")
    BY <1>2, <2>3 DEF PublishLoad, Trusted, Checked, Outcomes
  <2>4. ASSUME NEW v \in Versions, DeprecateLoad(t, v)
        PROVE  sess'[s] = sess[s] \/ Loads(v, "deprecated")
    BY <1>2, <2>4 DEF DeprecateLoad, Checked, Outcomes
  <2>5. CASE \/ SubmitCommit(t) \/ ReviewCommit(t) \/ PublishCommit(t) \/ DeprecateCommit(t)
             \/ Rollback(t)
    BY <1>1, <2>5 DEF SubmitCommit, ReviewCommit, PublishCommit, DeprecateCommit, Write,
                      Rollback, Finished
  <2> HIDE DEF Loads
  <2>6. {"submitted", "approved", "rejected", "published", "deprecated"} \subseteq Outcomes
    BY DEF Outcomes
  <2> QED  BY <1>3, <2>1, <2>2, <2>3, <2>4, <2>5, <2>6 DEF RequestStep
<1>4. ASSUME NEW w \in Workers, WorkerStep(w) \/ WorkerDies(w)
      PROVE  sess' = sess
  BY <1>4 DEF WorkerStep, WorkerDies, Claim, ClaimExhausted, ScanStart, ScanRaises, ScanDone,
              InfraReload, FinishReload, Reload, Requeue, RejectPackage, StoreArtifact,
              StoreManifest, ManifestConflict, Promote, DeleteQuarantine
<1>5. ASSUME NEW v \in Versions, LeaseExpires(v)
      PROVE  sess' = sess
  BY <1>5 DEF LeaseExpires
<1>6. CASE UNCHANGED vars
  BY <1>6 DEF vars
<1> QED  BY <1>3, <1>4, <1>5, <1>6 DEF Next

(* Every step keeps what requests have checked.                            *)
LEMMA PreservesSessions ==
  ASSUME IInv, [Next]_vars
  PROVE  InvSessions'
<1> SUFFICES ASSUME NEW s \in Sessions, sess'[s] # Idle
             PROVE  /\ Tells(manifests'[sess'[s].version], sess'[s].row, rows'[sess'[s].version])
                    /\ Checked(sess'[s].to, sess'[s].row)
  BY DEF InvSessions
<1>1. CASE sess'[s] = sess[s]
  <2>1. sess[s].version \in Versions
    BY <1>1 DEF IInv, TypeOK, Request
  <2> QED  BY <1>1, <2>1, StepEvolves, TellsStable DEF IInv, InvSessions
<1>2. CASE \E v \in Versions, to \in Outcomes :
             /\ sess'[s] = [to |-> to, version |-> v, row |-> rows[v]]
             /\ Checked(to, rows[v])
             /\ rows' = rows /\ manifests' = manifests
  <2>1. PICK v \in Versions, to \in Outcomes :
             /\ sess'[s] = [to |-> to, version |-> v, row |-> rows[v]]
             /\ Checked(to, rows[v])
             /\ rows' = rows /\ manifests' = manifests
    BY <1>2
  <2>2. Tells(manifests[v], rows[v], rows[v])
    BY DEF IInv, InvRows, Tells
  <2> QED  BY <2>1, <2>2
<1> QED  BY <1>1, <1>2, SessionEffect

(* Every step keeps what workers have checked.                             *)
LEMMA PreservesWorkers ==
  ASSUME IInv, [Next]_vars
  PROVE  InvWorkers'
<1> DEFINE v(w) == worker'[w].version
           Good(w) == /\ worker'[w].stage \in Writing =>
                           /\ Tells(manifests'[v(w)], worker'[w].row, rows'[v(w)])
                           /\ worker'[w].row.status = "scanning"
                      /\ worker'[w].stage \in {"result", "finish"} /\ Passes(v(w)) =>
                           worker'[w].manifest \in Manifests
                      /\ worker'[w].stage \in {"stored", "listed"} =>
                           worker'[w].manifest \in Manifests /\ v(w) \in artifacts'
                      /\ worker'[w].stage = "listed" => manifests'[v(w)] = worker'[w].manifest
<1>1. worker \in [Workers -> Task \cup {Free}]
  BY DEF IInv, TypeOK
<1>2. Evolves
  BY StepEvolves
<1>3. ASSUME NEW x \in Workers, worker'[x] = worker[x]
      PROVE  Good(x)
  <2>1. worker[x].stage \in Holding \cup Writing => worker[x].version \in Versions
    BY TaskParts DEF IInv
  <2>2. worker[x].stage \in Writing =>
          /\ Tells(manifests'[worker[x].version], worker[x].row, rows'[worker[x].version])
          /\ worker[x].row.status = "scanning"
    BY <1>2, <2>1, TellsStable DEF IInv, InvWorkers
  <2>3. worker[x].stage \in {"stored", "listed"} => worker[x].version \in artifacts'
    BY <1>2 DEF IInv, InvWorkers, Evolves
  <2>4. worker[x].stage = "listed" => manifests'[worker[x].version] = worker[x].manifest
    BY <1>2, <2>1 DEF IInv, InvWorkers, Evolves, Holding, Writing
  <2> QED  BY <1>3, <2>2, <2>3, <2>4 DEF IInv, InvWorkers
<1>4. ASSUME NEW x \in Workers, \/ worker'[x] = Free
                                \/ /\ worker'[x].stage \in {"scan", "read", "infra", "cleanup"}
      PROVE  Good(x)
  BY <1>4 DEF Free, Writing
<1>5. ASSUME NEW w \in Workers, WorkerStep(w) \/ WorkerDies(w), NEW x \in Workers
      PROVE  Good(x)
  <2>1. CASE \/ \E u \in Versions : Claim(w, u) \/ ClaimExhausted(w, u)
             \/ ScanStart(w) \/ ScanRaises(w)
             \/ Requeue(w) \/ RejectPackage(w)
             \/ ManifestConflict(w) \/ Promote(w) \/ DeleteQuarantine(w) \/ WorkerDies(w)
    <3> DEFINE Resting(t) == t = Free \/ t.stage \in {"scan", "read", "infra", "cleanup"}
    <3> HIDE DEF Good
    <3>1. ASSUME NEW u \in Versions, Claim(w, u)
          PROVE  worker' = [worker EXCEPT ![w] = TaskOf("scan", u)]
      BY <3>1 DEF Claim
    <3>2. ASSUME NEW u \in Versions, ClaimExhausted(w, u)
          PROVE  worker' = worker
      BY <3>2 DEF ClaimExhausted
    <3>3. CASE ScanStart(w) \/ ScanRaises(w)
      <4>1. worker[w] \in [stage : Holding, version : Versions,
                           manifest : Manifests \cup {NoManifest}]
        BY <1>1, <3>3 DEF ScanStart, ScanRaises, Task, Free, Holding, Writing
      <4>2. \A stage : [worker[w] EXCEPT !.stage = stage].stage = stage
        BY <4>1
      <4>3. \E t : worker' = [worker EXCEPT ![w] = t] /\ Resting(t)
        BY <3>3, <4>2 DEF ScanStart, ScanRaises, Release
      <4> QED  BY <1>1, <1>3, <1>4, <4>3
    <3>4. ASSUME NEW target, NEW then, WorkerWrite(w, target, then), Resting(then)
          PROVE  \E t : worker' = [worker EXCEPT ![w] = t] /\ Resting(t)
      BY <3>4 DEF WorkerWrite, Release
    <3>5. Resting(Free) /\ \A u : Resting(TaskOf("cleanup", u)) /\ Resting(TaskOf("scan", u))
      BY DEF TaskOf
    <3> HIDE DEF Resting
    <3>6. CASE Requeue(w)
      <4>1. \E t : worker' = [worker EXCEPT ![w] = t] /\ Resting(t)
        BY <3>4, <3>5, <3>6 DEF Requeue
      <4> QED  BY <1>1, <1>3, <1>4, <4>1 DEF Resting
    <3>7. CASE RejectPackage(w)
      <4>1. \E t : worker' = [worker EXCEPT ![w] = t] /\ Resting(t)
        BY <3>4, <3>5, <3>7 DEF RejectPackage
      <4> QED  BY <1>1, <1>3, <1>4, <4>1 DEF Resting
    <3>8. CASE Promote(w)
      <4>1. \E t : worker' = [worker EXCEPT ![w] = t] /\ Resting(t)
        BY <3>4, <3>5, <3>8 DEF Promote
      <4> QED  BY <1>1, <1>3, <1>4, <4>1 DEF Resting
    <3>9. CASE ManifestConflict(w) \/ DeleteQuarantine(w) \/ WorkerDies(w)
      <4>1. worker' = [worker EXCEPT ![w] = Free]
        BY <3>9 DEF ManifestConflict, DeleteQuarantine, WorkerDies, Release
      <4> QED  BY <1>1, <1>3, <1>4, <4>1
    <3>10. ASSUME NEW u \in Versions, Claim(w, u) \/ ClaimExhausted(w, u)
           PROVE  Good(x)
      BY <1>1, <1>3, <1>4, <3>1, <3>2, <3>5, <3>10 DEF Resting
    <3> QED  BY <2>1, <3>3, <3>6, <3>7, <3>8, <3>9, <3>10
  <2>2. ASSUME NEW m, ScanDone(w, m)
        PROVE  Good(x)
    <3>1. x # w => worker'[x] = worker[x]
      BY <1>1, <2>2 DEF ScanDone
    <3>2. CASE x = w
      <4>1. /\ worker'[w].stage = "result"
            /\ worker'[w].manifest = m
            /\ v(w) = worker[w].version
        BY <1>1, <2>2, TaskParts DEF ScanDone, IInv, TypeOK, Task, Free
      <4>2. Passes(v(w)) => m \in Manifests
        BY <2>2, <4>1 DEF ScanDone
      <4> QED  BY <3>2, <4>1, <4>2 DEF Writing
    <3> QED  BY <1>3, <3>1, <3>2
  <2>3. ASSUME NEW from \in {"infra", "result"}, NEW to \in {"requeue", "finish"}, Reload(w, from, to),
               to = "finish" => from = "result"
        PROVE  Good(x)
    <3>1. x # w => worker'[x] = worker[x]
      BY <1>1, <2>3 DEF Reload, Release
    <3>2. CASE x = w /\ worker'[w] = Free
      BY <1>4, <3>2
    <3>3. CASE x = w /\ worker'[w] # Free
      <4> DEFINE u == worker[w].version
      <4>1. /\ worker[w].stage = from
            /\ rows[u].status = "scanning"
            /\ worker'[w] = [stage |-> to, version |-> u,
                             manifest |-> worker[w].manifest, row |-> rows[u]]
            /\ rows' = rows /\ manifests' = manifests
        BY <1>1, <2>3, <3>3 DEF Reload, Release, store
      <4>2. u \in Versions
        BY <4>1, TaskParts DEF IInv, Holding
      <4>3. Tells(manifests[u], rows[u], rows[u])
        BY <4>2 DEF IInv, InvRows, Tells
      <4>4. to = "finish" /\ Passes(u) => worker[w].manifest \in Manifests
        BY <2>3, <4>1 DEF IInv, InvWorkers
      <4> QED  BY <2>3, <3>3, <4>1, <4>3, <4>4
    <3> QED  BY <1>3, <3>1, <3>2, <3>3
  <2>4. CASE StoreArtifact(w)
    <3>1. x # w => worker'[x] = worker[x]
      BY <1>1, <2>4 DEF StoreArtifact
    <3>2. CASE x = w
      <4> DEFINE u == worker[w].version
      <4>1. u \in Versions /\ worker[w].row \in Row /\ worker[w].stage = "finish"
        BY <2>4, TaskParts DEF StoreArtifact, IInv, Writing
      <4>2. worker[w] \in [stage : Writing, version : Versions,
                           manifest : Manifests \cup {NoManifest}, row : Row]
        BY <1>1, <4>1 DEF Task, Free, Holding, Writing
      <4>3. worker' = [worker EXCEPT ![w].stage = "stored"] /\ Passes(u) /\ u \in artifacts'
            /\ rows' = rows /\ manifests' = manifests
        BY <2>4 DEF StoreArtifact
      <4>4. /\ worker'[w].stage = "stored" /\ v(w) = u
            /\ worker'[w].row = worker[w].row /\ worker'[w].manifest = worker[w].manifest
        BY <1>1, <4>2, <4>3
      <4>5. /\ Tells(manifests[u], worker[w].row, rows[u]) /\ worker[w].row.status = "scanning"
            /\ worker[w].manifest \in Manifests
        BY <4>1, <4>3 DEF IInv, InvWorkers, Writing
      <4> QED  BY <3>2, <4>3, <4>4, <4>5
    <3> QED  BY <1>3, <3>1, <3>2
  <2>5. CASE StoreManifest(w)
    <3>1. x # w => worker'[x] = worker[x]
      BY <1>1, <2>5 DEF StoreManifest
    <3>2. CASE x = w
      <4> DEFINE u == worker[w].version
      <4>1. u \in Versions /\ worker[w].row \in Row /\ worker[w].stage = "stored"
        BY <2>5, TaskParts DEF StoreManifest, IInv, Writing
      <4>2. worker[w] \in [stage : Writing, version : Versions,
                           manifest : Manifests \cup {NoManifest}, row : Row]
        BY <1>1, <4>1 DEF Task, Free, Holding, Writing
      <4>3. /\ worker' = [worker EXCEPT ![w].stage = "listed"]
            /\ manifests' = [manifests EXCEPT ![u] = worker[w].manifest]
            /\ rows' = rows /\ artifacts' = artifacts
        BY <2>5 DEF StoreManifest
      <4>4. /\ worker'[w].stage = "listed" /\ v(w) = u
            /\ worker'[w].row = worker[w].row /\ worker'[w].manifest = worker[w].manifest
        BY <1>1, <4>2, <4>3
      <4>5. manifests'[u] = worker[w].manifest
        BY <4>1, <4>3 DEF IInv, TypeOK
      <4>6. /\ Tells(manifests[u], worker[w].row, rows[u]) /\ worker[w].row.status = "scanning"
            /\ worker[w].manifest \in Manifests /\ u \in artifacts
        BY <4>1 DEF IInv, InvWorkers, Writing
      <4>7. Tells(manifests'[u], worker[w].row, rows'[u])
        BY <1>2, <4>1, <4>6, TellsStable
      <4> QED  BY <3>2, <4>3, <4>4, <4>5, <4>6, <4>7
    <3> QED  BY <1>3, <3>1, <3>2
  <2> QED  BY <1>5, <2>1, <2>2, <2>3, <2>4, <2>5 DEF WorkerStep, InfraReload, FinishReload
<1>6. ASSUME NEW x \in Workers,
             \/ \E u \in Versions : LeaseExpires(u)
             \/ \E s \in Sessions : RequestStep(s)
             \/ UNCHANGED vars
      PROVE  worker'[x] = worker[x]
  BY <1>6 DEF LeaseExpires, RequestStep, SubmitLoad, ReviewLoad, PublishLoad, DeprecateLoad, Load,
              SubmitCommit, ReviewCommit, PublishCommit, DeprecateCommit, Write, Rollback, vars
<1> HIDE DEF Good
<1>7. \A x \in Workers : Good(x)
  BY <1>3, <1>5, <1>6 DEF Next
<1> QED  BY <1>7 DEF InvWorkers, Good

(* Rows stay rows.                                                         *)
LEMMA TypeOfRows ==
  ASSUME IInv, [Next]_vars
  PROVE  rows' \in [Versions -> Row] /\ reviews' \subseteq Review
<1>1. rows \in [Versions -> Row] /\ reviews \subseteq Review
  BY DEF IInv, TypeOK
<1>2. ASSUME NEW s \in Sessions, NEW new \in Row, sess[s] \in Request,
             sess[s].version \in Versions, Advances(s, new)
      PROVE  rows' \in [Versions -> Row] /\ reviews' \subseteq Review
  <2> DEFINE v == sess[s].version
             to == sess[s].to
             row == sess[s].row
             evidence == EvidenceOf(v, to, Payload(row))
  <2>1. ASSUME to \in {"approved", "rejected"}
        PROVE  evidence \in Review
    <3>1. row \in Row /\ sess[s] # Idle
      BY <1>2 DEF Request, Idle, Outcomes
    <3>2. Shaped(manifests[v], row) /\ row.status = "submitted"
      BY <2>1, <3>1 DEF IInv, InvSessions, Tells, Checked
    <3>3. row.manifestSha \in Digests
      BY <3>2 DEF Shaped, Whole, Outcomes, Digests
    <3>4. row.signature \in Signatures
      BY <3>1 DEF Row
    <3> QED  BY <1>2, <2>1, <3>3, <3>4 DEF EvidenceOf, Payload, Review
  <2>2. reviews' \subseteq Review
    BY <1>1, <1>2, <2>1 DEF Advances
  <2>3. rows' = [rows EXCEPT ![v] = new]
    BY <1>2 DEF Advances
  <2> QED  BY <1>1, <1>2, <2>2, <2>3
<1>3. ASSUME NEW v \in Versions, NEW new \in Row, Drafts(v, new)
      PROVE  rows' \in [Versions -> Row] /\ reviews' \subseteq Review
  BY <1>1, <1>3 DEF Drafts
<1> QED  BY <1>1, <1>2, <1>3, StepEffect DEF RowEffect

(* Requests stay requests.                                                 *)
LEMMA TypeOfRequests ==
  ASSUME IInv, [Next]_vars
  PROVE  sess' \in [Sessions -> Request \cup {Idle}] /\ feed' \in Seq(Event)
<1>1. /\ sess \in [Sessions -> Request \cup {Idle}]
      /\ feed \in Seq(Event)
      /\ rows \in [Versions -> Row]
  BY DEF IInv, TypeOK
<1>2. ASSUME NEW s \in Sessions, NEW v \in Versions, NEW to \in Outcomes, Load(s, to, v)
      PROVE  sess' \in [Sessions -> Request \cup {Idle}] /\ feed' = feed
  BY <1>1, <1>2 DEF Load, Request
<1>3. ASSUME NEW s \in Sessions, Finished(s)
      PROVE  sess' \in [Sessions -> Request \cup {Idle}]
  BY <1>1, <1>3 DEF Finished
<1>4. ASSUME NEW s \in Sessions, PublishCommit(s) \/ DeprecateCommit(s)
      PROVE  sess' \in [Sessions -> Request \cup {Idle}] /\ feed' \in Seq(Event)
  <2>1. sess[s].version \in Versions
    BY <1>4, RequestParts DEF PublishCommit, DeprecateCommit, Outcomes, IInv
  <2>2. \A type \in {"version.published", "version.deprecated"} :
          [type |-> type, version |-> sess[s].version] \in Event
    BY <2>1 DEF Event
  <2>3. PICK e \in Event : feed' = Append(feed, e)
    BY <1>4, <2>2 DEF PublishCommit, DeprecateCommit, Announce
  <2>4. feed' \in Seq(Event)
    BY <1>1, <2>3
  <2> QED  BY <1>3, <1>4, <2>4 DEF PublishCommit, DeprecateCommit, Write
<1>5. ASSUME NEW s \in Sessions, RequestStep(s)
      PROVE  sess' \in [Sessions -> Request \cup {Idle}] /\ feed' \in Seq(Event)
  <2>1. CASE \E v \in Versions :
               \/ SubmitLoad(s, v) \/ PublishLoad(s, v) \/ DeprecateLoad(s, v)
               \/ \E decision \in {"approved", "rejected"} : ReviewLoad(s, v, decision)
    BY <1>1, <1>2, <2>1 DEF SubmitLoad, PublishLoad, DeprecateLoad, ReviewLoad, Outcomes
  <2>2. CASE SubmitCommit(s) \/ ReviewCommit(s) \/ Rollback(s)
    BY <1>1, <1>3, <2>2 DEF SubmitCommit, ReviewCommit, Write, Rollback
  <2> QED  BY <1>4, <1>5, <2>1, <2>2 DEF RequestStep
<1>6. ASSUME NEW w \in Workers, WorkerStep(w) \/ WorkerDies(w)
      PROVE  UNCHANGED <<sess, feed>>
  BY <1>6 DEF WorkerStep, WorkerDies, Claim, ClaimExhausted, ScanStart, ScanRaises, ScanDone,
              InfraReload, FinishReload, Reload, Requeue, RejectPackage, StoreArtifact,
              StoreManifest, ManifestConflict, Promote, DeleteQuarantine
<1>7. CASE \E v \in Versions : LeaseExpires(v)
  BY <1>1, <1>7 DEF LeaseExpires
<1>8. CASE UNCHANGED vars
  BY <1>1, <1>8 DEF vars
<1> QED  BY <1>1, <1>5, <1>6, <1>7, <1>8 DEF Next

(* Tasks stay tasks.                                                       *)
LEMMA TypeOfWorkers ==
  ASSUME IInv, [Next]_vars
  PROVE  /\ worker' \in [Workers -> Task \cup {Free}]
         /\ quarantine' \subseteq Versions
         /\ artifacts' \subseteq Versions
         /\ manifests' \in [Versions -> Manifests \cup {NoManifest}]
<1> DEFINE Buckets == /\ quarantine' \subseteq Versions
                      /\ artifacts' \subseteq Versions
                      /\ manifests' \in [Versions -> Manifests \cup {NoManifest}]
<1>1. /\ worker \in [Workers -> Task \cup {Free}]
      /\ quarantine \subseteq Versions
      /\ artifacts \subseteq Versions
      /\ manifests \in [Versions -> Manifests \cup {NoManifest}]
      /\ rows \in [Versions -> Row]
  BY DEF IInv, TypeOK
<1>2. ASSUME NEW stage \in Holding, NEW v \in Versions
      PROVE  TaskOf(stage, v) \in Task
  BY <1>2 DEF TaskOf, Task
<1>3. {"scan", "read", "infra", "result", "cleanup"} \subseteq Holding
      /\ {"requeue", "finish", "stored", "listed"} \subseteq Writing
  BY DEF Holding, Writing
<1>4. ASSUME NEW w \in Workers, WorkerStep(w) \/ WorkerDies(w)
      PROVE  worker' \in [Workers -> Task \cup {Free}] /\ Buckets
  <2>1. ASSUME NEW v \in Versions, Claim(w, v) \/ ClaimExhausted(w, v)
        PROVE  worker' \in [Workers -> Task \cup {Free}] /\ Buckets
    BY <1>1, <1>2, <1>3, <2>1 DEF Claim, ClaimExhausted, store
  <2>2. ASSUME worker[w].stage \in {"scan", "read"}, NEW stage \in {"read", "infra", "result"},
               NEW m \in Manifests \cup {NoManifest}
        PROVE  /\ [worker[w] EXCEPT !.stage = stage] \in Task
               /\ [worker[w] EXCEPT !.stage = stage, !.manifest = m] \in Task
    <3>1. worker[w] \in [stage : Holding, version : Versions,
                         manifest : Manifests \cup {NoManifest}]
      BY <1>1, <2>2 DEF Task, Free, Holding, Writing
    <3> QED  BY <1>3, <3>1 DEF Task
  <2>3. CASE ScanStart(w)
    BY <1>1, <2>2, <2>3 DEF ScanStart, Release, store
  <2>4. CASE ScanRaises(w)
    BY <1>1, <2>2, <2>4 DEF ScanRaises, store
  <2>5. ASSUME NEW m \in Manifests \cup {NoManifest}, ScanDone(w, m)
        PROVE  worker' \in [Workers -> Task \cup {Free}] /\ Buckets
    BY <1>1, <2>2, <2>5 DEF ScanDone, store
  <2>6. ASSUME NEW from \in Holding, NEW to \in Writing, Reload(w, from, to)
        PROVE  worker' \in [Workers -> Task \cup {Free}] /\ Buckets
    <3>1. worker[w].version \in Versions /\ worker[w].manifest \in Manifests \cup {NoManifest}
      BY <2>6, TaskParts DEF Reload, IInv
    <3>2. [stage |-> to, version |-> worker[w].version,
           manifest |-> worker[w].manifest, row |-> rows[worker[w].version]] \in Task
      BY <1>1, <3>1 DEF Task
    <3> QED  BY <1>1, <2>6, <3>2 DEF Reload, Release, store
  <2>7. ASSUME NEW target, NEW then \in Task \cup {Free}, WorkerWrite(w, target, then)
        PROVE  worker' \in [Workers -> Task \cup {Free}]
    BY <1>1, <2>7 DEF WorkerWrite, Release
  <2>8. CASE Requeue(w) \/ RejectPackage(w)
    BY <1>1, <2>7, <2>8 DEF Requeue, RejectPackage, store
  <2>9. CASE Promote(w)
    <3>1. worker[w].version \in Versions
      BY <1>3, <2>9, TaskParts DEF Promote, IInv
    <3> QED  BY <1>1, <1>2, <1>3, <2>7, <2>9, <3>1 DEF Promote, store
  <2>10. ASSUME worker[w].stage \in {"finish", "stored"}, NEW stage \in {"stored", "listed"}
         PROVE  [worker[w] EXCEPT !.stage = stage] \in Task
    <3>1. worker[w] \in [stage : Writing, version : Versions,
                         manifest : Manifests \cup {NoManifest}, row : Row]
      BY <1>1, <2>10 DEF Task, Free, Holding, Writing
    <3> QED  BY <1>3, <3>1 DEF Task
  <2>11. CASE StoreArtifact(w)
    <3>1. worker[w].version \in Versions
      BY <1>3, <2>11, TaskParts DEF StoreArtifact, IInv
    <3> QED  BY <1>1, <2>10, <2>11, <3>1 DEF StoreArtifact
  <2>12. CASE StoreManifest(w)
    <3>1. worker[w].manifest \in Manifests \cup {NoManifest}
      BY <1>3, <2>12, TaskParts DEF StoreManifest, IInv
    <3> QED  BY <1>1, <2>10, <2>12, <3>1 DEF StoreManifest
  <2>13. CASE ManifestConflict(w) \/ DeleteQuarantine(w) \/ WorkerDies(w)
    BY <1>1, <2>13 DEF ManifestConflict, DeleteQuarantine, WorkerDies, Release, store
  <2> HIDE DEF Buckets
  <2> QED  BY <1>3, <1>4, <2>1, <2>3, <2>4, <2>5, <2>6, <2>8, <2>9, <2>11, <2>12, <2>13
           DEF WorkerStep, InfraReload, FinishReload
<1>5. CASE \/ \E v \in Versions : LeaseExpires(v)
           \/ \E s \in Sessions : RequestStep(s)
           \/ UNCHANGED vars
  BY <1>1, <1>5 DEF LeaseExpires, RequestStep, SubmitLoad, ReviewLoad, PublishLoad, DeprecateLoad,
              Load, SubmitCommit, ReviewCommit, PublishCommit, DeprecateCommit, Write, Rollback,
              vars, store
<1> QED  BY <1>4, <1>5 DEF Next

-----------------------------------------------------------------------------
(* The invariant and what it says.                                         *)

(* The inductive invariant holds in every behaviour.                       *)
THEOREM Invariance == Spec => []IInv
<1>1. Init => IInv
  <2> SUFFICES ASSUME Init
               PROVE  IInv
    OBVIOUS
  <2>1. NewRow \in Row
    BY DEF NewRow, Row, Statuses, ScanStatuses, Signatures, Leases
  <2>2. TypeOK
    BY <2>1 DEF Init, TypeOK
  <2>3. InvRows
    BY DEF Init, InvRows, Released, Shaped, Whole, NewRow, Outcomes
  <2>4. InvReviews
    BY DEF Init, InvReviews, NewRow, ApprovedStatuses
  <2>5. InvSessions /\ InvWorkers
    BY DEF Init, InvSessions, InvWorkers, Free, Writing
  <2> QED  BY <2>2, <2>3, <2>4, <2>5 DEF IInv
<1>2. IInv /\ [Next]_vars => IInv'
  <2> SUFFICES ASSUME IInv, [Next]_vars
               PROVE  IInv'
    OBVIOUS
  <2>1. TypeOK'
    BY TypeOfRows, TypeOfRequests, TypeOfWorkers DEF TypeOK
  <2> QED  BY <2>1, PreservesRows, PreservesReviews, PreservesSessions, PreservesWorkers DEF IInv
<1> QED  BY <1>1, <1>2, PTL DEF Spec

(* Every variable keeps its type.                                          *)
THEOREM TypeCorrect == Spec => []TypeOK
<1>1. IInv => TypeOK
  BY DEF IInv
<1> QED  BY <1>1, Invariance, PTL

(* No two reviewers, however they race, leave opposite verdicts on record. *)
THEOREM OneVerdict == Spec => []NoSplitVerdict
<1>1. IInv => NoSplitVerdict
  BY DEF IInv, InvReviews, NoSplitVerdict
<1> QED  BY <1>1, Invariance, PTL

(* Nothing is published without a passed scan, the signature the policy    *)
(* asks for and an approval on record of exactly the payload published.    *)
THEOREM PublishedOnlyIfApproved == Spec => []PublishedIsApproved
<1>1. ASSUME IInv
      PROVE  PublishedIsApproved
  <2> SUFFICES ASSUME NEW v \in Versions, Released(v)
               PROVE  Trusted(rows[v]) /\ \E r \in reviews : Approves(r, v, rows[v])
    BY DEF PublishedIsApproved, Trusted
  <2> DEFINE r == EvidenceOf(v, "approved", Payload(rows[v]))
  <2>1. Trusted(rows[v])
    BY <1>1 DEF IInv, InvRows
  <2>2. r \in reviews
    BY <1>1 DEF IInv, InvReviews, Released, Verdict, ApprovedStatuses
  <2>3. rows[v].manifestSha = ManifestDigest(rows[v].manifest)
    BY <1>1 DEF IInv, InvRows, Released, Shaped, Whole, Outcomes
  <2>4. Approves(r, v, rows[v])
    BY <2>3 DEF Approves, EvidenceOf, Payload
  <2> QED  BY <2>1, <2>2, <2>4
<1> QED  BY <1>1, Invariance, PTL

(* What the registry hands out is what its row and its approval name.      *)
THEOREM ReleaseAgrees == Spec => []ReleaseHoldsPayload
<1>1. IInv => ReleaseHoldsPayload
  BY DEF IInv, InvRows, Shaped, Whole, ReleaseHoldsPayload
<1> QED  BY <1>1, Invariance, PTL

-----------------------------------------------------------------------------
(* The feed.  Only the commits of publish and deprecate write an outcome   *)
(* that is announced, and they append to the feed.                         *)

(* A step that announces nothing leaves a released version as it is and    *)
(* releases none.                                                          *)
Quiet ==
  /\ feed' = feed
  /\ \A v \in Versions :
       rows'[v].status \in {rows[v].status} \cup (Statuses \ {"published", "deprecated"})

(* A write of a status that is not announced.                              *)
LEMMA WritesQuiet ==
  ASSUME TypeOK, NEW v \in Versions, NEW loaded, NEW target, feed' = feed,
         target.status \notin {"published", "deprecated"}, target.status \in Statuses,
         rows' = [rows EXCEPT ![v] = Merge(@, loaded, target)]
  PROVE  Quiet
<1>1. rows \in [Versions -> Row]
  BY DEF TypeOK
<1>2. Merge(rows[v], loaded, target).status \in {rows[v].status, target.status}
  BY DEF Merge, Column
<1> QED  BY <1>1, <1>2 DEF Quiet

(* No step of a worker or of time releases a version.                      *)
LEMMA WorkersQuiet ==
  ASSUME IInv, \/ \E w \in Workers : WorkerStep(w) \/ WorkerDies(w)
               \/ \E v \in Versions : LeaseExpires(v)
  PROVE  Quiet
<1>1. rows \in [Versions -> Row] /\ TypeOK
  BY DEF IInv, TypeOK
<1>2. ASSUME rows' = rows, feed' = feed
      PROVE  Quiet
  BY <1>2 DEF Quiet
<1>3. ASSUME NEW w \in Workers, NEW v \in Versions, Claim(w, v) \/ ClaimExhausted(w, v)
      PROVE  Quiet
  <2>1. ASSUME NEW new, ClaimWrites(v, new), new.status \in {"scanning", "scan_failed"},
               feed' = feed
        PROVE  Quiet
    BY <1>1, <2>1 DEF ClaimWrites, Quiet, Statuses
  <2>2. rows[v] \in Row
    BY <1>1
  <2>3. CASE Claim(w, v)
    <3> DEFINE new == [rows[v] EXCEPT !.status = "scanning",
                                      !.attempts = @ + 1,
                                      !.lease = "live"]
    <3>1. new.status = "scanning" /\ ClaimWrites(v, new) /\ feed' = feed
      BY <2>2, <2>3 DEF Claim, Row
    <3> HIDE DEF new
    <3> QED  BY <2>1, <3>1
  <2>4. CASE ClaimExhausted(w, v)
    <3> DEFINE new == [rows[v] EXCEPT !.status = "scan_failed",
                                      !.scan = "failed",
                                      !.lease = "none"]
    <3>1. new.status = "scan_failed" /\ ClaimWrites(v, new) /\ feed' = feed
      BY <2>2, <2>4 DEF ClaimExhausted, Row
    <3> HIDE DEF new
    <3> QED  BY <2>1, <3>1
  <2> QED  BY <1>3, <2>3, <2>4
<1>4. ASSUME NEW v \in Versions, LeaseExpires(v)
      PROVE  Quiet
  BY <1>1, <1>4 DEF LeaseExpires, Quiet, Row
<1>5. ASSUME NEW w \in Workers, NEW target, NEW then, worker[w].stage \in Writing,
             WorkerWrite(w, target, then), feed' = feed,
             target.status \in {"pending_scan", "scan_failed", "draft"}
      PROVE  Quiet
  <2>1. worker[w].version \in Versions
    BY <1>1, <1>5, TaskParts
  <2>2. target.status \in Statuses /\ target.status \notin {"published", "deprecated"}
    BY <1>5 DEF Statuses
  <2> QED  BY <1>1, <1>2, <1>5, <2>1, <2>2, WritesQuiet DEF WorkerWrite
<1>6. ASSUME NEW w \in Workers, Requeue(w) \/ RejectPackage(w) \/ Promote(w)
      PROVE  Quiet
  <2>1. worker[w].stage \in Writing /\ worker[w].row \in Row
    BY <1>1, <1>6, TaskParts DEF Requeue, RejectPackage, Promote, Writing
  <2>2. CASE Requeue(w)
    <3> DEFINE target == [worker[w].row EXCEPT !.status = "pending_scan", !.lease = "none"]
    <3>1. target.status = "pending_scan" /\ WorkerWrite(w, target, Free) /\ feed' = feed
      BY <2>1, <2>2 DEF Requeue, Row
    <3> HIDE DEF target
    <3> QED  BY <1>5, <2>1, <3>1
  <2>3. CASE RejectPackage(w)
    <3> DEFINE target == [worker[w].row EXCEPT
                            !.status = "scan_failed",
                            !.scan = "failed",
                            !.signature = ScannedSignature(worker[w].version),
                            !.lease = "none"]
    <3>1. target.status = "scan_failed" /\ WorkerWrite(w, target, Free) /\ feed' = feed
      BY <2>1, <2>3 DEF RejectPackage, Row
    <3> HIDE DEF target
    <3> QED  BY <1>5, <2>1, <3>1
  <2>4. CASE Promote(w)
    <3> DEFINE v == worker[w].version
               target == [worker[w].row EXCEPT
                            !.status = "draft",
                            !.artifact = TRUE,
                            !.manifest = worker[w].manifest,
                            !.manifestSha = ManifestDigest(worker[w].manifest),
                            !.scan = "passed",
                            !.signature = ScannedSignature(v),
                            !.lease = "none"]
    <3>1. /\ target.status = "draft" /\ WorkerWrite(w, target, TaskOf("cleanup", v))
          /\ feed' = feed
      BY <2>1, <2>4 DEF Promote, Row
    <3> HIDE DEF target
    <3> QED  BY <1>5, <2>1, <3>1
  <2> QED  BY <1>6, <2>2, <2>3, <2>4
<1>7. ASSUME NEW w \in Workers,
             \/ ScanStart(w) \/ ScanRaises(w)
             \/ \E m \in Manifests \cup {NoManifest} : ScanDone(w, m)
             \/ InfraReload(w) \/ FinishReload(w)
             \/ StoreArtifact(w) \/ StoreManifest(w) \/ ManifestConflict(w)
             \/ DeleteQuarantine(w) \/ WorkerDies(w)
      PROVE  rows' = rows /\ feed' = feed
  BY <1>7 DEF ScanStart, ScanRaises, ScanDone, InfraReload, FinishReload, Reload, StoreArtifact,
              StoreManifest, ManifestConflict, DeleteQuarantine, WorkerDies
<1> QED  BY <1>2, <1>3, <1>4, <1>6, <1>7 DEF WorkerStep

(* A request releases what it announces and announces what it releases.    *)
Announces(v, status) ==
  /\ feed' = Append(feed, [type |-> Says[status], version |-> v])
  /\ rows'[v].status = status
  /\ \A u \in Versions \ {v} : rows'[u] = rows[u]

(* A request is quiet, or announces what it makes of one row.              *)
LEMMA RequestsAnnounce ==
  ASSUME IInv, NEW s \in Sessions, RequestStep(s)
  PROVE  \/ Quiet
         \/ \E v \in Versions, status \in {"published", "deprecated"} : Announces(v, status)
<1>1. rows \in [Versions -> Row] /\ TypeOK
  BY DEF IInv, TypeOK
<1>2. CASE /\ SubmitCommit(s) \/ ReviewCommit(s)
           /\ sess[s].to \in {"submitted", "approved", "rejected"}
  <2>1. sess[s].version \in Versions /\ sess[s].row \in Row /\ sess[s].to \in Statuses
    BY <1>1, <1>2, RequestParts DEF Outcomes, Statuses
  <2>2. Target(sess[s].to, sess[s].row).status = sess[s].to
    BY <2>1 DEF Target, Row
  <2>3. Write(s) /\ feed' = feed
    BY <1>2 DEF SubmitCommit, ReviewCommit
  <2> QED  BY <1>1, <1>2, <2>1, <2>2, <2>3, WritesQuiet DEF Write
<1>3. CASE PublishCommit(s) \/ DeprecateCommit(s)
  <2> DEFINE v == sess[s].version
             to == sess[s].to
             new == Merge(rows[v], sess[s].row, Target(to, sess[s].row))
  <2>1. to \in {"published", "deprecated"} /\ Write(s)
    BY <1>3 DEF PublishCommit, DeprecateCommit
  <2>2. v \in Versions /\ sess[s].row \in Row /\ sess[s] # Idle
    BY <1>1, <2>1, RequestParts DEF Outcomes
  <2>3. sess[s].row.status # to
    BY <2>1, <2>2 DEF IInv, InvSessions, Checked
  <2>4. new.status = to
    BY <2>1, <2>2, <2>3 DEF Merge, Column, Target, Row
  <2>5. rows' = [rows EXCEPT ![v] = new]
    BY <2>1 DEF Write
  <2>6. feed' = Append(feed, [type |-> Says[to], version |-> v])
    BY <1>3 DEF PublishCommit, DeprecateCommit, Announce, Says
  <2> HIDE DEF new
  <2>7. Announces(v, to)
    BY <1>1, <2>2, <2>4, <2>5, <2>6 DEF Announces
  <2> QED  BY <2>1, <2>2, <2>7
<1>4. CASE \/ \E v \in Versions :
                \/ SubmitLoad(s, v) \/ PublishLoad(s, v) \/ DeprecateLoad(s, v)
                \/ \E decision \in {"approved", "rejected"} : ReviewLoad(s, v, decision)
           \/ Rollback(s)
  BY <1>4 DEF Quiet, SubmitLoad, PublishLoad, DeprecateLoad, ReviewLoad, Load, Rollback
<1> QED  BY <1>2, <1>3, <1>4 DEF RequestStep, SubmitCommit, ReviewCommit

(* What the feed tells stays true.                                         *)
LEMMA FeedKeeps ==
  ASSUME IInv, [Next]_vars, FeedTellsStatus
  PROVE  FeedTellsStatus'
<1>1. rows \in [Versions -> Row] /\ feed \in Seq(Event)
  BY DEF IInv, TypeOK
<1>2. CASE Quiet
  <2>1. ASSUME NEW v \in Versions
        PROVE  /\ Released(v)' <=> Released(v)
               /\ Released(v) => rows'[v].status = rows[v].status
    <3>1. GuardAllows(rows[v], rows'[v]) /\ Shaped(manifests[v], rows[v])
      BY StepEvolves DEF Evolves, IInv, InvRows
    <3>2. Released(v) => rows'[v].status = rows[v].status
      BY <1>2, <3>1 DEF GuardAllows, LifecycleMoves, Shaped, Outcomes, Released, Quiet
    <3> QED  BY <1>2, <3>2 DEF Released, Quiet
  <2> QED  BY <1>2, <2>1 DEF FeedTellsStatus, LastOf, Quiet
<1>3. ASSUME NEW v \in Versions, NEW status \in {"published", "deprecated"},
             Announces(v, status)
      PROVE  FeedTellsStatus'
  <2> DEFINE n == Len(feed)
             e == [type |-> Says[status], version |-> v]
  <2>1. /\ n \in Nat /\ Len(feed') = n + 1 /\ feed'[n + 1] = e
        /\ \A i \in 1..n : feed'[i] = feed[i]
    BY <1>1, <1>3 DEF Announces
  <2>2. e.version = v /\ e.type = Says[status]
    OBVIOUS
  <2> HIDE DEF n, e
  <2> SUFFICES ASSUME NEW u \in Versions
               PROVE  /\ Released(u)' => \E i \in 1..Len(feed') : feed'[i].version = u
                      /\ \A i \in 1..Len(feed') : LastOf(u, i)' =>
                           Released(u)' /\ feed'[i].type = Says[rows'[u].status]
    BY DEF FeedTellsStatus
  <2>3. CASE u = v
    <3>1. rows'[v].status = status
      BY <1>3 DEF Announces
    <3>2. ASSUME NEW i \in 1..(n + 1), LastOf(v, i)'
          PROVE  i = n + 1
      BY <2>1, <2>2, <3>2 DEF LastOf
    <3> QED  BY <2>1, <2>2, <2>3, <3>1, <3>2 DEF Released
  <2>4. CASE u # v
    <3>1. rows'[u] = rows[u]
      BY <1>3, <2>4 DEF Announces
    <3>2. ASSUME NEW i \in 1..(n + 1), LastOf(u, i)'
          PROVE  i \in 1..n /\ LastOf(u, i)
      <4>1. i # n + 1
        BY <2>1, <2>2, <2>4, <3>2 DEF LastOf
      <4>2. i \in 1..n /\ feed'[i] = feed[i]
        BY <2>1, <4>1
      <4>3. \A j \in (i + 1)..n : j \in (i + 1)..(n + 1) /\ feed'[j] = feed[j]
        BY <2>1, <4>2
      <4> QED  BY <2>1, <3>2, <4>2, <4>3 DEF LastOf, n
    <3>3. FeedTellsStatus
      OBVIOUS
    <3>4. Released(u) => \E i \in 1..n : feed[i].version = u
      BY <3>3 DEF FeedTellsStatus, n
    <3>5. \A i \in 1..n : LastOf(u, i) => Released(u) /\ feed[i].type = Says[rows[u].status]
      BY <3>3 DEF FeedTellsStatus, n
    <3>6. Released(u)' <=> Released(u)
      BY <3>1 DEF Released
    <3> QED  BY <2>1, <3>1, <3>2, <3>4, <3>5, <3>6
  <2> QED  BY <2>3, <2>4
<1>4. CASE UNCHANGED vars
  BY <1>4 DEF vars, FeedTellsStatus, LastOf, Released
<1> QED  BY <1>2, <1>3, <1>4, WorkersQuiet, RequestsAnnounce DEF Next

(* The last event about a version says what its row says, for any number   *)
(* of requests that raced to announce it.                                  *)
THEOREM FeedTells == Spec => []FeedTellsStatus
<1>1. Init => FeedTellsStatus
  BY DEF Init, FeedTellsStatus, Released, NewRow
<1>2. IInv /\ FeedTellsStatus /\ [Next]_vars => FeedTellsStatus'
  BY FeedKeeps
<1> QED  BY <1>1, <1>2, Invariance, PTL DEF Spec

-----------------------------------------------------------------------------
(* One worker, as compose.yaml starts it: nobody takes over a version that *)
(* is being scanned, so what a worker has loaded stays as it was.          *)
OneWorker == \A u, w \in Workers : u = w

Settled == {"draft"} \cup Outcomes

(* A version that has its verdict keeps it, one that has none keeps its    *)
(* archive in quarantine.                                                  *)
Verdicts ==
  \A v \in Versions :
    /\ rows[v].status \in Settled => rows[v].scan = "passed"
    /\ InQueue(v) => v \in quarantine

(* Requests work on versions that have their verdict.                      *)
Requested == \A s \in Sessions : sess[s] # Idle => rows[sess[s].version].status \in Settled

(* The worker works on a version that is being scanned until it has        *)
(* promoted it.                                                            *)
Attends(w) ==
  /\ worker[w].stage \in {"scan", "read", "infra", "result"} \cup Writing =>
       rows[worker[w].version].status = "scanning"
  /\ worker[w].stage \in Writing => rows[worker[w].version].scan = worker[w].row.scan
  /\ worker[w].stage = "cleanup" => rows[worker[w].version].status \in Settled
Attended == \A w \in Workers : Attends(w)

Single == Verdicts /\ Requested /\ Attended

(* Requests move a version that has its verdict, and leave the verdict.    *)
LEMMA RequestsKeepSingle ==
  ASSUME IInv, Single, NEW s \in Sessions, RequestStep(s)
  PROVE  Single'
<1>1. /\ rows \in [Versions -> Row] /\ sess \in [Sessions -> Request \cup {Idle}] /\ TypeOK
  BY DEF IInv, TypeOK
<1>2. ASSUME rows' = rows, UNCHANGED <<quarantine, worker>>,
             \A t \in Sessions : sess'[t] # Idle => rows[sess'[t].version].status \in Settled
      PROVE  Single'
  BY <1>2 DEF Single, Verdicts, Requested, Attended, Attends, InQueue
<1>3. ASSUME NEW v \in Versions, NEW to \in Outcomes, Load(s, to, v),
             rows[v].status \in Settled
      PROVE  Single'
  <2>1. \A t \in Sessions : sess'[t] = IF t = s THEN [to |-> to, version |-> v, row |-> rows[v]]
                                       ELSE sess[t]
    BY <1>1, <1>3 DEF Load
  <2> QED  BY <1>2, <1>3, <2>1 DEF Load, store, Single, Requested
<1>4. CASE Rollback(s)
  <2>1. \A t \in Sessions : sess'[t] = IF t = s THEN Idle ELSE sess[t]
    BY <1>1, <1>4 DEF Rollback, Finished
  <2> QED  BY <1>2, <1>4, <2>1 DEF Rollback, store, Single, Requested
<1>5. ASSUME sess[s].to \in Outcomes, Write(s)
      PROVE  Single'
  <2> DEFINE v == sess[s].version
             new == Merge(rows[v], sess[s].row, Target(sess[s].to, sess[s].row))
  <2>1. sess[s] # Idle /\ v \in Versions /\ sess[s].row \in Row
    BY <1>1, <1>5, RequestParts
  <2>2. new.scan = rows[v].scan
    BY <2>1 DEF Merge, Column, Target, Row
  <2>3. new.status \in {rows[v].status, sess[s].to}
    BY <2>1 DEF Merge, Column, Target, Row
  <2>4. rows[v].status \in Settled /\ rows[v].scan = "passed"
    BY <2>1 DEF Single, Verdicts, Requested
  <2>5. new.status \in Settled /\ new.scan = "passed"
    BY <1>5, <2>2, <2>3, <2>4 DEF Settled
  <2>6. /\ rows' = [rows EXCEPT ![v] = new] /\ UNCHANGED <<quarantine, worker>>
        /\ \A t \in Sessions : sess'[t] = IF t = s THEN Idle ELSE sess[t]
    BY <1>1, <1>5 DEF Write, Finished, store
  <2> HIDE DEF new
  <2>7. \A u \in Versions : rows'[u] = IF u = v THEN new ELSE rows[u]
    BY <1>1, <2>6
  <2>8. Verdicts'
    BY <2>1, <2>5, <2>6, <2>7 DEF Single, Verdicts, InQueue, Settled, Outcomes
  <2>9. Requested'
    <3> SUFFICES ASSUME NEW t \in Sessions, sess'[t] # Idle
                 PROVE  rows'[sess'[t].version].status \in Settled
      BY DEF Requested
    <3>1. sess'[t] = sess[t] /\ sess[t] # Idle /\ sess[t].version \in Versions
      BY <1>1, <2>6 DEF Request
    <3> QED  BY <2>5, <2>7, <3>1 DEF Single, Requested
  <2>10. Attended'
    <3> SUFFICES ASSUME NEW w \in Workers, worker[w].stage \in Holding \cup Writing
                 PROVE  Attends(w)'
      BY <2>6 DEF Attended, Attends, Holding
    <3>1. worker[w].version \in Versions
      BY <1>1, TaskParts
    <3> QED  BY <2>4, <2>5, <2>6, <2>7, <3>1 DEF Single, Attended, Attends, Settled, Outcomes
  <2> QED  BY <2>8, <2>9, <2>10 DEF Single
<1>6. ASSUME NEW v \in Versions,
             \/ SubmitLoad(s, v) \/ PublishLoad(s, v) \/ DeprecateLoad(s, v)
             \/ \E decision \in {"approved", "rejected"} : ReviewLoad(s, v, decision)
      PROVE  Single'
  BY <1>3, <1>6 DEF SubmitLoad, PublishLoad, DeprecateLoad, ReviewLoad, Settled, Outcomes
<1> QED  BY <1>4, <1>5, <1>6 DEF RequestStep, SubmitCommit, ReviewCommit, PublishCommit,
              DeprecateCommit, Outcomes

(* The one worker is the only one that moves a version out of the queue.   *)
LEMMA WorkerKeepsSingle ==
  ASSUME OneWorker, IInv, Single, NEW w \in Workers, WorkerStep(w) \/ WorkerDies(w)
  PROVE  Single'
<1>1. /\ rows \in [Versions -> Row] /\ worker \in [Workers -> Task \cup {Free}]
      /\ worker[w] \in Task \cup {Free} /\ TypeOK /\ Attends(w)
  BY DEF IInv, TypeOK, Single, Attended
<1>2. Workers = {w}
  BY DEF OneWorker
<1>3. ASSUME rows' = rows, UNCHANGED <<quarantine, sess>>, Attends(w)'
      PROVE  Single'
  BY <1>2, <1>3 DEF Single, Verdicts, Requested, Attended, InQueue
<1>4. ASSUME NEW task, worker' = [worker EXCEPT ![w] = task]
      PROVE  worker'[w] = task
  BY <1>1, <1>4
<1>5. ASSUME NEW v \in Versions, NEW new, rows' = [rows EXCEPT ![v] = new],
             rows[v].status \in {"pending_scan", "scanning"},
             new.status \in {"pending_scan", "scanning", "scan_failed", "draft"},
             new.status = "draft" => new.scan = "passed",
             UNCHANGED <<quarantine, sess>>, Attends(w)'
      PROVE  Single'
  <2>1. \A u \in Versions : rows'[u] = IF u = v THEN new ELSE rows[u]
    BY <1>1, <1>5
  <2>2. Verdicts'
    BY <1>5, <2>1 DEF Single, Verdicts, InQueue, Settled, Outcomes
  <2>3. Requested'
    <3> SUFFICES ASSUME NEW s \in Sessions, sess[s] # Idle
                 PROVE  rows'[sess[s].version].status \in Settled
      BY <1>5 DEF Requested
    <3>1. sess[s].version \in Versions
      BY <1>1 DEF TypeOK, Request
    <3>2. rows[sess[s].version].status \in Settled
      BY DEF Single, Requested
    <3> QED  BY <1>5, <2>1, <3>1, <3>2 DEF Settled, Outcomes
  <2> QED  BY <1>2, <1>5, <2>2, <2>3 DEF Single, Attended
<1>6. ASSUME NEW v \in Versions, NEW new \in Row, ClaimWrites(v, new), Claimable(v),
             \/ new.status = "scanning" /\ worker' = [worker EXCEPT ![w] = TaskOf("scan", v)]
             \/ new.status = "scan_failed" /\ worker[w] = Free /\ worker' = worker,
             UNCHANGED <<quarantine, sess>>
      PROVE  Single'
  <2>1. rows'[v] = new /\ rows' = [rows EXCEPT ![v] = new]
    BY <1>1, <1>6 DEF ClaimWrites
  <2>2. CASE new.status = "scanning" /\ worker' = [worker EXCEPT ![w] = TaskOf("scan", v)]
    <3>1. worker'[w] = TaskOf("scan", v)
      BY <1>4, <2>2
    <3>2. Attends(w)'
      BY <2>1, <2>2, <3>1 DEF Attends, TaskOf, Writing
    <3> QED  BY <1>5, <1>6, <2>1, <2>2, <3>2 DEF Claimable
  <2>3. CASE new.status = "scan_failed" /\ worker[w] = Free /\ worker' = worker
    <3>1. Attends(w)'
      BY <2>3 DEF Attends, Free, Writing
    <3> QED  BY <1>5, <1>6, <2>1, <2>3, <3>1 DEF Claimable
  <2> QED  BY <1>6, <2>2, <2>3
<1>7. ASSUME Release(w), rows' = rows, UNCHANGED sess,
             UNCHANGED quarantine
      PROVE  Single'
  <2>0. worker'[w] = Free
    BY <1>4, <1>7 DEF Release
  <2>1. Attends(w)'
    BY <2>0 DEF Attends, Free, Writing
  <2> QED  BY <1>3, <1>7, <2>1
<1>8. ASSUME NEW target, NEW then, worker[w].stage \in Writing, WorkerWrite(w, target, then),
             target.status \in {"pending_scan", "scan_failed", "draft"},
             target.status = "draft" => target.scan = "passed",
             \/ then = Free
             \/ target.status = "draft" /\ then = TaskOf("cleanup", worker[w].version),
             UNCHANGED <<quarantine, sess>>
      PROVE  Single'
  <2> DEFINE v == worker[w].version
             new == Merge(rows[v], worker[w].row, target)
  <2>1. v \in Versions /\ rows[v].status = "scanning" /\ rows[v].scan = worker[w].row.scan
    BY <1>1, <1>8, TaskParts DEF Attends
  <2>2. worker[w].row.status = "scanning"
    BY <1>8 DEF IInv, InvWorkers
  <2>3. new.status = target.status /\ (target.status = "draft" => new.scan = "passed")
    BY <1>8, <2>1, <2>2 DEF Merge, Column
  <2>4. CASE WriteAllowed(rows[v], worker[w].row, target)
    <3>1. rows' = [rows EXCEPT ![v] = new] /\ worker' = [worker EXCEPT ![w] = then]
      BY <1>8, <2>4 DEF WorkerWrite
    <3> HIDE DEF new
    <3>2. rows'[v] = new /\ worker'[w] = then
      BY <1>1, <1>4, <2>1, <3>1
    <3>3. Attends(w)'
      BY <1>8, <2>3, <3>2 DEF Attends, Free, TaskOf, Writing, Settled
    <3> QED  BY <1>5, <1>8, <2>1, <2>3, <3>1, <3>3
  <2>5. CASE ~WriteAllowed(rows[v], worker[w].row, target)
    BY <1>7, <1>8, <2>5 DEF WorkerWrite
  <2> QED  BY <2>4, <2>5
<1>9. ASSUME NEW v \in Versions, Claim(w, v) \/ ClaimExhausted(w, v)
      PROVE  Single'
  <2>1. rows[v] \in Row /\ rows[v].attempts + 1 \in Nat
    BY <1>1 DEF Row
  <2>2. CASE Claim(w, v)
    <3> DEFINE new == [rows[v] EXCEPT !.status = "scanning",
                                      !.attempts = @ + 1,
                                      !.lease = "live"]
    <3>1. new \in Row /\ new.status = "scanning"
      BY <2>1 DEF Row, Statuses, Leases
    <3>2. ClaimWrites(v, new) /\ Claimable(v) /\ UNCHANGED <<quarantine, sess>>
          /\ worker' = [worker EXCEPT ![w] = TaskOf("scan", v)]
      BY <2>2 DEF Claim, store
    <3> HIDE DEF new
    <3> QED  BY <1>6, <3>1, <3>2
  <2>3. CASE ClaimExhausted(w, v)
    <3> DEFINE new == [rows[v] EXCEPT !.status = "scan_failed",
                                      !.scan = "failed",
                                      !.lease = "none"]
    <3>1. new \in Row /\ new.status = "scan_failed"
      BY <2>1 DEF Row, Statuses, ScanStatuses, Leases
    <3>2. ClaimWrites(v, new) /\ Claimable(v) /\ UNCHANGED <<quarantine, sess>>
          /\ worker[w] = Free /\ worker' = worker
      BY <2>3 DEF ClaimExhausted, store
    <3> HIDE DEF new
    <3> QED  BY <1>6, <3>1, <3>2
  <2> QED  BY <1>9, <2>2, <2>3
<1>10. CASE Requeue(w) \/ RejectPackage(w) \/ Promote(w)
  <2>1. worker[w].stage \in Writing /\ worker[w].row \in Row
    BY <1>1, <1>10, TaskParts DEF Requeue, RejectPackage, Promote, Writing
  <2>2. CASE Requeue(w)
    <3> DEFINE target == [worker[w].row EXCEPT !.status = "pending_scan", !.lease = "none"]
    <3>1. /\ target.status = "pending_scan" /\ WorkerWrite(w, target, Free)
          /\ UNCHANGED <<quarantine, sess>>
      BY <2>1, <2>2 DEF Requeue, Row, store
    <3> HIDE DEF target
    <3> QED  BY <1>8, <2>1, <3>1
  <2>3. CASE RejectPackage(w)
    <3> DEFINE target == [worker[w].row EXCEPT
                            !.status = "scan_failed",
                            !.scan = "failed",
                            !.signature = ScannedSignature(worker[w].version),
                            !.lease = "none"]
    <3>1. /\ target.status = "scan_failed" /\ WorkerWrite(w, target, Free)
          /\ UNCHANGED <<quarantine, sess>>
      BY <2>1, <2>3 DEF RejectPackage, Row, store
    <3> HIDE DEF target
    <3> QED  BY <1>8, <2>1, <3>1
  <2>4. CASE Promote(w)
    <3> DEFINE v == worker[w].version
               target == [worker[w].row EXCEPT
                            !.status = "draft",
                            !.artifact = TRUE,
                            !.manifest = worker[w].manifest,
                            !.manifestSha = ManifestDigest(worker[w].manifest),
                            !.scan = "passed",
                            !.signature = ScannedSignature(v),
                            !.lease = "none"]
    <3>1. /\ target.status = "draft" /\ target.scan = "passed"
          /\ WorkerWrite(w, target, TaskOf("cleanup", v))
          /\ UNCHANGED <<quarantine, sess>>
      BY <2>1, <2>4 DEF Promote, Row, store
    <3> HIDE DEF target
    <3> QED  BY <1>8, <2>1, <3>1
  <2> QED  BY <1>10, <2>2, <2>3, <2>4
<1>11. CASE InfraReload(w) \/ FinishReload(w)
  <2>1. PICK from \in {"infra", "result"}, to \in {"requeue", "finish"} : Reload(w, from, to)
    BY <1>11 DEF InfraReload, FinishReload
  <2> DEFINE v == worker[w].version
             task == [stage |-> to, version |-> v, manifest |-> worker[w].manifest,
                      row |-> rows[v]]
  <2>2. rows[v].status = "scanning" /\ rows' = rows /\ UNCHANGED <<quarantine, sess>>
    BY <1>1, <2>1 DEF Reload, Attends, store
  <2>3. worker' = [worker EXCEPT ![w] = task]
    BY <2>1, <2>2 DEF Reload
  <2>4. worker'[w] = task
    BY <1>4, <2>3
  <2>5. Attends(w)'
    BY <2>2, <2>4 DEF Attends, Writing
  <2> QED  BY <1>3, <2>2, <2>5
<1>12. CASE \/ ScanStart(w) \/ ScanRaises(w)
            \/ \E m \in Manifests \cup {NoManifest} : ScanDone(w, m)
  <2>1. worker[w] \in Task /\ worker[w].stage \in {"scan", "read"}
    BY <1>1, <1>12 DEF ScanStart, ScanRaises, ScanDone, Free
  <2>2. rows[worker[w].version].status = "scanning"
    BY <1>1, <2>1 DEF Attends
  <2>3. PICK stage \in {"read", "infra", "result"}, manifest \in Manifests \cup {NoManifest} :
          worker' = [worker EXCEPT ![w].stage = stage, ![w].manifest = manifest]
    <3>1. ASSUME NEW stage, worker' = [worker EXCEPT ![w].stage = stage]
          PROVE  worker' = [worker EXCEPT ![w].stage = stage, ![w].manifest = worker[w].manifest]
      BY <1>1, <2>1, <3>1 DEF Task
    <3>2. worker[w].manifest \in Manifests \cup {NoManifest}
      BY <2>1 DEF Task
    <3> QED  BY <1>12, <2>2, <3>1, <3>2 DEF ScanStart, ScanRaises, ScanDone
  <2>4. worker'[w].version = worker[w].version /\ worker'[w].stage = stage
    BY <1>1, <2>1, <2>3 DEF Task
  <2>5. rows' = rows /\ UNCHANGED <<quarantine, sess>>
    BY <1>12 DEF ScanStart, ScanRaises, ScanDone, store
  <2>6. Attends(w)'
    BY <2>2, <2>3, <2>4, <2>5 DEF Attends, Writing
  <2> QED  BY <1>3, <2>5, <2>6
<1>13. CASE StoreArtifact(w) \/ StoreManifest(w)
  <2>1. worker[w] \in Task /\ worker[w].stage \in Writing
    BY <1>1, <1>13 DEF StoreArtifact, StoreManifest, Free, Writing
  <2>2. PICK stage \in {"stored", "listed"} : worker' = [worker EXCEPT ![w].stage = stage]
    BY <1>13 DEF StoreArtifact, StoreManifest
  <2>3. /\ worker'[w].version = worker[w].version /\ worker'[w].stage = stage
        /\ worker'[w].row = worker[w].row
    BY <1>1, <2>1, <2>2 DEF Task
  <2>4. rows' = rows /\ UNCHANGED <<quarantine, sess>>
    BY <1>13 DEF StoreArtifact, StoreManifest
  <2>5. Attends(w)'
    BY <1>1, <2>1, <2>2, <2>3, <2>4 DEF Attends, Writing
  <2> QED  BY <1>3, <2>4, <2>5
<1>14. CASE DeleteQuarantine(w)
  <2> DEFINE v == worker[w].version
  <2>1. rows[v].status \in Settled
    BY <1>1, <1>14 DEF DeleteQuarantine, Attends
  <2>2. rows' = rows /\ quarantine' = quarantine \ {v} /\ sess' = sess /\ worker'[w] = Free
    BY <1>4, <1>14 DEF DeleteQuarantine, Release
  <2>3. Verdicts'
    BY <2>1, <2>2 DEF Single, Verdicts, InQueue, Settled, Outcomes
  <2>4. Attends(w)'
    BY <2>2 DEF Attends, Free, Writing
  <2> QED  BY <1>2, <2>2, <2>3, <2>4 DEF Single, Requested, Attended
<1>15. CASE ManifestConflict(w) \/ WorkerDies(w)
  BY <1>7, <1>15 DEF ManifestConflict, WorkerDies, store
<1> QED  BY <1>9, <1>10, <1>11, <1>12, <1>13, <1>14, <1>15 DEF WorkerStep

(* Every step keeps what holds of one worker.                              *)
LEMMA SingleKeeps ==
  ASSUME OneWorker, IInv, Single, [Next]_vars
  PROVE  Single'
<1>1. ASSUME NEW v \in Versions, LeaseExpires(v)
      PROVE  Single'
  <2>1. /\ UNCHANGED <<quarantine, sess, worker>>
        /\ \A u \in Versions : rows'[u].status = rows[u].status /\ rows'[u].scan = rows[u].scan
    BY <1>1 DEF LeaseExpires, IInv, TypeOK, Row, store
  <2>2. Verdicts'
    BY <2>1 DEF Single, Verdicts, InQueue
  <2>3. \A s \in Sessions : sess[s] # Idle => sess[s].version \in Versions
    BY DEF IInv, TypeOK, Request
  <2>4. \A w \in Workers : worker[w].stage \in Holding \cup Writing =>
          worker[w].version \in Versions
    BY TaskParts DEF IInv
  <2>5. Requested' /\ Attended'
    BY <2>1, <2>3, <2>4 DEF Single, Requested, Attended, Attends, Holding
  <2> QED  BY <2>2, <2>5 DEF Single
<1>2. CASE UNCHANGED vars
  BY <1>2 DEF vars, Single, Verdicts, Requested, Attended, Attends, InQueue
<1> QED  BY <1>1, <1>2, WorkerKeepsSingle, RequestsKeepSingle DEF Next

(* What holds of one worker holds in every behaviour.                      *)
LEMMA OneWorkerInvariance ==
  ASSUME OneWorker
  PROVE  Spec => []Single
<1>1. Init => Single
  BY DEF Init, Single, Verdicts, Requested, Attended, Attends, InQueue, Settled, Outcomes,
         NewRow, Free, Writing
<1>2. IInv /\ Single /\ [Next]_vars => Single'
  BY SingleKeeps
<1> QED  BY <1>1, <1>2, Invariance, PTL DEF Spec

(* With one worker, what is submitted has passed its scan.                 *)
THEOREM OneWorkerSubmitsPassed ==
  ASSUME OneWorker
  PROVE  Spec => []SubmittedPassedScan
<1>1. IInv /\ Single => SubmittedPassedScan
  BY DEF IInv, InvRows, Shaped, Single, Verdicts, Settled, SubmittedPassedScan
<1> QED  BY <1>1, OneWorkerInvariance, Invariance, PTL

(* With one worker, what is to be scanned has its archive in quarantine.   *)
THEOREM OneWorkerQuarantines ==
  ASSUME OneWorker
  PROVE  Spec => []QuarantinedUntilScanned
<1>1. Single => QuarantinedUntilScanned
  BY DEF Single, Verdicts, QuarantinedUntilScanned
<1> QED  BY <1>1, OneWorkerInvariance, PTL

-----------------------------------------------------------------------------
(* Refinement of ReleaseLifecycle.                                         *)

(* The stage of a version after its row was written.                       *)
LEMMA StageAfter ==
  ASSUME IInv, NEW v \in Versions, NEW new \in Row, rows' = [rows EXCEPT ![v] = new]
  PROVE  /\ \A u \in Versions \ {v} : Stage(u)' = Stage(u) /\ Frozen(u)' = Frozen(u)
         /\ Stage(v)' = IF new.immutable THEN new.status ELSE "open"
         /\ Frozen(v)' = IF new.immutable THEN Payload(new) ELSE NoManifest
BY DEF IInv, TypeOK, Stage, Frozen

(* The payload of a frozen row is whole.                                   *)
LEMMA PayloadOfFrozen ==
  ASSUME NEW row \in Row, NEW object, Shaped(object, row), row.immutable
  PROVE  Payload(row) \in {TRUE} \X Manifests \X Digests \X ScanStatuses \X Signatures
<1>1. row.artifact = TRUE /\ row.manifest \in Manifests /\ row.manifestSha \in Digests
  BY DEF Shaped, Whole, Row, Digests
<1> QED  BY <1>1 DEF Payload, Row

(* A step of a request or a worker is one step of the atomic lifecycle, or *)
(* changes nothing that can be seen of it.                                 *)
LEMMA StepRefines ==
  ASSUME IInv, [Next]_vars
  PROVE  [Promised!Next]_Promised!releaseVars
<1> DEFINE Stages == [v \in Versions |-> Stage(v)]
           Payloads == [v \in Versions |-> Frozen(v)]
<1> USE DEF Promised!Next, Promised!releaseVars
<1>1. CASE rows' = rows /\ reviews' = reviews
  BY <1>1 DEF Stage, Frozen
<1>2. ASSUME NEW v \in Versions, NEW new \in Row, Drafts(v, new)
      PROVE  UNCHANGED Promised!releaseVars
  <2>1. ~rows[v].immutable /\ ~new.immutable /\ reviews' = reviews
    BY <1>2 DEF Drafts, Shaped
  <2>2. Stage(v) = "open" /\ Frozen(v) = NoManifest
    BY <2>1 DEF Stage, Frozen
  <2>3. \A u \in Versions : Stage(u)' = Stage(u) /\ Frozen(u)' = Frozen(u)
    BY <1>2, <2>1, <2>2, StageAfter DEF Drafts
  <2>4. Stages' = Stages /\ Payloads' = Payloads
    BY <2>3
  <2> QED  BY <2>1, <2>4
<1>3. ASSUME NEW s \in Sessions, NEW v \in Versions, NEW new \in Row,
             sess[s] \in Request, v = sess[s].version, Advances(s, new)
      PROVE  [Promised!Next]_Promised!releaseVars
  <2> DEFINE to == sess[s].to
             frozen == Payload(new)
  <2>1. /\ new.status = to
        /\ new.immutable
        /\ GuardAllows(rows[v], new)
        /\ Shaped(manifests[v], new)
        /\ frozen = Payload(rows[v])
        /\ to # "submitted" => rows[v].immutable /\ frozen = Payload(sess[s].row)
        /\ rows' = [rows EXCEPT ![v] = new]
        /\ to \in Outcomes
    BY <1>3 DEF Advances, Request
  <2>2. rows[v] \in Row /\ (rows[v].immutable <=> rows[v].status \in Outcomes)
    BY <1>3 DEF IInv, TypeOK, InvRows, Shaped
  <2>3. /\ \A u \in Versions \ {v} : Stage(u)' = Stage(u) /\ Frozen(u)' = Frozen(u)
        /\ Stage(v)' = to
        /\ Frozen(v)' = frozen
    BY <1>3, <2>1, StageAfter
  <2>4. /\ rows[v].immutable => Stage(v) = rows[v].status /\ Frozen(v) = frozen
        /\ ~rows[v].immutable => Stage(v) = "open"
    BY <2>1 DEF Stage, Frozen
  <2>5. Stages' = [Stages EXCEPT ![v] = to]
    BY <1>3, <2>3
  <2>6. rows[v].immutable => Payloads' = Payloads
    BY <2>3, <2>4
  <2>7. CASE rows[v].immutable /\ rows[v].status = to
    <3>1. Stages' = Stages /\ Payloads' = Payloads
      BY <1>3, <2>4, <2>5, <2>6, <2>7
    <3>2. reviews' = reviews
      <4>1. CASE to \in {"approved", "rejected"}
        <5>1. EvidenceOf(v, to, frozen) \in reviews
          BY <1>3, <2>1, <2>7, <4>1 DEF IInv, InvReviews, Verdict, ApprovedStatuses
        <5> QED  BY <1>3, <2>1, <4>1, <5>1 DEF Advances
      <4> QED  BY <1>3, <4>1 DEF Advances
    <3> QED  BY <3>1, <3>2
  <2>8. CASE ~rows[v].immutable
    <3>1. to = "submitted" /\ reviews' = reviews
      BY <1>3, <2>1, <2>8 DEF Advances
    <3>2. frozen \in {TRUE} \X Manifests \X Digests \X ScanStatuses \X Signatures
      BY <2>1, <1>3, PayloadOfFrozen
    <3>3. Payloads' = [Payloads EXCEPT ![v] = frozen]
      BY <1>3, <2>3
    <3>4. Promised!Submit(v, frozen)
      BY <1>3, <2>4, <2>5, <2>8, <3>1, <3>3 DEF Promised!Submit
    <3> QED  BY <1>3, <3>2, <3>4
  <2>9. CASE rows[v].immutable /\ rows[v].status # to
    <3>1. <<rows[v].status, to>> \in LifecycleMoves /\ to # "submitted"
      BY <2>1, <2>9 DEF GuardAllows, LifecycleMoves
    <3>2. Stages[v] = rows[v].status /\ Payloads[v] = frozen /\ Payloads' = Payloads
      BY <1>3, <2>4, <2>6, <2>9
    <3>3. CASE to \in {"approved", "rejected"}
      <4>1. reviews' = reviews \cup {EvidenceOf(v, to, Payloads[v])}
        BY <1>3, <2>1, <3>1, <3>2, <3>3 DEF Advances
      <4>2. Stages[v] = "submitted"
        BY <3>1, <3>2, <3>3 DEF LifecycleMoves
      <4>3. Promised!Decide(v, to)
        BY <2>5, <3>2, <3>3, <4>1, <4>2 DEF Promised!Decide
      <4> QED  BY <1>3, <3>3, <4>3
    <3>4. CASE to = "published"
      <4>1. Stages[v] = "approved" /\ reviews' = reviews
        BY <1>3, <3>1, <3>2, <3>4 DEF Advances, LifecycleMoves
      <4>2. EvidenceOf(v, "approved", Payloads[v]) \in reviews
        BY <1>3, <2>1, <3>2, <4>1 DEF IInv, InvReviews, Verdict, ApprovedStatuses
      <4>3. Promised!Publish(v)
        BY <2>5, <3>2, <3>4, <4>1, <4>2 DEF Promised!Publish
      <4> QED  BY <1>3, <4>3
    <3>5. CASE to = "deprecated"
      <4>1. Stages[v] = "published" /\ reviews' = reviews
        BY <1>3, <3>1, <3>2, <3>5 DEF Advances, LifecycleMoves
      <4>2. Promised!Deprecate(v)
        BY <2>5, <3>2, <3>5, <4>1 DEF Promised!Deprecate
      <4> QED  BY <1>3, <4>2
    <3> QED  BY <2>1, <3>1, <3>3, <3>4, <3>5 DEF Outcomes
  <2> QED  BY <2>7, <2>8, <2>9
<1> QED  BY <1>1, <1>2, <1>3, StepEffect DEF RowEffect

(* Races between requests and workers cannot be seen from outside: they    *)
(* are sequences of whole submissions, verdicts, publications and          *)
(* deprecations.                                                           *)
THEOREM Refinement == Spec => ImplementsRelease
<1>1. Init => Promised!Init
  BY DEF Init, Promised!Init, Stage, Frozen, NewRow
<1>2. IInv /\ [Next]_vars => [Promised!Next]_Promised!releaseVars
  BY StepRefines
<1> QED  BY <1>1, <1>2, Invariance, PTL DEF Spec, ImplementsRelease, Promised!Spec

=============================================================================
