--------------------------- MODULE VersionLifecycle ---------------------------
(***************************************************************************)
(* The life of skill versions from the row finalize_upload inserts to      *)
(* deprecation, with every writer of the table skill_versions: the         *)
(* workers that claim, scan, promote or give back a version, and the API   *)
(* requests that submit, review, publish and deprecate it.                 *)
(*                                                                         *)
(* A request or a worker session is two steps, the SELECT with the checks  *)
(* made on what it returned and the flush and commit, and anything may     *)
(* happen between them.  The claim is one step: it selects FOR UPDATE.     *)
(* The release bucket is written before the row is committed.              *)
(***************************************************************************)
EXTENDS VersionRow, Sequences

CONSTANTS
  Versions,   \* the versions whose upload was finalized
  Sessions,   \* API requests in progress at one time
  Workers,    \* worker processes
  Clean,      \* the versions whose package has no scan error of its own
  Signed,     \* the versions that carry a signature by a trusted key
  ScanRequiresSignature,     \* require_signature, as the workers read it
  PublishRequiresSignature   \* require_signature, as the API reads it

ASSUME CleanAssumption  == Clean \subseteq Versions
ASSUME SignedAssumption == Signed \subseteq Versions
ASSUME SettingsAssumption == /\ ScanRequiresSignature \in BOOLEAN
                             /\ PublishRequiresSignature \in BOOLEAN

VARIABLES
  rows,       \* skill_versions, by version
  reviews,    \* the table reviews
  feed,       \* registry_changes in the order of their commits
  quarantine, \* the versions whose archive is in the quarantine bucket
  artifacts,  \* release bucket: versions whose artifact.zip is there
  manifests,  \* release bucket: the object at each version's manifest key
  sess,       \* what each API request has loaded and is about to write
  worker      \* what each worker is doing

vars == <<rows, reviews, feed, quarantine, artifacts, manifests, sess, worker>>
store == <<quarantine, artifacts, manifests>>

Review == [version     : Versions,
           decision    : {"approved", "rejected"},
           manifestSha : Digests,
           signature   : Signatures]

Event == [type : {"version.published", "version.deprecated"}, version : Versions]

(* A request is named by the status it leads to.                           *)
Outcomes == {"submitted", "approved", "rejected", "published", "deprecated"}
Request == [to : Outcomes, version : Versions, row : Row]
Idle == [to |-> "idle"]

(* scan: process_scan's first session and the archive are still to be      *)
(* read; read: the archive is to be fetched; infra: the scan raised;       *)
(* requeue: the handler loaded the row; result: the scan has a verdict;    *)
(* finish, stored, listed: the final session loaded the row, the artifact  *)
(* is in the release bucket, the manifest is; cleanup: committed.          *)
Holding == {"scan", "read", "infra", "result", "cleanup"}
Writing == {"requeue", "finish", "stored", "listed"}
Task == [stage : Holding, version : Versions, manifest : Manifests \cup {NoManifest}]
        \cup [stage : Writing, version : Versions, manifest : Manifests \cup {NoManifest},
              row : Row]
TaskOf(stage, v) == [stage |-> stage, version |-> v, manifest |-> NoManifest]
Free == [stage |-> "free"]

Init ==
  /\ rows = [v \in Versions |-> NewRow]
  /\ reviews = {}
  /\ feed = <<>>
  /\ quarantine = Versions
  /\ artifacts = {}
  /\ manifests = [v \in Versions |-> NoManifest]
  /\ sess = [s \in Sessions |-> Idle]
  /\ worker = [w \in Workers |-> Free]

-----------------------------------------------------------------------------
(* The workers.                                                            *)

Passes(v) == v \in Clean /\ (ScanRequiresSignature => v \in Signed)

ScannedSignature(v) ==
  IF v \in Signed THEN "verified"
  ELSE IF ScanRequiresSignature THEN "required_missing" ELSE "not_required"

Release(w) == worker' = [worker EXCEPT ![w] = Free]

(* Mutant: the claim looks at the lease only.                              *)
Claimable_AnyStatus(v) == rows[v].lease # "live"

(* A version is claimed when it is pending, or when the lease of whoever   *)
(* scans it has run out: the lease is a date, no worker is told.  The      *)
(* oldest such row is taken, but SKIP LOCKED passes over rows locked at    *)
(* that moment, so it may be any of them.                                  *)
Claimable(v) ==
  \/ rows[v].status = "pending_scan"
  \/ rows[v].status = "scanning" /\ rows[v].lease = "expired"

ClaimWrites(v, new) ==
  /\ WriteAllowed(rows[v], rows[v], new)
  /\ rows' = [rows EXCEPT ![v] = new]

(* Mutant: the attempt is given back where it should be counted.           *)
Claim_Uncounted(w, v) ==
  /\ worker[w] = Free
  /\ Claimable(v)
  /\ rows[v].attempts < MaxAttempts
  /\ ClaimWrites(v, [rows[v] EXCEPT !.status = "scanning",
                                    !.attempts = @ - 1,
                                    !.lease = "live"])
  /\ worker' = [worker EXCEPT ![w] = TaskOf("scan", v)]
  /\ UNCHANGED <<reviews, feed, store, sess>>

Claim(w, v) ==
  /\ worker[w] = Free
  /\ Claimable(v)
  /\ rows[v].attempts < MaxAttempts
  /\ ClaimWrites(v, [rows[v] EXCEPT !.status = "scanning",
                                    !.attempts = @ + 1,
                                    !.lease = "live"])
  /\ worker' = [worker EXCEPT ![w] = TaskOf("scan", v)]
  /\ UNCHANGED <<reviews, feed, store, sess>>

(* Mutant: a version is given up one attempt too late, so at the limit it  *)
(* is neither scanned nor given up.                                        *)
ClaimExhausted_OffByOne(w, v) ==
  /\ worker[w] = Free
  /\ Claimable(v)
  /\ rows[v].attempts > MaxAttempts
  /\ ClaimWrites(v, [rows[v] EXCEPT !.status = "scan_failed",
                                    !.scan = "failed",
                                    !.lease = "none"])
  /\ UNCHANGED <<reviews, feed, store, sess, worker>>

ClaimExhausted(w, v) ==
  /\ worker[w] = Free
  /\ Claimable(v)
  /\ rows[v].attempts >= MaxAttempts
  /\ ClaimWrites(v, [rows[v] EXCEPT !.status = "scan_failed",
                                    !.scan = "failed",
                                    !.lease = "none"])
  /\ UNCHANGED <<reviews, feed, store, sess, worker>>

LeaseExpires(v) ==
  /\ rows[v].status = "scanning" /\ rows[v].lease = "live"
  /\ rows' = [rows EXCEPT ![v].lease = "expired"]
  /\ UNCHANGED <<reviews, feed, store, sess, worker>>

(* process_scan's first session: a worker whose version is no longer being *)
(* scanned leaves it alone.                                                *)
ScanStart(w) ==
  /\ worker[w].stage = "scan"
  /\ IF rows[worker[w].version].status = "scanning"
     THEN worker' = [worker EXCEPT ![w].stage = "read"]
     ELSE Release(w)
  /\ UNCHANGED <<rows, reviews, feed, store, sess>>

(* get_quarantine and the scan.  Both may raise; a missing object does.    *)
(* The manifest is generated with the result and carries the time of the   *)
(* scan, so two scans of one package need not agree on it.                 *)
ScanDone(w, m) ==
  /\ worker[w].stage = "read"
  /\ worker[w].version \in quarantine
  /\ m \in IF Passes(worker[w].version) THEN Manifests ELSE {NoManifest}
  /\ worker' = [worker EXCEPT ![w].stage = "result", ![w].manifest = m]
  /\ UNCHANGED <<rows, reviews, feed, store, sess>>

ScanRaises(w) ==
  /\ worker[w].stage = "read"
  /\ worker' = [worker EXCEPT ![w].stage = "infra"]
  /\ UNCHANGED <<rows, reviews, feed, store, sess>>

(* The final session, and the handler of an infrastructure failure, both   *)
(* load the row again and stop if it is not being scanned.                 *)
Reload(w, from, to) ==
  LET v == worker[w].version IN
  /\ worker[w].stage = from
  /\ IF rows[v].status = "scanning"
     THEN worker' = [worker EXCEPT ![w] = [stage |-> to, version |-> v,
                                           manifest |-> worker[w].manifest, row |-> rows[v]]]
     ELSE Release(w)
  /\ UNCHANGED <<rows, reviews, feed, store, sess>>

InfraReload(w)  == Reload(w, "infra", "requeue")
FinishReload(w) == Reload(w, "result", "finish")

(* The flush and commit of a worker's session on its version; if the       *)
(* trigger refuses the worker process dies and is restarted.               *)
WorkerWrite(w, target, then) ==
  LET v == worker[w].version IN
  IF WriteAllowed(rows[v], worker[w].row, target)
  THEN /\ rows' = [rows EXCEPT ![v] = Merge(@, worker[w].row, target)]
       /\ worker' = [worker EXCEPT ![w] = then]
  ELSE /\ Release(w)
       /\ UNCHANGED rows

Requeue(w) ==
  /\ worker[w].stage = "requeue"
  /\ WorkerWrite(w, [worker[w].row EXCEPT !.status = "pending_scan",
                                          !.lease = "none"], Free)
  /\ UNCHANGED <<reviews, feed, store, sess>>

RejectPackage(w) ==
  /\ worker[w].stage = "finish"
  /\ ~Passes(worker[w].version)
  /\ WorkerWrite(w, [worker[w].row EXCEPT
                        !.status = "scan_failed",
                        !.scan = "failed",
                        !.signature = ScannedSignature(worker[w].version),
                        !.lease = "none"], Free)
  /\ UNCHANGED <<reviews, feed, store, sess>>

(* Mutant: the archive is moved, not copied, before the row is committed.  *)
StoreArtifact_Moves(w) ==
  /\ worker[w].stage = "finish"
  /\ Passes(worker[w].version)
  /\ artifacts' = artifacts \cup {worker[w].version}
  /\ quarantine' = quarantine \ {worker[w].version}
  /\ worker' = [worker EXCEPT ![w].stage = "stored"]
  /\ UNCHANGED <<rows, reviews, feed, manifests, sess>>

StoreArtifact(w) ==
  /\ worker[w].stage = "finish"
  /\ Passes(worker[w].version)
  /\ artifacts' = artifacts \cup {worker[w].version}
  /\ worker' = [worker EXCEPT ![w].stage = "stored"]
  /\ UNCHANGED <<rows, reviews, feed, quarantine, manifests, sess>>

(* Mutant: the object is replaced.                                         *)
StoreManifest_Overwrites(w) ==
  LET v == worker[w].version IN
  /\ worker[w].stage = "stored"
  /\ manifests' = [manifests EXCEPT ![v] = worker[w].manifest]
  /\ worker' = [worker EXCEPT ![w].stage = "listed"]
  /\ UNCHANGED <<rows, reviews, feed, quarantine, artifacts, sess>>

(* put_release creates the manifest object or finds the same bytes there.  *)
StoreManifest(w) ==
  LET v == worker[w].version IN
  /\ worker[w].stage = "stored"
  /\ manifests[v] \in {NoManifest, worker[w].manifest}
  /\ manifests' = [manifests EXCEPT ![v] = worker[w].manifest]
  /\ worker' = [worker EXCEPT ![w].stage = "listed"]
  /\ UNCHANGED <<rows, reviews, feed, quarantine, artifacts, sess>>

(* Other bytes there raise FileExistsError, which nobody catches.          *)
ManifestConflict(w) ==
  /\ worker[w].stage = "stored"
  /\ manifests[worker[w].version] \notin {NoManifest, worker[w].manifest}
  /\ Release(w)
  /\ UNCHANGED <<rows, reviews, feed, store, sess>>

Promote(w) ==
  LET v == worker[w].version IN
  /\ worker[w].stage = "listed"
  /\ WorkerWrite(w, [worker[w].row EXCEPT
                        !.status = "draft",
                        !.artifact = TRUE,
                        !.manifest = worker[w].manifest,
                        !.manifestSha = ManifestDigest(worker[w].manifest),
                        !.scan = "passed",
                        !.signature = ScannedSignature(v),
                        !.lease = "none"],
                 TaskOf("cleanup", v))
  /\ UNCHANGED <<reviews, feed, store, sess>>

DeleteQuarantine(w) ==
  /\ worker[w].stage = "cleanup"
  /\ quarantine' = quarantine \ {worker[w].version}
  /\ Release(w)
  /\ UNCHANGED <<rows, reviews, feed, artifacts, manifests, sess>>

(* An exception outside the handler's try, a kill, a restart of the        *)
(* container: what was not committed is lost, what was stored stays.       *)
WorkerDies(w) ==
  /\ worker[w] # Free
  /\ Release(w)
  /\ UNCHANGED <<rows, reviews, feed, store, sess>>

WorkerStep(w) ==
  \/ \E v \in Versions : Claim(w, v) \/ ClaimExhausted(w, v)
  \/ ScanStart(w) \/ ScanRaises(w)
  \/ \E m \in Manifests \cup {NoManifest} : ScanDone(w, m)
  \/ InfraReload(w) \/ FinishReload(w)
  \/ Requeue(w) \/ RejectPackage(w)
  \/ StoreArtifact(w) \/ StoreManifest(w) \/ ManifestConflict(w)
  \/ Promote(w) \/ DeleteQuarantine(w)

-----------------------------------------------------------------------------
(* The API.  Load(s, to, v) is require_version; the checks that follow it  *)
(* read only what it loaded, and a request they refuse ends there.         *)

Load(s, to, v) ==
  /\ sess[s] = Idle
  /\ sess' = [sess EXCEPT ![s] = [to |-> to, version |-> v, row |-> rows[v]]]
  /\ UNCHANGED <<rows, reviews, feed, store, worker>>

Finished(s) == sess' = [sess EXCEPT ![s] = Idle]

Ready(row) == row.artifact /\ row.manifest # NoManifest

SubmitLoad(s, v) ==
  /\ rows[v].status = "draft"
  /\ rows[v].scan = "passed"
  /\ Ready(rows[v])
  /\ Load(s, "submitted", v)

ReviewLoad(s, v, decision) ==
  /\ rows[v].status = "submitted"
  /\ Load(s, decision, v)

(* An approval that binds this payload: artifact, manifest and signature.  *)
Approves(review, v, row) ==
  /\ review.version = v
  /\ review.decision = "approved"
  /\ review.manifestSha = ManifestDigest(row.manifest)
  /\ review.manifestSha = row.manifestSha
  /\ review.signature = row.signature

(* Mutant: the scan verdict is not looked at again, since the version      *)
(* could not have been submitted without it.                               *)
PublishLoad_TrustsScan(s, v) ==
  /\ rows[v].status = "approved"
  /\ Ready(rows[v])
  /\ PublishRequiresSignature => rows[v].signature = "verified"
  /\ \E r \in reviews : Approves(r, v, rows[v])
  /\ Load(s, "published", v)

(* publish_version looks at the latest approval; all approvals of one      *)
(* version bind the same frozen payload, so which is latest is immaterial. *)
PublishLoad(s, v) ==
  /\ rows[v].status = "approved"
  /\ Ready(rows[v])
  /\ rows[v].scan = "passed"
  /\ PublishRequiresSignature => rows[v].signature = "verified"
  /\ \E r \in reviews : Approves(r, v, rows[v])
  /\ Load(s, "published", v)

DeprecateLoad(s, v) ==
  /\ rows[v].status = "published"
  /\ Load(s, "deprecated", v)

(* Mutant: the payload is frozen at publication, not at submission.        *)
Target_FreezesLate(to, row) ==
  [row EXCEPT !.status = to, !.immutable = to \in {"published", "deprecated"}]

(* What the handler makes of the row it loaded: submission also records    *)
(* the digest of the manifest and freezes the payload.                     *)
Target(to, row) ==
  IF to = "submitted"
  THEN [row EXCEPT !.status = to,
                   !.manifestSha = ManifestDigest(row.manifest),
                   !.immutable = TRUE]
  ELSE [row EXCEPT !.status = to]

Permitted(s) ==
  WriteAllowed(rows[sess[s].version], sess[s].row, Target(sess[s].to, sess[s].row))

Write(s) ==
  /\ Permitted(s)
  /\ rows' = [rows EXCEPT ![sess[s].version] =
                 Merge(@, sess[s].row, Target(sess[s].to, sess[s].row))]
  /\ Finished(s)
  /\ UNCHANGED <<store, worker>>

SubmitCommit(s) ==
  /\ sess[s].to = "submitted"
  /\ Write(s)
  /\ UNCHANGED <<reviews, feed>>

ReviewCommit(s) ==
  /\ sess[s].to \in {"approved", "rejected"}
  /\ Write(s)
  /\ reviews' = reviews \cup
       {[version     |-> sess[s].version,
         decision    |-> sess[s].to,
         manifestSha |-> ManifestDigest(sess[s].row.manifest),
         signature   |-> sess[s].row.signature]}
  /\ UNCHANGED feed

Announce(type, v) == feed' = Append(feed, [type |-> type, version |-> v])

PublishCommit(s) ==
  /\ sess[s].to = "published"
  /\ Write(s)
  /\ Announce("version.published", sess[s].version)
  /\ UNCHANGED reviews

DeprecateCommit(s) ==
  /\ sess[s].to = "deprecated"
  /\ Write(s)
  /\ Announce("version.deprecated", sess[s].version)
  /\ UNCHANGED reviews

(* A refused UPDATE rolls the whole request back, and so does whatever     *)
(* else may end it before its commit.                                      *)
Rollback(s) ==
  /\ sess[s] # Idle
  /\ Finished(s)
  /\ UNCHANGED <<rows, reviews, feed, store, worker>>

RequestStep(s) ==
  \/ \E v \in Versions :
       \/ SubmitLoad(s, v) \/ PublishLoad(s, v) \/ DeprecateLoad(s, v)
       \/ \E decision \in {"approved", "rejected"} : ReviewLoad(s, v, decision)
  \/ SubmitCommit(s) \/ ReviewCommit(s) \/ PublishCommit(s) \/ DeprecateCommit(s)
  \/ Rollback(s)

-----------------------------------------------------------------------------
Next ==
  \/ \E w \in Workers : WorkerStep(w) \/ WorkerDies(w)
  \/ \E v \in Versions : LeaseExpires(v)
  \/ \E s \in Sessions : RequestStep(s)

Spec == Init /\ [][Next]_vars

(* The workers loop for ever and time passes; nobody has to send requests, *)
(* no worker has to fail.                                                  *)
Fairness ==
  /\ \A w \in Workers : WF_vars(WorkerStep(w))
  /\ \A v \in Versions : WF_vars(LeaseExpires(v))

FairSpec == Spec /\ Fairness

-----------------------------------------------------------------------------
(* The values each variable may take.                                      *)
TypeOK ==
  /\ rows \in [Versions -> Row]
  /\ reviews \subseteq Review
  /\ feed \in Seq(Event)
  /\ quarantine \subseteq Versions
  /\ artifacts \subseteq Versions
  /\ manifests \in [Versions -> Manifests \cup {NoManifest}]
  /\ sess \in [Sessions -> Request \cup {Idle}]
  /\ worker \in [Workers -> Task \cup {Free}]

(* Two reviewers who both loaded a submitted version cannot leave it both  *)
(* approved and rejected: no review row contradicts another.               *)
NoSplitVerdict ==
  \A r1, r2 \in reviews : r1.version = r2.version => r1.decision = r2.decision

(* Whatever is published, or was, has an approval in the table that binds  *)
(* exactly the payload the row has now, passed its scan, and is signed     *)
(* where the policy of the API requires it, in spite of requests and       *)
(* workers that acted on rows they loaded before it changed.               *)
Released(v) == rows[v].status \in {"published", "deprecated"}
PublishedIsApproved ==
  \A v \in Versions : Released(v) =>
    /\ rows[v].scan = "passed"
    /\ PublishRequiresSignature => rows[v].signature = "verified"
    /\ \E r \in reviews : Approves(r, v, rows[v])

(* The release bucket and the table agree: a version that may be handed    *)
(* out has its artifact there, and the manifest object is the one its row  *)
(* and its approval name, whichever of several workers wrote the object    *)
(* and whichever wrote the row.                                            *)
ReleaseHoldsPayload ==
  \A v \in Versions : rows[v].artifact =>
    /\ v \in artifacts
    /\ manifests[v] = rows[v].manifest
    /\ rows[v].manifestSha = ManifestDigest(manifests[v])

(* The feed tells where a version stands: the last thing announced about   *)
(* it is what its row says, however many requests raced to announce it.    *)
Says == [published |-> "version.published", deprecated |-> "version.deprecated"]
LastOf(v, i) == /\ feed[i].version = v
                /\ \A j \in (i + 1)..Len(feed) : feed[j].version # v
FeedTellsStatus ==
  \A v \in Versions :
    /\ Released(v) => \E i \in 1..Len(feed) : feed[i].version = v
    /\ \A i \in 1..Len(feed) : LastOf(v, i) =>
         Released(v) /\ feed[i].type = Says[rows[v].status]

(* Crashes, lost leases and failing infrastructure cannot keep a version   *)
(* in the scan queue for ever.                                             *)
InQueue(v) == rows[v].status \in {"pending_scan", "scanning"}
ScanSettles == \A v \in Versions : <>[]~InQueue(v)

(* What is put to review passed its scan.                                  *)
SubmittedPassedScan ==
  \A v \in Versions : rows[v].immutable => rows[v].scan = "passed"

(* The archive of a version that still waits for its verdict is there to   *)
(* be scanned.                                                             *)
QuarantinedUntilScanned == \A v \in Versions : InQueue(v) => v \in quarantine

-----------------------------------------------------------------------------
(* The lifecycle as its users see it: a version is open until its row is   *)
(* immutable, and its payload is the frozen part of the row.               *)
Stage(v) == IF rows[v].immutable THEN rows[v].status ELSE "open"
Frozen(v) == IF rows[v].immutable THEN Payload(rows[v]) ELSE NoManifest

EvidenceOf(v, verdict, payload) ==
  [version |-> v, decision |-> verdict, manifestSha |-> payload[3], signature |-> payload[5]]

Promised == INSTANCE ReleaseLifecycle WITH
  stage    <- [v \in Versions |-> Stage(v)],
  payload  <- [v \in Versions |-> Frozen(v)],
  Payloads <- {TRUE} \X Manifests \X Digests \X ScanStatuses \X Signatures,
  Nothing  <- NoManifest,
  Evidence <- EvidenceOf

(* Every interleaving of the requests and the workers looks from outside   *)
(* like a sequence of whole operations: a request that lost a race either  *)
(* did nothing or repeated what was already so.                            *)
ImplementsRelease == Promised!Spec
=============================================================================
