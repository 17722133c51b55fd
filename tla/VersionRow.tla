------------------------------ MODULE VersionRow ------------------------------
(***************************************************************************)
(* One row of the table skill_versions, and what may be written to it.     *)
(*                                                                         *)
(* Every handler of the API and every step of the worker works the same    *)
(* way: a SELECT loads the row into a SQLAlchemy session, Python assigns   *)
(* to attributes of the loaded object, and the flush at commit sends an    *)
(* UPDATE ... WHERE id = ... that names only the columns whose value       *)
(* differs from the LOADED one.  PostgreSQL applies it to the row as it    *)
(* is by then (READ COMMITTED, no version column), after the trigger       *)
(* skillhub_guard_skill_version has compared the current row with the      *)
(* row that would result.  Merge and WriteAllowed are those two facts.     *)
(*                                                                         *)
(* The columns kept are those some guard or some property reads.  The      *)
(* artifact's digest is not among them: it is fixed when the row is        *)
(* inserted, and the worker promotes only bytes that hash to it.           *)
(***************************************************************************)
EXTENDS Naturals

CONSTANTS
  Manifests,    \* the manifests a scan can generate (they carry a timestamp)
  NoManifest,   \* NULL in the columns manifest_json and manifest_sha256
  MaxAttempts   \* worker_max_scan_attempts

ASSUME NoManifestAssumption == NoManifest \notin Manifests
ASSUME MaxAttemptsAssumption == MaxAttempts \in Nat

Statuses == {"pending_scan", "scanning", "scan_failed", "draft", "submitted",
             "approved", "rejected", "published", "deprecated"}
ScanStatuses == {"pending", "failed", "passed"}  \* passed: with or without warnings
Signatures   == {"pending", "verified", "not_required", "required_missing"}
Leases       == {"none", "live", "expired"}

(* SHA-256 of the canonical JSON: injective on the manifests that occur.   *)
ManifestDigest(m) == <<"sha256", m>>
Digests == {ManifestDigest(m) : m \in Manifests}

Row == [status      : Statuses,
        artifact    : BOOLEAN,                   \* artifact_key is set
        manifest    : Manifests \cup {NoManifest},
        manifestSha : Digests \cup {NoManifest},
        scan        : ScanStatuses,
        signature   : Signatures,
        immutable   : BOOLEAN,
        attempts    : Nat,
        lease       : Leases]

(* The row finalize_upload inserts.                                        *)
NewRow == [status      |-> "pending_scan",
           artifact    |-> FALSE,
           manifest    |-> NoManifest,
           manifestSha |-> NoManifest,
           scan        |-> "pending",
           signature   |-> "pending",
           immutable   |-> FALSE,
           attempts    |-> 0,
           lease       |-> "none"]

-----------------------------------------------------------------------------
(* What may be written.                                                    *)

Payload(row) == <<row.artifact, row.manifest, row.manifestSha,
                  row.scan, row.signature>>

LifecycleMoves == {<<"submitted", "approved">>, <<"submitted", "rejected">>,
                   <<"approved", "published">>, <<"published", "deprecated">>}

(* The guard on one UPDATE: a row that is immutable keeps its payload and  *)
(* moves only along the review and publication path.  Rewriting the status *)
(* it already has is not a move.                                           *)
GuardAllows(old, new) ==
  old.immutable =>
    /\ new.immutable
    /\ Payload(new) = Payload(old)
    /\ \/ new.status = old.status
       \/ <<old.status, new.status>> \in LifecycleMoves

(* The column the UPDATE leaves: what the handler set if it changed what   *)
(* it had loaded, what is there now otherwise.                             *)
Column(current, loaded, target) == IF target = loaded THEN current ELSE target

Merge(current, loaded, target) ==
  [status      |-> Column(current.status, loaded.status, target.status),
   artifact    |-> Column(current.artifact, loaded.artifact, target.artifact),
   manifest    |-> Column(current.manifest, loaded.manifest, target.manifest),
   manifestSha |-> Column(current.manifestSha, loaded.manifestSha, target.manifestSha),
   scan        |-> Column(current.scan, loaded.scan, target.scan),
   signature   |-> Column(current.signature, loaded.signature, target.signature),
   immutable   |-> Column(current.immutable, loaded.immutable, target.immutable),
   attempts    |-> Column(current.attempts, loaded.attempts, target.attempts),
   lease       |-> Column(current.lease, loaded.lease, target.lease)]

(* The before_flush listener judges what the session loaded, the trigger   *)
(* what is in the table.                                                   *)
OrmAllows(loaded, target) == GuardAllows(loaded, target)

(* Mutant: only the listener guards the row, not the trigger.              *)
TriggerAllows_Stale(current, loaded, target) == TRUE

TriggerAllows(current, loaded, target) ==
  GuardAllows(current, Merge(current, loaded, target))
WriteAllowed(current, loaded, target) ==
  OrmAllows(loaded, target) /\ TriggerAllows(current, loaded, target)
=============================================================================
