----------------------------- MODULE UploadIntake -----------------------------
(***************************************************************************)
(* How one version of a skill gets its bytes: an upload session is         *)
(* created, its content is PUT, the upload is finalized into a version,    *)
(* and the worker moves the bytes from quarantine to the release bucket.   *)
(*                                                                         *)
(* upload_content is a coroutine.  It loads the row of the upload, then    *)
(* awaits the body for as long as the client takes to send it, judges the  *)
(* row it loaded at the beginning, awaits the object store, and commits.   *)
(* Other requests run at every await.  The object store creates an object  *)
(* once and refuses other bytes; the row has no such guard.                *)
(*                                                                         *)
(* Contents stand for archives and for their digests and sizes alike.  Of  *)
(* the worker only what it does to the bytes is here: it is a single one,  *)
(* as deployed, and VersionLifecycle has its leases, retries and races.    *)
(***************************************************************************)
EXTENDS FiniteSets

CONSTANTS
  Contents,   \* archives that clients send
  Nothing,    \* no object, no digest, no row
  Torn,       \* a file the process died over while writing it
  Sessions    \* API requests in progress at one time

VARIABLES
  upload,     \* the row of upload_sessions for this skill and version
  object,     \* the object under its quarantine key
  version,    \* the row of skill_versions: where it stands, and its sha256
  release,    \* artifacts in the release bucket, by content
  sess,       \* what each request has loaded
  scan,       \* what the worker holds
  acked       \* history: contents whose PUT was answered before finalization

vars == <<upload, object, version, release, sess, scan, acked>>

Upload == [status   : {"created", "uploaded", "finalized", "scanned", "rejected"},
           expected : Contents \cup {Nothing},
           sha      : Contents \cup {Nothing}]
Version == [status : {"waiting", "ready", "failed"}, sha : Contents]

ASSUME NothingAssumption == Nothing \notin Contents \cup {Torn} \cup Upload \cup Version
ASSUME TornAssumption == Torn \notin Contents

Idle == [at |-> "idle"]
Request == [at : {"create"}, expected : Contents \cup {Nothing}]
           \cup [at : {"put", "stored"}, body : Contents, row : Upload]

Resting == [at |-> "resting"]
Task == [at : {"read", "copied"}, bytes : Contents \cup {Torn}]
        \cup [at : {"cleanup"}]

Init ==
  /\ upload = Nothing
  /\ object = Nothing
  /\ version = Nothing
  /\ release = {}
  /\ sess = [s \in Sessions |-> Idle]
  /\ scan = Resting
  /\ acked = {}

Begin(s, request) == sess[s] = Idle /\ sess' = [sess EXCEPT ![s] = request]
Finished(s) == sess' = [sess EXCEPT ![s] = Idle]

-----------------------------------------------------------------------------
(* create_upload: no version and no upload of that number yet; whoever     *)
(* inserts second fails on the unique constraint.                          *)
CreateLoad(s, expected) ==
  /\ version = Nothing
  /\ upload = Nothing
  /\ Begin(s, [at |-> "create", expected |-> expected])
  /\ UNCHANGED <<upload, object, version, release, scan, acked>>

CreateCommit(s) ==
  /\ sess[s].at = "create"
  /\ upload = Nothing
  /\ upload' = [status |-> "created", expected |-> sess[s].expected, sha |-> Nothing]
  /\ Finished(s)
  /\ UNCHANGED <<object, version, release, scan, acked>>

(* upload_content, up to the first await.                                  *)
PutLoad(s, body) ==
  /\ upload # Nothing
  /\ Begin(s, [at |-> "put", body |-> body, row |-> upload])
  /\ UNCHANGED <<upload, object, version, release, scan, acked>>

(* The body is complete: the checks are made on the row as it was.         *)
Writable(row, body) ==
  /\ row.status \in {"created", "uploaded"}
  /\ row.expected \in {Nothing, body}
  /\ row.status = "uploaded" => row.sha = body

(* Mutants: the object is replaced; whatever object is there will do.      *)
PutStore_Overwrites(s) ==
  /\ sess[s].at = "put"
  /\ Writable(sess[s].row, sess[s].body)
  /\ object' = sess[s].body
  /\ sess' = [sess EXCEPT ![s].at = "stored"]
  /\ UNCHANGED <<upload, version, release, scan, acked>>

PutStore_AnyObject(s) ==
  /\ sess[s].at = "put"
  /\ Writable(sess[s].row, sess[s].body)
  /\ object' = IF object = Nothing THEN sess[s].body ELSE object
  /\ sess' = [sess EXCEPT ![s].at = "stored"]
  /\ UNCHANGED <<upload, version, release, scan, acked>>

(* put_quarantine creates the object, or finds the same bytes there.       *)
PutStore(s) ==
  /\ sess[s].at = "put"
  /\ Writable(sess[s].row, sess[s].body)
  /\ object \in {Nothing, sess[s].body}
  /\ object' = sess[s].body
  /\ sess' = [sess EXCEPT ![s].at = "stored"]
  /\ UNCHANGED <<upload, version, release, scan, acked>>

(* With storage on a local disk the process may die while it writes, and   *)
(* the file it created exclusively stays as it is.                         *)
PutTorn(s) ==
  /\ sess[s].at = "put"
  /\ Writable(sess[s].row, sess[s].body)
  /\ object = Nothing
  /\ object' = Torn
  /\ Finished(s)
  /\ UNCHANGED <<upload, version, release, scan, acked>>

(* The UPDATE names the columns that differ from the loaded row: none if   *)
(* that row was uploaded already, status and digest if it was created,     *)
(* whatever has become of the row since.                                   *)
Stored(current, row, body) ==
  IF row.status = "uploaded" THEN current
  ELSE [current EXCEPT !.status = "uploaded", !.sha = body]

PutCommit(s) ==
  /\ sess[s].at = "stored"
  /\ upload' = Stored(upload, sess[s].row, sess[s].body)
  /\ acked' = IF version = Nothing THEN acked \cup {sess[s].body} ELSE acked
  /\ Finished(s)
  /\ UNCHANGED <<object, version, release, scan>>

(* Mutant: it is not asked whether there was any content.                  *)
Finalizable_Unasked == upload # Nothing /\ object = upload.sha

(* finalize_upload holds the row FOR UPDATE from its SELECT to its commit. *)
(* A second version of the same number would violate a unique constraint;  *)
(* a finalized upload answers with the version it has and changes nothing. *)
Finalizable == upload # Nothing /\ upload.status = "uploaded" /\ object = upload.sha

Finalize ==
  /\ Finalizable
  /\ version = Nothing
  /\ version' = [status |-> "waiting", sha |-> upload.sha]
  /\ upload' = [upload EXCEPT !.status = "finalized"]
  /\ UNCHANGED <<object, release, sess, scan, acked>>

(* A refused check or constraint, a client that hangs up, a crash of the   *)
(* API: the row is as it was, an object that was stored stays.             *)
Rollback(s) ==
  /\ sess[s] # Idle
  /\ Finished(s)
  /\ UNCHANGED <<upload, object, version, release, scan, acked>>

-----------------------------------------------------------------------------
(* The worker.                                                             *)

ScanRead ==
  /\ scan = Resting
  /\ version # Nothing /\ version.status = "waiting"
  /\ object # Nothing
  /\ scan' = [at |-> "read", bytes |-> object]
  /\ UNCHANGED <<upload, object, version, release, sess, acked>>

(* The package is refused; one with another digest than the version's      *)
(* always is.                                                              *)
ScanReject ==
  /\ scan.at = "read"
  /\ version' = [version EXCEPT !.status = "failed"]
  /\ upload' = [upload EXCEPT !.status = "rejected"]
  /\ scan' = Resting
  /\ UNCHANGED <<object, release, sess, acked>>

ScanCopy ==
  /\ scan.at = "read"
  /\ scan.bytes = version.sha
  /\ release' = release \cup {scan.bytes}
  /\ scan' = [scan EXCEPT !.at = "copied"]
  /\ UNCHANGED <<upload, object, version, sess, acked>>

ScanPromote ==
  /\ scan.at = "copied"
  /\ version' = [status |-> "ready", sha |-> scan.bytes]
  /\ upload' = [upload EXCEPT !.status = "scanned"]
  /\ scan' = [at |-> "cleanup"]
  /\ UNCHANGED <<object, release, sess, acked>>

ScanCleanup ==
  /\ scan.at = "cleanup"
  /\ object' = Nothing
  /\ scan' = Resting
  /\ UNCHANGED <<upload, version, release, sess, acked>>

ScanDies ==
  /\ scan # Resting
  /\ scan' = Resting
  /\ UNCHANGED <<upload, object, version, release, sess, acked>>

(* The attempts are used up: the upload's row does not hear of it.         *)
GiveUp ==
  /\ scan = Resting
  /\ version # Nothing /\ version.status = "waiting"
  /\ version' = [version EXCEPT !.status = "failed"]
  /\ UNCHANGED <<upload, object, release, sess, scan, acked>>

Next ==
  \/ \E s \in Sessions :
       \/ \E e \in Contents \cup {Nothing} : CreateLoad(s, e)
       \/ CreateCommit(s)
       \/ \E c \in Contents : PutLoad(s, c)
       \/ PutStore(s) \/ PutTorn(s) \/ PutCommit(s)
       \/ Rollback(s)
  \/ Finalize
  \/ ScanRead \/ ScanReject \/ ScanCopy \/ ScanPromote \/ ScanCleanup
  \/ ScanDies \/ GiveUp

Spec == Init /\ [][Next]_vars

-----------------------------------------------------------------------------
(* The values each variable may take.                                      *)
TypeOK ==
  /\ upload \in Upload \cup {Nothing}
  /\ object \in Contents \cup {Nothing, Torn}
  /\ version \in Version \cup {Nothing}
  /\ release \subseteq Contents
  /\ sess \in [Sessions -> Request \cup {Idle}]
  /\ scan \in Task \cup {Resting}
  /\ acked \subseteq Contents

(* A version that waits for its scan finds in quarantine the very bytes    *)
(* its row was made for, and one that passed has them in the release       *)
(* bucket, although requests that started earlier are still writing.       *)
BytesAreKept ==
  version # Nothing =>
    /\ version.status = "waiting" => object = version.sha
    /\ version.status = "ready"   => version.sha \in release

(* What a client was told is stored is what gets finalized: no PUT that    *)
(* was answered before the finalization had other bytes.                   *)
AckedIsFinalized == version # Nothing => acked = {version.sha}

(* Upload content is immutable once stored: the digest in the row never    *)
(* changes to another.                                                     *)
UploadContentImmutable ==
  [][upload # Nothing /\ upload.sha # Nothing => upload'.sha = upload.sha]_vars
=============================================================================
