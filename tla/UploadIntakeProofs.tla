--------------------------- MODULE UploadIntakeProofs ---------------------------
(***************************************************************************)
(* The bytes that clients were told are stored are those that are          *)
(* finalized, scanned and released: for every number of requests that      *)
(* write at once and every set of archives.                                *)
(***************************************************************************)
EXTENDS UploadIntake, TLAPS

State == Request \cup {Idle}

(* Until the finalization everybody who got past the object store has the  *)
(* bytes of the one object, and so has the row, and whoever was answered.  *)
Unfinalized == upload # Nothing /\ version = Nothing
StoredAgree ==
  Unfinalized =>
    /\ upload.status \in {"created", "uploaded"}
    /\ upload.status = "uploaded" => object = upload.sha /\ acked = {upload.sha}
    /\ upload.status = "created" => acked = {}
    /\ \A s \in Sessions :
         /\ sess[s].at = "stored" => object = sess[s].body
         /\ sess[s].at \in {"put", "stored"} /\ sess[s].row.status = "uploaded" =>
              upload.status = "uploaded"

(* Nothing is there before the row of the upload is.                       *)
NothingYet ==
  upload = Nothing =>
    /\ version = Nothing /\ acked = {}
    /\ \A s \in Sessions : sess[s].at \notin {"put", "stored"}

(* The worker holds the version it has read; what it copied is released.   *)
ScanHolds ==
  /\ scan.at \in {"read", "copied"} => version # Nothing /\ version.status = "waiting"
  /\ scan.at = "copied" => scan.bytes = version.sha /\ scan.bytes \in release
  /\ scan.at = "cleanup" => version # Nothing /\ version.status = "ready"

(* The inductive invariant.                                                *)
IInv ==
  /\ TypeOK
  /\ StoredAgree
  /\ NothingYet
  /\ ScanHolds
  /\ BytesAreKept
  /\ AckedIsFinalized

-----------------------------------------------------------------------------
(* What is known of a request by where it stands.                          *)
LEMMA RequestTyped ==
  ASSUME TypeOK, NEW s \in Sessions
  PROVE  /\ sess[s] \in State
         /\ sess[s].at = "create" => sess[s].expected \in Contents \cup {Nothing}
         /\ sess[s].at \in {"put", "stored"} =>
              sess[s] \in [at : {"put", "stored"}, body : Contents, row : Upload]
  BY DEF TypeOK, State, Request, Idle

(* The bytes a worker has read.                                            *)
LEMMA ScanTyped ==
  ASSUME TypeOK
  PROVE  scan.at \in {"read", "copied"} =>
           scan \in [at : {"read", "copied"}, bytes : Contents \cup {Torn}]
  BY DEF TypeOK, Task, Resting

(* A step of one request that leaves the tables and the object alone.      *)
LEMMA RequestMoves ==
  ASSUME IInv, NEW s \in Sessions, NEW c \in State, sess' = [sess EXCEPT ![s] = c],
         UNCHANGED <<upload, object, version, release, scan, acked>>,
         c.at \in {"put", "stored"} => upload # Nothing,
         c.at = "stored" /\ version = Nothing => object = c.body,
         c.at \in {"put", "stored"} /\ c.row.status = "uploaded" /\ version = Nothing =>
           upload.status = "uploaded"
  PROVE  IInv'
  <1>1. /\ sess' \in [Sessions -> State] /\ sess'[s] = c
        /\ \A t \in Sessions \ {s} : sess'[t] = sess[t]
    BY DEF IInv, TypeOK, State
  <1>2. TypeOK'
    BY <1>1 DEF IInv, TypeOK, State
  <1>3. StoredAgree'
    BY <1>1 DEF IInv, StoredAgree, Unfinalized
  <1>4. NothingYet'
    BY <1>1 DEF IInv, NothingYet
  <1>5. ScanHolds' /\ BytesAreKept' /\ AckedIsFinalized'
    BY DEF IInv, ScanHolds, BytesAreKept, AckedIsFinalized
  <1> QED BY <1>2, <1>3, <1>4, <1>5 DEF IInv

(* create_upload.                                                          *)
LEMMA CreateKeeps ==
  ASSUME IInv, NEW s \in Sessions, CreateCommit(s)
  PROVE  IInv'
  <1>1. /\ upload = Nothing /\ version = Nothing /\ acked = {}
        /\ upload' = [status |-> "created", expected |-> sess[s].expected, sha |-> Nothing]
        /\ UNCHANGED <<object, version, release, scan, acked>>
    BY DEF CreateCommit, IInv, NothingYet
  <1>2. /\ sess' \in [Sessions -> State] /\ sess'[s] = Idle
        /\ \A t \in Sessions \ {s} : sess'[t] = sess[t]
    BY DEF CreateCommit, Finished, IInv, TypeOK, State
  <1>3. upload' \in Upload
    BY <1>1, RequestTyped DEF CreateCommit, IInv, Upload
  <1>4. \A t \in Sessions : sess'[t].at \notin {"put", "stored"}
    BY <1>1, <1>2 DEF IInv, NothingYet, Idle
  <1>5. TypeOK'
    BY <1>1, <1>2, <1>3 DEF IInv, TypeOK, State
  <1>6. StoredAgree' /\ NothingYet'
    BY <1>1, <1>4 DEF StoredAgree, NothingYet
  <1>7. ScanHolds' /\ BytesAreKept' /\ AckedIsFinalized'
    BY <1>1 DEF IInv, ScanHolds, BytesAreKept, AckedIsFinalized
  <1> QED BY <1>5, <1>6, <1>7 DEF IInv

(* An object once stored is not replaced by another before the worker      *)
(* removes it.                                                             *)
LEMMA StoreKeeps ==
  ASSUME IInv, NEW s \in Sessions, PutStore(s) \/ PutTorn(s)
  PROVE  IInv'
  <1>0. TypeOK /\ sess[s] \in [at : {"put", "stored"}, body : Contents, row : Upload]
    BY RequestTyped DEF IInv, PutStore, PutTorn
  <1>1. /\ sess[s].at = "put" /\ upload # Nothing
        /\ UNCHANGED <<upload, version, release, scan, acked>>
    BY DEF PutStore, PutTorn, IInv, NothingYet
  <1>2. /\ object' \in Contents \cup {Torn}
        /\ object # Nothing => object' = object
    BY <1>0 DEF PutStore, PutTorn
  <1>3. PICK c \in State :
          /\ sess' = [sess EXCEPT ![s] = c]
          /\ c.at \in {"put", "stored"} => c.row = sess[s].row
          /\ c.at = "stored" => c.body = object'
    <2>1. CASE PutStore(s)
      <3> DEFINE c == [sess[s] EXCEPT !.at = "stored"]
      <3>1. c \in State /\ c.row = sess[s].row /\ c.body = sess[s].body /\ c.at = "stored"
        BY <1>0 DEF State, Request
      <3> QED BY <2>1, <3>1 DEF PutStore
    <2>2. CASE PutTorn(s)
      <3>1. Idle \in State /\ Idle.at = "idle"
        BY DEF State, Idle
      <3>2. sess' = [sess EXCEPT ![s] = Idle]
        BY <2>2 DEF PutTorn, Finished
      <3> QED BY <3>1, <3>2
    <2> QED BY <2>1, <2>2
  <1>4. /\ sess' \in [Sessions -> State] /\ sess'[s] = c
        /\ \A t \in Sessions \ {s} : sess'[t] = sess[t]
    BY <1>0, <1>3 DEF TypeOK, State
  <1>5. TypeOK'
    BY <1>0, <1>1, <1>2, <1>4 DEF TypeOK, State
  <1>6. StoredAgree'
    <2>1. SUFFICES ASSUME Unfinalized PROVE StoredAgree'
      BY <1>1 DEF StoredAgree, Unfinalized
    <2>2. \A t \in Sessions : sess[t].at = "stored" => object # Nothing /\ object = sess[t].body
      BY <1>0, <2>1, RequestTyped, NothingAssumption DEF IInv, StoredAgree
    <2>3. upload.status = "uploaded" => object # Nothing
      <3>1. upload.status = "uploaded" => object = upload.sha /\ acked = {upload.sha}
        BY <2>1 DEF IInv, StoredAgree
      <3> QED BY <1>0, <3>1, NothingAssumption DEF TypeOK
    <2> QED BY <1>1, <1>2, <1>3, <1>4, <2>1, <2>2, <2>3 DEF IInv, StoredAgree, Unfinalized
  <1>7. NothingYet'
    BY <1>1 DEF NothingYet
  <1>8. ScanHolds' /\ AckedIsFinalized'
    BY <1>1 DEF IInv, ScanHolds, AckedIsFinalized
  <1>9. BytesAreKept'
    <2>1. version # Nothing => version.sha \in Contents
      BY <1>0 DEF TypeOK, Version
    <2> QED BY <1>1, <1>2, <2>1, NothingAssumption DEF IInv, BytesAreKept
  <1> QED BY <1>5, <1>6, <1>7, <1>8, <1>9 DEF IInv

(* A late request may write the row of an upload that is finalized, but it *)
(* is not told that this is its content before the finalization.           *)
LEMMA PutCommitKeeps ==
  ASSUME IInv, NEW s \in Sessions, PutCommit(s)
  PROVE  IInv'
  <1>0. TypeOK /\ sess[s] \in [at : {"put", "stored"}, body : Contents, row : Upload]
    BY RequestTyped DEF IInv, PutCommit
  <1>1. /\ sess[s].at = "stored" /\ upload \in Upload /\ upload # Nothing
        /\ upload' = Stored(upload, sess[s].row, sess[s].body)
        /\ acked' = IF version = Nothing THEN acked \cup {sess[s].body} ELSE acked
        /\ UNCHANGED <<object, version, release, scan>>
    BY <1>0 DEF PutCommit, IInv, NothingYet, TypeOK
  <1>2. /\ sess' \in [Sessions -> State] /\ sess'[s] = Idle
        /\ \A t \in Sessions \ {s} : sess'[t] = sess[t]
    BY <1>0 DEF PutCommit, Finished, TypeOK, State
  <1>3. upload' \in Upload /\ upload' # Nothing
    BY <1>0, <1>1, NothingAssumption DEF Stored, Upload
  <1>4. TypeOK'
    BY <1>0, <1>1, <1>2, <1>3 DEF TypeOK, State
  <1>5. StoredAgree'
    <2>1. SUFFICES ASSUME Unfinalized PROVE StoredAgree'
      BY <1>1 DEF StoredAgree, Unfinalized
    <2>2. object = sess[s].body
      BY <1>1, <2>1 DEF IInv, StoredAgree
    <2>3. upload'.status = "uploaded" /\ upload'.sha = sess[s].body /\ acked' = {sess[s].body}
      <3>1. CASE sess[s].row.status = "uploaded"
        <4>1. upload' = upload /\ upload.status = "uploaded"
          BY <1>1, <2>1, <3>1 DEF Stored, IInv, StoredAgree
        <4>2. object = upload.sha /\ acked = {upload.sha}
          BY <2>1, <4>1 DEF IInv, StoredAgree
        <4> QED BY <1>1, <2>1, <2>2, <4>1, <4>2 DEF Unfinalized
      <3>2. CASE sess[s].row.status # "uploaded"
        <4>1. upload'.status = "uploaded" /\ upload'.sha = sess[s].body
          BY <1>1, <3>2 DEF Stored, Upload
        <4>2. acked \subseteq {sess[s].body}
          BY <2>1, <2>2 DEF IInv, StoredAgree
        <4> QED BY <1>1, <2>1, <4>1, <4>2 DEF Unfinalized
      <3> QED BY <3>1, <3>2
    <2> QED BY <1>1, <1>2, <2>1, <2>2, <2>3 DEF IInv, StoredAgree, Unfinalized, Idle
  <1>6. NothingYet'
    BY <1>3 DEF NothingYet
  <1>7. ScanHolds' /\ BytesAreKept' /\ AckedIsFinalized'
    BY <1>1 DEF IInv, ScanHolds, BytesAreKept, AckedIsFinalized
  <1> QED BY <1>4, <1>5, <1>6, <1>7 DEF IInv

(* finalize_upload makes the version.                                      *)
LEMMA FinalizeKeeps ==
  ASSUME IInv, Finalize
  PROVE  IInv'
  <1>0. TypeOK
    BY DEF IInv
  <1>1. /\ Unfinalized /\ upload.status = "uploaded" /\ object = upload.sha
        /\ version' = [status |-> "waiting", sha |-> upload.sha]
        /\ upload' = [upload EXCEPT !.status = "finalized"]
        /\ UNCHANGED <<object, release, sess, scan, acked>>
    BY DEF Finalize, Finalizable, Unfinalized
  <1>2. acked = {upload.sha} /\ upload.sha \in Contents
    BY <1>0, <1>1 DEF IInv, StoredAgree, TypeOK
  <1>3. version' \in Version /\ version' # Nothing
    BY <1>1, <1>2, NothingAssumption DEF Version
  <1>4. upload' \in Upload /\ upload' # Nothing
    BY <1>0, <1>1, NothingAssumption DEF Unfinalized, TypeOK, Upload
  <1>5. TypeOK'
    BY <1>0, <1>1, <1>3, <1>4 DEF TypeOK
  <1>6. StoredAgree' /\ NothingYet'
    BY <1>3, <1>4 DEF StoredAgree, NothingYet, Unfinalized
  <1>7. ScanHolds'
    BY <1>1 DEF IInv, ScanHolds, Unfinalized
  <1>8. BytesAreKept' /\ AckedIsFinalized'
    BY <1>1, <1>2 DEF BytesAreKept, AckedIsFinalized
  <1> QED BY <1>5, <1>6, <1>7, <1>8 DEF IInv

(* Once there is a version only the worker decides what becomes of it.     *)
LEMMA Finalized ==
  ASSUME TypeOK', version' # Nothing, upload' # Nothing,
         ScanHolds', BytesAreKept', AckedIsFinalized'
  PROVE  IInv'
  BY DEF IInv, StoredAgree, NothingYet, Unfinalized

(* The worker on the version's bytes, with its crashes.                    *)
LEMMA ScanKeeps ==
  ASSUME IInv,
         ScanRead \/ ScanReject \/ ScanCopy \/ ScanPromote \/ ScanCleanup \/ ScanDies \/ GiveUp
  PROVE  IInv'
  <1>0. TypeOK /\ ScanHolds /\ BytesAreKept /\ AckedIsFinalized
    BY DEF IInv
  <1>1. version # Nothing => upload # Nothing /\ upload \in Upload /\ version \in Version
    BY DEF IInv, NothingYet, TypeOK
  <1>2. CASE ScanDies
    <2>1. scan' = Resting /\ UNCHANGED <<upload, object, version, release, sess, acked>>
      BY <1>2 DEF ScanDies
    <2> QED BY <2>1 DEF IInv, TypeOK, StoredAgree, NothingYet, Unfinalized, ScanHolds,
               BytesAreKept, AckedIsFinalized, Resting
  <1>3. CASE ScanRead
    <2>1. /\ version # Nothing /\ version.status = "waiting" /\ object # Nothing
          /\ scan' = [at |-> "read", bytes |-> object]
          /\ UNCHANGED <<upload, object, version, release, sess, acked>>
      BY <1>3 DEF ScanRead
    <2>2. TypeOK'
      BY <1>0, <2>1 DEF TypeOK, Task
    <2> QED BY <1>0, <1>1, <2>1, <2>2, Finalized DEF ScanHolds, BytesAreKept, AckedIsFinalized
  <1>4. CASE ScanReject \/ GiveUp
    <2>1. /\ version # Nothing
          /\ version' = [version EXCEPT !.status = "failed"]
          /\ upload' = upload \/ upload' = [upload EXCEPT !.status = "rejected"]
          /\ scan' = Resting
          /\ UNCHANGED <<object, release, sess, acked>>
      BY <1>0, <1>4 DEF ScanReject, GiveUp, ScanHolds
    <2>2. version' \in Version /\ version'.sha = version.sha /\ version'.status = "failed"
      BY <1>1, <2>1 DEF Version
    <2>3. upload' \in Upload
      BY <1>1, <2>1 DEF Upload
    <2>4. TypeOK'
      BY <1>0, <2>1, <2>2, <2>3 DEF TypeOK
    <2>5. version' # Nothing /\ upload' # Nothing
      BY <2>2, <2>3, NothingAssumption
    <2> QED BY <1>0, <2>1, <2>2, <2>4, <2>5, Finalized
            DEF ScanHolds, BytesAreKept, AckedIsFinalized, Resting
  <1>5. CASE ScanCopy
    <2>1. /\ version # Nothing /\ version.status = "waiting" /\ scan.bytes = version.sha
          /\ release' = release \cup {scan.bytes}
          /\ scan' = [scan EXCEPT !.at = "copied"]
          /\ UNCHANGED <<upload, object, version, sess, acked>>
      BY <1>0, <1>5 DEF ScanCopy, ScanHolds
    <2>2. scan \in [at : {"read", "copied"}, bytes : Contents \cup {Torn}]
      BY <1>0, <1>5, ScanTyped DEF ScanCopy
    <2>3. scan' \in Task /\ scan'.at = "copied" /\ scan'.bytes = scan.bytes
      BY <2>1, <2>2 DEF Task
    <2>4. version.sha \in Contents
      BY <1>1, <2>1 DEF Version
    <2>5. TypeOK'
      BY <1>0, <2>1, <2>3, <2>4 DEF TypeOK
    <2> QED BY <1>0, <1>1, <2>1, <2>3, <2>5, Finalized DEF ScanHolds, BytesAreKept, AckedIsFinalized
  <1>6. CASE ScanPromote
    <2>1. /\ version # Nothing /\ scan.bytes = version.sha /\ scan.bytes \in release
          /\ version' = [status |-> "ready", sha |-> version.sha]
          /\ upload' = [upload EXCEPT !.status = "scanned"]
          /\ scan' = [at |-> "cleanup"]
          /\ UNCHANGED <<object, release, sess, acked>>
      BY <1>0, <1>6 DEF ScanPromote, ScanHolds
    <2>2. version' \in Version /\ upload' \in Upload
      BY <1>1, <2>1 DEF Version, Upload
    <2>3. version' # Nothing /\ upload' # Nothing
      BY <2>2, NothingAssumption
    <2>4. TypeOK'
      BY <1>0, <2>1, <2>2 DEF TypeOK, Task
    <2> QED BY <1>0, <2>1, <2>3, <2>4, Finalized DEF ScanHolds, BytesAreKept, AckedIsFinalized
  <1>7. CASE ScanCleanup
    <2>1. /\ version # Nothing /\ version.status = "ready"
          /\ object' = Nothing /\ scan' = Resting
          /\ UNCHANGED <<upload, version, release, sess, acked>>
      BY <1>0, <1>7 DEF ScanCleanup, ScanHolds
    <2>2. TypeOK'
      BY <1>0, <2>1 DEF TypeOK
    <2> QED BY <1>0, <1>1, <2>1, <2>2, Finalized
            DEF ScanHolds, BytesAreKept, AckedIsFinalized, Resting
  <1> QED BY <1>2, <1>3, <1>4, <1>5, <1>6, <1>7

(* Every step of requests and worker keeps the invariant.                  *)
LEMMA StepKeeps ==
  ASSUME IInv, [Next]_vars
  PROVE  IInv'
  <1>1. ASSUME NEW s \in Sessions, NEW e \in Contents \cup {Nothing}, CreateLoad(s, e)
        PROVE  IInv'
    <2> DEFINE c == [at |-> "create", expected |-> e]
    <2>1. c \in State /\ c.at = "create"
      BY DEF State, Request
    <2>2. sess' = [sess EXCEPT ![s] = c]
      BY <1>1 DEF CreateLoad, Begin
    <2> HIDE DEF c
    <2> QED BY <1>1, <2>1, <2>2, RequestMoves DEF CreateLoad
  <1>2. ASSUME NEW s \in Sessions, NEW b \in Contents, PutLoad(s, b)
        PROVE  IInv'
    <2> DEFINE c == [at |-> "put", body |-> b, row |-> upload]
    <2>1. upload # Nothing /\ upload \in Upload
      BY <1>2 DEF PutLoad, IInv, TypeOK
    <2>2. c \in State /\ c.at = "put" /\ c.row = upload
      BY <2>1 DEF State, Request
    <2>3. sess' = [sess EXCEPT ![s] = c]
      BY <1>2 DEF PutLoad, Begin
    <2> HIDE DEF c
    <2> QED BY <1>2, <2>1, <2>2, <2>3, RequestMoves DEF PutLoad
  <1>3. ASSUME NEW s \in Sessions, Rollback(s)
        PROVE  IInv'
    <2>1. Idle \in State /\ Idle.at = "idle"
      BY DEF State, Idle
    <2> QED BY <1>3, <2>1, RequestMoves DEF Rollback, Finished
  <1>4. CASE UNCHANGED vars
    BY <1>4 DEF vars, IInv, TypeOK, StoredAgree, NothingYet, Unfinalized, ScanHolds,
       BytesAreKept, AckedIsFinalized
  <1> QED BY <1>1, <1>2, <1>3, <1>4, CreateKeeps, StoreKeeps, PutCommitKeeps, FinalizeKeeps,
             ScanKeeps DEF Next

(* Until the finalization all who write agree on the bytes of the one      *)
(* object; from then on the version and the release bucket have them.      *)
THEOREM Invariance == Spec => []IInv
  <1>1. Init => IInv
    BY DEF Init, IInv, TypeOK, StoredAgree, NothingYet, Unfinalized, ScanHolds, BytesAreKept,
       AckedIsFinalized, Idle, Resting
  <1>2. IInv /\ [Next]_vars => IInv'
    BY StepKeeps
  <1> QED BY <1>1, <1>2, PTL DEF Spec

(* Every variable has its type, for any contents and requests.             *)
THEOREM TypeCorrect == Spec => []TypeOK
  <1>1. IInv => TypeOK
    BY DEF IInv
  <1> QED BY <1>1, Invariance, PTL

(* A version that waits finds the bytes it was made for, and one that      *)
(* passed has them in the release bucket, whoever else is still writing.   *)
THEOREM BytesKept == Spec => []BytesAreKept
  <1>1. IInv => BytesAreKept
    BY DEF IInv
  <1> QED BY <1>1, Invariance, PTL

(* Whatever PUT was answered before the finalization, it had the bytes     *)
(* that were finalized.                                                    *)
THEOREM AckedFinalized == Spec => []AckedIsFinalized
  <1>1. IInv => AckedIsFinalized
    BY DEF IInv
  <1> QED BY <1>1, Invariance, PTL
=============================================================================
