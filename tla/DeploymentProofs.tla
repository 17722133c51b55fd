---------------------------- MODULE DeploymentProofs ----------------------------
(***************************************************************************)
(* What runs on the host, what the state files say of it and what the      *)
(* dumps hold, through every sequence of deployments, rollbacks, restores, *)
(* failures and kills, for every set of releases.                          *)
(***************************************************************************)
EXTENDS Deployment, TLAPS

Files == [{"current", "previous", "pending"} -> Releases \cup {None}]
Typed ==
  /\ up \subseteq Services
  /\ image \in [Services -> Releases \cup {None}]
  /\ db \in Database \cup {NoDatabase}
  /\ saved \in BOOLEAN
  /\ dumps \subseteq Nat
  /\ head \in Releases \cup {None}
  /\ files \in Files
  /\ script \in Script \cup {Idle}
  /\ served \subseteq Releases
  /\ killed \in BOOLEAN

Restores == script # Idle /\ script.kind = "restore"
Rolls == script # Idle /\ script.kind # "restore"
Restarts == IF script = Idle THEN {} ELSE script.restart

(* The steps of a script: a restore stops services while it is pending,    *)
(* the others before.                                                      *)
Stopping == script.at = "stopping" \/ (Restores /\ script.at = "pending")
Down == \/ script.at \in {"fetching", "trusted", "emptied", "built", "migrated", "cleared"}
        \/ Rolls /\ script.at = "pending"
Running == {"started", "healthy", "open", "checked", "recorded", "current"}

(* Only a restore empties the database; it records nothing and its trap     *)
(* starts nothing again.                                                   *)
Kinded ==
  /\ Restores => script.restart = {}
  /\ script.at \in Open \cup {"recorded", "current"} => Rolls
  /\ script.at = "emptied" => Restores

(* Before the first deployment has started PostgreSQL.                     *)
NothingYet ==
  db = NoDatabase =>
    /\ up = {} /\ dumps = {} /\ saved /\ files.current = None /\ Restarts = {}
    /\ script # Idle => Rolls /\ script.at \in {"fetching", "trusted", "pending"}

(* Nothing writes between the dump and the start of the target's code.     *)
Saved ==
  /\ Down => up = {}
  /\ Rolls /\ (Down \/ script.at \in {"fetching", "trusted"}) => saved

(* From the checkout on everything started is the target.                  *)
OnTarget ==
  /\ Restores \/ (script.at \in Closed /\ script.at # "pending") => head = script.target
  /\ script.at \in Running => \A s \in up : image[s] = head

(* The heartbeat is cleared before a worker of the target starts.          *)
Beating ==
  /\ script.at = "cleared" => db.heartbeat = None
  /\ script.at \in Running => db.heartbeat \in {None, head}
  /\ script.at \in Running \ {"started"} => db.heartbeat = head

(* What the state files name has been in service.                          *)
Proven ==
  /\ script.at \in {"checked", "recorded", "current"} => head \in served
  /\ files.current \in served \cup {None}
  /\ files.previous \in served \cup {None}
  /\ files.current # None => files.previous # None
  /\ script.at \in {"recorded", "current"} => files.previous # None
  /\ script.at = "current" => files.current = head

(* The mark is there while the target may run; without it what runs, what  *)
(* a failing script would restart and the checkout are the current release.*)
Marked ==
  /\ Rolls /\ script.at \in Closed => files.pending = script.target
  /\ files.pending = None =>
       /\ head = files.current
       /\ \A s \in up \cup Restarts : image[s] = files.current

(* Unless a script was killed, what runs before the target does has passed *)
(* its checks, and so has what would be restarted.                         *)
Tested ==
  ~killed /\ (script = Idle \/ script.at \in Open \/ Stopping) =>
    \A s \in up \cup Restarts : image[s] \in served

(* The inductive invariant.                                                *)
IInv ==
  /\ Typed /\ Kinded /\ NothingYet /\ Saved /\ OnTarget /\ Beating /\ Proven /\ Marked
  /\ Tested /\ DefaultRollbackIsProven

-----------------------------------------------------------------------------
(* A script that takes its next step changes nothing but where it stands.  *)
Advances(from, to) ==
  /\ script \in Script /\ script' \in Script
  /\ script # Idle /\ script' # Idle
  /\ script.at = from /\ script'.at = to
  /\ script'.kind = script.kind /\ script'.target = script.target
  /\ script'.restart = script.restart /\ script'.default = script.default

(* A script that goes from one step to the next stays the script it is.    *)
LEMMA Stepping ==
  ASSUME Typed, NEW from \in Open \cup Closed, NEW to \in Open \cup Closed, Goes(from, to)
  PROVE  Advances(from, to)
  <1>1. script # Idle /\ script \in Script
    BY DEF Typed, Goes, Idle, Open, Closed
  <1>2. script' = [script EXCEPT !.at = to] /\ script.at = from
    BY DEF Goes
  <1>3. script' \in Script /\ script'.at = to
    BY <1>1, <1>2 DEF Script
  <1>4. script' # Idle
    BY <1>3 DEF Idle, Open, Closed
  <1> QED BY <1>1, <1>2, <1>3, <1>4 DEF Advances, Script


(* From here on the parts of the invariant and the phases are expanded.    *)
USE DEF IInv, Typed, Files, Kinded, NothingYet, Saved, OnTarget, Beating, Proven, Marked,
        Tested, DefaultRollbackIsProven,
        Restores, Rolls, Restarts, Stopping, Down, Running, Open, Closed, host, Idle

(* deploy.sh, rollback.sh and restore.sh up to the first change.           *)
LEMMA BeginKeeps ==
  ASSUME IInv, \/ \E r \in Releases : Deploy(r) \/ RollBack(r)
               \/ RollBackByDefault \/ Restore
  PROVE  IInv'
  <1>1. PICK kind \in Kinds, at \in Open \cup {"pending"}, target \in Releases,
             default \in BOOLEAN :
          /\ Begin(kind, at, target, default)
          /\ kind = "restore" <=> at = "pending"
          /\ kind = "restore" => dumps # {} /\ target = head
          /\ at = "stopping" => files.current # None
          /\ at \in {"fetching", "trusted"} => db = NoDatabase /\ kind = "deploy"
          /\ kind = "rollback" /\ default => target = DefaultTarget
    BY DEF Deploy, RollBack, RollBackByDefault, Restore, Kinds
  <1> DEFINE new == [kind |-> kind, at |-> at, target |-> target, default |-> default,
                     restart |-> IF kind = "restore" THEN {} ELSE up]
  <1>2. /\ script = Idle /\ script' = new
        /\ UNCHANGED <<up, image, db, saved, dumps, head, files, served, killed>>
    BY <1>1 DEF Begin
  <1>3. /\ new \in Script /\ new # Idle
        /\ new.at = at /\ new.kind = kind /\ new.target = target /\ new.default = default
        /\ new.restart = IF kind = "restore" THEN {} ELSE up
    BY DEF Script, Services
  <1>4. kind = "rollback" /\ default => target \in served
    BY <1>1 DEF DefaultTarget
  <1> HIDE DEF new
  <1> QED BY <1>1, <1>2, <1>3, <1>4

-----------------------------------------------------------------------------
(* Up to the mark.                                                         *)

(* docker compose stop of what writes.                                     *)
LEMMA StopKeeps ==
  ASSUME IInv, Stop
  PROVE  IInv'
  BY DEF Stop

(* The dump that precedes a release.                                       *)
LEMMA BackUpKeeps ==
  ASSUME IInv, BackUp
  PROVE  IInv'
  <1>1. Advances("stopping", "fetching")
    BY Stepping DEF BackUp
  <1> QED BY <1>1 DEF BackUp, Advances, Database

(* The verification of that dump.                                          *)
LEMMA VerifyKeeps ==
  ASSUME IInv, Verify
  PROVE  IInv'
  <1>1. Advances("fetching", "trusted")
    BY Stepping DEF Verify
  <1> QED BY <1>1 DEF Verify, Advances

(* The pending mark, written before target code touches anything.          *)
LEMMA MarkPendingKeeps ==
  ASSUME IInv, MarkPending
  PROVE  IInv'
  <1>1. Advances("trusted", "pending")
    BY Stepping DEF MarkPending
  <1>2. /\ files' \in Files /\ files'.pending = script.target /\ script.target \in Releases
        /\ files'.current = files.current /\ files'.previous = files.previous
    BY <1>1 DEF MarkPending, Advances, Script
  <1> QED BY <1>1, <1>2, NoneAssumption DEF MarkPending, Advances

-----------------------------------------------------------------------------
(* The target gets at the host and the database.                           *)

(* From the checkout on there is a database.                               *)
LEMMA DatabaseThere ==
  ASSUME IInv, script # Idle, script.at \notin {"fetching", "trusted", "pending"}
  PROVE  db \in Database
  OBVIOUS

(* The checkout and its build.                                             *)
LEMMA BuildKeeps ==
  ASSUME IInv, Build
  PROVE  IInv'
  <1>1. \/ Advances("pending", "built") /\ script.kind = "deploy"
        \/ Advances("pending", "migrated")
    BY Stepping DEF Build
  <1>2. Fresh \in Database /\ Fresh # NoDatabase
    BY NoDatabaseAssumption DEF Fresh, Database
  <1>3. files.pending # None /\ script.target \in Releases
    BY <1>1, NoneAssumption DEF Build, Advances, Script
  <1> QED BY <1>1, <1>2, <1>3 DEF Build, Advances

(* restore.sh: the database is dropped and created anew.                   *)
LEMMA RecreateKeeps ==
  ASSUME IInv, Recreate
  PROVE  IInv'
  <1>1. Advances("pending", "emptied")
    BY Stepping DEF Recreate
  <1>2. Fresh \in Database /\ Fresh # NoDatabase
    BY NoDatabaseAssumption DEF Fresh, Database
  <1> QED BY <1>1, <1>2 DEF Recreate, Advances

(* restore.sh: pg_restore.                                                 *)
LEMMA ReloadKeeps ==
  ASSUME IInv, NEW level \in dumps, NEW heartbeat \in Releases \cup {None},
         Reload(level, heartbeat)
  PROVE  IInv'
  <1>1. Advances("emptied", "built")
    BY Stepping DEF Reload
  <1>2. db' \in Database /\ db' # NoDatabase
    BY NoDatabaseAssumption DEF Reload, Database
  <1> QED BY <1>1, <1>2 DEF Reload, Advances

(* alembic upgrade head by the target.                                     *)
LEMMA MigrateKeeps ==
  ASSUME IInv, Migrate
  PROVE  IInv'
  <1>1. Advances("built", "migrated")
    BY Stepping DEF Migrate
  <1>2. head \in Releases /\ db \in Database
    BY <1>1, DatabaseThere DEF Advances, Script
  <1>3. db' \in Database /\ db' # NoDatabase
    BY <1>2, LevelAssumption, NoDatabaseAssumption DEF Migrate, Database
  <1> QED BY <1>1, <1>2, <1>3 DEF Migrate, Advances

(* The heartbeat is deleted before the worker starts.                      *)
LEMMA ClearHeartbeatKeeps ==
  ASSUME IInv, ClearHeartbeat
  PROVE  IInv'
  <1>1. Advances("migrated", "cleared")
    BY Stepping DEF ClearHeartbeat
  <1>2. db \in Database
    BY <1>1, DatabaseThere DEF Advances
  <1>3. db' \in Database /\ db' # NoDatabase /\ db'.heartbeat = None
    BY <1>2, NoDatabaseAssumption DEF ClearHeartbeat, Database
  <1> QED BY <1>1, <1>3 DEF ClearHeartbeat, Advances

-----------------------------------------------------------------------------
(* The target runs.                                                        *)

(* docker compose up of API and worker.                                    *)
LEMMA StartServicesKeeps ==
  ASSUME IInv, StartServices
  PROVE  IInv'
  <1>1. Advances("cleared", "started")
    BY Stepping DEF StartServices
  <1>2. head \in Releases /\ db \in Database /\ script.target = head
    BY <1>1, DatabaseThere DEF Advances, Script
  <1>3. /\ up' = {"api", "worker"} /\ up' \subseteq Services
        /\ image' \in [Services -> Releases \cup {None}]
        /\ \A s \in up' : image'[s] = head
    BY <1>1, <1>2 DEF StartServices, Services, Advances
  <1>4. UNCHANGED <<db, saved, dumps, head, files, served, killed>>
    BY DEF StartServices
  <1>5. files'.pending = None => head = files.current
    BY <1>4
  <1>6. script.restart # {} => script.kind # "restore" /\ files.pending # None
    BY <1>1, <1>2, NoneAssumption DEF Advances
  <1>7. UNCHANGED <<script.restart, script.target, script.kind>>
    BY <1>1 DEF Advances
  <1> QED BY <1>1, <1>2, <1>3, <1>4, <1>5, <1>6, <1>7 DEF Advances

(* The health check behind the closed ingress.                             *)
LEMMA CheckInsideKeeps ==
  ASSUME IInv, CheckInside
  PROVE  IInv'
  <1>1. Advances("started", "healthy")
    BY Stepping DEF CheckInside
  <1> QED BY <1>1 DEF CheckInside, Healthy, Advances

(* The ingress starts.                                                     *)
LEMMA OpenIngressKeeps ==
  ASSUME IInv, OpenIngress
  PROVE  IInv'
  <1>1. Advances("healthy", "open")
    BY Stepping DEF OpenIngress
  <1> QED BY <1>1 DEF OpenIngress, Advances, Services

(* The health check from outside.                                          *)
LEMMA CheckOutsideKeeps ==
  ASSUME IInv, CheckOutside
  PROVE  IInv'
  <1>1. Advances("open", "checked")
    BY Stepping DEF CheckOutside
  <1>2. head \in Releases
    BY <1>1 DEF Advances, Script
  <1> QED BY <1>1, <1>2 DEF CheckOutside, Advances

-----------------------------------------------------------------------------
(* The state files.                                                        *)

(* The first state file: what has been current is previous.                *)
LEMMA RecordPreviousKeeps ==
  ASSUME IInv, RecordPrevious
  PROVE  IInv'
  <1>1. Advances("checked", "recorded") /\ script.kind # "restore"
    BY Stepping DEF RecordPrevious
  <1>2. script.target \in Releases /\ script.target = head /\ head \in served
    BY <1>1 DEF Advances, Script
  <1>3. /\ files' \in Files /\ files'.pending = files.pending /\ files'.current = files.current
        /\ files'.previous = IF files.current = None THEN script.target ELSE files.current
    BY <1>2 DEF RecordPrevious
  <1>4. files'.previous \in served /\ files'.previous # None
    BY <1>2, <1>3, NoneAssumption
  <1> QED BY <1>1, <1>2, <1>3, <1>4 DEF RecordPrevious, Advances

(* The second state file: the target is current.                           *)
LEMMA RecordCurrentKeeps ==
  ASSUME IInv, RecordCurrent
  PROVE  IInv'
  <1>1. Advances("recorded", "current")
    BY Stepping DEF RecordCurrent
  <1>2. script.target \in Releases /\ script.target = head /\ head \in served
    BY <1>1 DEF Advances, Script
  <1>3. /\ files' \in Files /\ files'.pending = files.pending
        /\ files'.previous = files.previous /\ files'.current = head
    BY <1>2 DEF RecordCurrent
  <1>4. files.pending # None
    BY <1>1, <1>2, NoneAssumption DEF Advances
  <1> QED BY <1>1, <1>2, <1>3, <1>4 DEF RecordCurrent, Advances

(* The pending mark goes, the script ends.                                 *)
LEMMA FinishKeeps ==
  ASSUME IInv, ClearPending \/ FinishRestore
  PROVE  IInv'
  <1>1. CASE ClearPending
    <2>1. script \in Script /\ script.at = "current"
      BY <1>1 DEF ClearPending
    <2>2. /\ files' \in Files /\ files'.pending = None
          /\ files'.previous = files.previous /\ files'.current = files.current
      BY <1>1 DEF ClearPending
    <2> QED BY <1>1, <2>1, <2>2 DEF ClearPending
  <1>2. CASE FinishRestore
    BY <1>2 DEF FinishRestore
  <1> QED BY <1>1, <1>2

-----------------------------------------------------------------------------
(* A script that fails or is killed, and what goes on besides.             *)

(* A command fails: the EXIT trap stops what is not proven.                *)
LEMMA FailsKeeps ==
  ASSUME IInv, Fails
  PROVE  IInv'
  <1>1. /\ script \in Script /\ script' = Idle
        /\ UNCHANGED <<image, db, saved, dumps, head, files, served, killed>>
    BY DEF Fails
  <1>2. CASE script.at \in Open
    <2>1. up' = up \cup script.restart /\ script.restart \subseteq Services
      BY <1>1, <1>2 DEF Fails, Script
    <2> QED BY <1>1, <1>2, <2>1
  <1>3. CASE script.at \notin Open
    <2>1. up' = {}
      BY <1>3 DEF Fails
    <2> QED BY <1>1, <1>3, <2>1
  <1> QED BY <1>2, <1>3

(* A kill runs no trap.                                                    *)
LEMMA KilledKeeps ==
  ASSUME IInv, Killed
  PROVE  IInv'
  BY DEF Killed

(* A worker writes its heartbeat.                                          *)
LEMMA BeatKeeps ==
  ASSUME IInv, Beat
  PROVE  IInv'
  <1>1. db \in Database /\ "worker" \in up /\ up \subseteq Services
    BY DEF Beat
  <1>2. image["worker"] \in Releases \cup {None}
    BY <1>1
  <1>3. db' \in Database /\ db' # NoDatabase /\ db'.heartbeat = image["worker"]
    BY <1>1, <1>2, NoDatabaseAssumption DEF Beat, Database
  <1>4. script.at \in Running => image["worker"] = head
    BY <1>1
  <1>5. script.at # "cleared"
    BY <1>1
  <1> QED BY <1>1, <1>3, <1>4, <1>5 DEF Beat

(* The services write to the database.                                     *)
LEMMA WriteKeeps ==
  ASSUME IInv, Write
  PROVE  IInv'
  <1>1. up # {} /\ saved' = FALSE
    BY DEF Write
  <1>2. UNCHANGED <<up, image, db, dumps, head, files, script, served, killed>>
    BY DEF Write
  <1>3. ~Down /\ db # NoDatabase
    BY <1>1
  <1>4. Typed'
    BY <1>1, <1>2
  <1>5. Kinded' /\ OnTarget' /\ Beating'
    BY <1>2
  <1>6. Proven' /\ Marked'
    BY <1>2
  <1>7. Tested' /\ DefaultRollbackIsProven'
    BY <1>2
  <1>8. NothingYet'
    BY <1>1, <1>2, <1>3
  <1>9. Saved'
    BY <1>2, <1>3
  <1> QED BY <1>4, <1>7, <1>8, <1>9, <1>5, <1>6

(* The daily backup.                                                       *)
LEMMA TimedBackUpKeeps ==
  ASSUME IInv, TimedBackUp
  PROVE  IInv'
  BY DEF TimedBackUp, Database

(* Every step of the scripts and of the host keeps the invariant.          *)
LEMMA StepKeeps ==
  ASSUME IInv, [Next]_vars
  PROVE  IInv'
  <1>1. CASE UNCHANGED vars
    BY <1>1 DEF vars
  <1> QED BY <1>1, BeginKeeps, StopKeeps, BackUpKeeps, VerifyKeeps, MarkPendingKeeps,
             BuildKeeps, RecreateKeeps, ReloadKeeps, MigrateKeeps, ClearHeartbeatKeeps,
             StartServicesKeeps, CheckInsideKeeps, OpenIngressKeeps, CheckOutsideKeeps,
             RecordPreviousKeeps, RecordCurrentKeeps, FinishKeeps, FailsKeeps, KilledKeeps,
             BeatKeeps, WriteKeeps, TimedBackUpKeeps DEF Next

HIDE DEF IInv, Typed, Files, Kinded, NothingYet, Saved, OnTarget, Beating, Proven, Marked,
         Tested, DefaultRollbackIsProven,
         Restores, Rolls, Restarts, Stopping, Down, Running, Open, Closed, host, Idle

-----------------------------------------------------------------------------
(* Where a script stands tells what the target can have touched, and what  *)
(* runs is what the state files say.                                       *)
THEOREM Invariance == Spec => []IInv
  <1>1. Init => IInv
    <2>1. Init => files \in Files /\ image \in [Services -> Releases \cup {None}]
      BY DEF Init, Files
    <2>2. Init => Typed
      BY <2>1 DEF Init, Typed
    <2>3. Init => Kinded /\ Saved
      BY DEF Init, Kinded, Saved, Restores, Rolls, Down, Open, Idle
    <2>4. Init => NothingYet
      BY DEF Init, NothingYet, Restarts
    <2>5. Init => OnTarget /\ Beating /\ Proven
      BY DEF Init, OnTarget, Beating, Proven, Restores, Closed, Running, Idle
    <2>6. Init => Marked /\ Tested /\ DefaultRollbackIsProven
      BY DEF Init, Marked, Tested, DefaultRollbackIsProven, Rolls, Restarts, Closed, Idle
    <2> QED BY <2>2, <2>3, <2>4, <2>5, <2>6 DEF IInv
  <1>2. IInv /\ [Next]_vars => IInv'
    BY StepKeeps
  <1> QED BY <1>1, <1>2, PTL DEF Spec

(* Every variable has its type, for any releases and migrations.           *)
THEOREM TypeCorrect == Spec => []TypeOK
  <1>1. IInv => TypeOK
    BY DEF IInv, Typed, Files, NothingYet, Proven, TypeOK
  <1> QED BY <1>1, Invariance, PTL

(* All the database holds is in a verified dump before target code touches *)
(* it, down to the last write of the services that were stopped.           *)
THEOREM RecoveryPoint == Spec => []RecoveryPointHolds
  <1>1. IInv => RecoveryPointHolds
    BY DEF IInv, Saved, Rolls, Down, RecoveryPointHolds
  <1> QED BY <1>1, Invariance, PTL

(* What runs while nothing is pending is the current release, whatever was *)
(* killed or failed before.                                                *)
THEOREM ServedRecorded == Spec => []ServedIsRecorded
  <1>1. IInv => ServedIsRecorded
    BY DEF IInv, Marked, ServedIsRecorded
  <1> QED BY <1>1, Invariance, PTL

(* Without a kill nothing is left running that has not passed its checks.  *)
THEOREM UnprovenDown == Spec => []UnprovenIsDown
  <1>1. IInv => UnprovenIsDown
    BY DEF IInv, Tested, UnprovenIsDown
  <1> QED BY <1>1, Invariance, PTL

(* The ingress opens on the heartbeat of a worker of the new release.      *)
THEOREM HeartbeatNew == Spec => []HeartbeatIsNew
  <1>1. IInv => HeartbeatIsNew
    BY DEF IInv, Beating, Running, HeartbeatIsNew
  <1> QED BY <1>1, Invariance, PTL

(* A rollback without a tag goes to a release that has been in service.    *)
THEOREM DefaultRollbackProven == Spec => []DefaultRollbackIsProven
  <1>1. IInv => DefaultRollbackIsProven
    BY DEF IInv
  <1> QED BY <1>1, Invariance, PTL
=============================================================================
