------------------------------- MODULE Deployment -------------------------------
(***************************************************************************)
(* The operation of the one host: deploy.sh, rollback.sh, restore.sh and   *)
(* the daily backup.sh, which exclude each other by a lock, on the         *)
(* containers, the PostgreSQL database, the checkout and the state files   *)
(* current, previous and pending.                                          *)
(*                                                                         *)
(* Every command of a script may fail.  Its EXIT trap then starts what the *)
(* script had stopped, or, from the moment target code may have touched    *)
(* anything, stops everything.  A script that is killed does neither, and  *)
(* the next one finds what it left.                                        *)
(*                                                                         *)
(* A release stands for its signed tag, its commit and the image built     *)
(* from it.  HTTPS is enabled, as by default.  Writing a state file is one *)
(* step, the revision and the tag of a pair together: only the tags decide *)
(* anything.                                                               *)
(***************************************************************************)
EXTENDS Naturals

CONSTANTS
  Releases,   \* releases with a trusted tag
  Level,      \* the migration a release upgrades the database to
  None,       \* no release
  NoDatabase  \* PostgreSQL has neither container nor volume

ASSUME LevelAssumption == Level \in [Releases -> Nat \ {0}]
ASSUME NoneAssumption == None \notin Releases

VARIABLES
  up,      \* the services that run
  image,   \* the release each service's container was created from
  db,      \* the database: its migration, and whose worker's heartbeat it holds
  saved,   \* all that was written to the database is in a verified dump
  dumps,   \* the migrations of the databases that verified dumps hold
  head,    \* the checkout
  files,   \* the state files
  script,  \* the script that holds the lock
  served,  \* history: releases that passed the internal and external checks
  killed   \* history: a script was killed, or the host went down under it

vars == <<up, image, db, saved, dumps, head, files, script, served, killed>>
host == <<up, image, db, saved, dumps, head, files>>

Services == {"api", "worker", "caddy"}

Database == [level : Nat, heartbeat : Releases \cup {None}]
ASSUME NoDatabaseAssumption == NoDatabase \notin Database
Fresh == [level |-> 0, heartbeat |-> None]

Kinds == {"deploy", "rollback", "restore"}
Open == {"stopping", "fetching", "trusted"}
Closed == {"pending", "emptied", "restored", "built", "migrated", "cleared",
           "started", "healthy", "open", "checked", "recorded", "current"}
Idle == [at |-> "idle"]

(* restart: what the trap starts again; default: no tag was given.         *)
Script == [kind : Kinds, at : Open \cup Closed, target : Releases,
           restart : SUBSET Services, default : BOOLEAN]

Init ==
  /\ up = {}
  /\ image = [s \in Services |-> None]
  /\ db = NoDatabase
  /\ saved = TRUE
  /\ dumps = {}
  /\ head = None
  /\ files = [current |-> None, previous |-> None, pending |-> None]
  /\ script = Idle
  /\ served = {}
  /\ killed = FALSE

-----------------------------------------------------------------------------
(* Start of a script: it takes the lock and reads the state files.         *)

Begin(kind, at, target, default) ==
  /\ script = Idle
  /\ script' = [kind |-> kind, at |-> at, target |-> target, default |-> default,
                restart |-> IF kind = "restore" THEN {} ELSE up]
  /\ UNCHANGED <<host, served, killed>>

(* Without a recorded deployment there must be no database either.         *)
Deploy(target) ==
  \/ files.current # None /\ Begin("deploy", "stopping", target, FALSE)
  \/ /\ files.current = None /\ db = NoDatabase
     /\ Begin("deploy", "fetching", target, FALSE)

(* Mutant: what was deployed last, finished or not, is taken for current.  *)
DefaultTarget_Pending == IF files.pending # None THEN files.pending ELSE files.previous

(* After a deployment that did not finish, the last one that did; else the *)
(* one before it.                                                          *)
DefaultTarget == IF files.pending # None THEN files.current ELSE files.previous

RollBack(target) ==
  /\ files.current # None
  /\ Begin("rollback", "stopping", target, FALSE)

RollBackByDefault ==
  /\ files.current # None
  /\ DefaultTarget \in Releases
  /\ Begin("rollback", "stopping", DefaultTarget, TRUE)

(* A restore runs what is checked out.                                     *)
Restore ==
  /\ dumps # {}
  /\ head \in Releases
  /\ Begin("restore", "pending", head, FALSE)

-----------------------------------------------------------------------------
Goes(from, to) == script.at = from /\ script' = [script EXCEPT !.at = to]

(* One container after the other; restore.sh begins with the ingress.      *)
StopOrder == IF script.kind = "restore" THEN <<"caddy", "api", "worker">>
             ELSE <<"api", "worker", "caddy">>

Stop ==
  \E i \in 1..3 :
    /\ script # Idle
    /\ script.at = "stopping" \/ (script.at = "pending" /\ script.kind = "restore")
    /\ StopOrder[i] \in up /\ \A j \in 1..(i - 1) : StopOrder[j] \notin up
    /\ up' = up \ {StopOrder[i]}
    /\ UNCHANGED <<image, db, saved, dumps, head, files, script, served, killed>>

(* Mutant: the dump is taken while the services still run.                 *)
BackUp_Live ==
  /\ Goes("stopping", "fetching")
  /\ dumps' = dumps \cup {db.level}
  /\ saved' = TRUE
  /\ UNCHANGED <<up, image, db, head, files, served, killed>>

BackUp ==
  /\ up = {}
  /\ Goes("stopping", "fetching")
  /\ dumps' = dumps \cup {db.level}
  /\ saved' = TRUE
  /\ UNCHANGED <<up, image, db, head, files, served, killed>>

(* Fetch, and verification of the tag's signature.                         *)
Verify ==
  /\ Goes("fetching", "trusted")
  /\ UNCHANGED <<host, served, killed>>

MarkPending ==
  /\ Goes("trusted", "pending")
  /\ files' = [files EXCEPT !.pending = script.target]
  /\ UNCHANGED <<up, image, db, saved, dumps, head, served, killed>>

(* Checkout and build; a deployment starts PostgreSQL as well.             *)
Build ==
  /\ script # Idle /\ script.kind # "restore"
  /\ Goes("pending", IF script.kind = "deploy" THEN "built" ELSE "migrated")
  /\ head' = script.target
  /\ db' = IF db = NoDatabase THEN Fresh ELSE db
  /\ UNCHANGED <<up, image, saved, dumps, files, served, killed>>

(* restore.sh: dropdb and createdb, then pg_restore.                       *)
Recreate ==
  /\ script # Idle /\ script.kind = "restore"
  /\ up = {}
  /\ Goes("pending", "emptied")
  /\ db' = Fresh
  /\ saved' = TRUE
  /\ UNCHANGED <<up, image, dumps, head, files, served, killed>>

(* The heartbeat is a row of the dump.                                     *)
Reload(level, heartbeat) ==
  /\ Goes("emptied", "built")
  /\ db' = [level |-> level, heartbeat |-> heartbeat]
  /\ UNCHANGED <<up, image, saved, dumps, head, files, served, killed>>

(* Alembic refuses a database at a migration it does not know.             *)
Migrate ==
  /\ Goes("built", "migrated")
  /\ db.level <= Level[head]
  /\ db' = [db EXCEPT !.level = Level[head]]
  /\ UNCHANGED <<up, image, saved, dumps, head, files, served, killed>>

(* Mutant: the heartbeat of the worker that was stopped stays.             *)
ClearHeartbeat_Not ==
  /\ Goes("migrated", "cleared")
  /\ UNCHANGED <<host, served, killed>>

ClearHeartbeat ==
  /\ Goes("migrated", "cleared")
  /\ db' = [db EXCEPT !.heartbeat = None]
  /\ UNCHANGED <<up, image, saved, dumps, head, files, served, killed>>

StartServices ==
  /\ Goes("cleared", "started")
  /\ up' = up \cup {"api", "worker"}
  /\ image' = [image EXCEPT !["api"] = head, !["worker"] = head]
  /\ UNCHANGED <<db, saved, dumps, head, files, served, killed>>

(* The API answers and a worker has reported.                              *)
Healthy == {"api", "worker"} \subseteq up /\ db.heartbeat # None

CheckInside ==
  /\ Healthy
  /\ Goes("started", "healthy")
  /\ UNCHANGED <<host, served, killed>>

OpenIngress ==
  /\ Goes("healthy", "open")
  /\ up' = up \cup {"caddy"}
  /\ image' = [image EXCEPT !["caddy"] = head]
  /\ UNCHANGED <<db, saved, dumps, head, files, served, killed>>

CheckOutside ==
  /\ Healthy
  /\ Goes("open", "checked")
  /\ served' = served \cup {head}
  /\ UNCHANGED <<host, killed>>

(* Mutants: the mark is removed with the first of the state files; the     *)
(* first deployment has no previous one.                                   *)
RecordPrevious_ClearsPending ==
  /\ script # Idle /\ script.kind # "restore"
  /\ Goes("checked", "recorded")
  /\ files' = [files EXCEPT !.previous = IF files.current = None
                                         THEN script.target ELSE files.current,
                            !.pending = None]
  /\ UNCHANGED <<up, image, db, saved, dumps, head, served, killed>>

RecordPrevious_AsIs ==
  /\ script # Idle /\ script.kind # "restore"
  /\ Goes("checked", "recorded")
  /\ files' = [files EXCEPT !.previous = files.current]
  /\ UNCHANGED <<up, image, db, saved, dumps, head, served, killed>>

(* The state files, in the order in which they are renamed into place.     *)
RecordPrevious ==
  /\ script # Idle /\ script.kind # "restore"
  /\ Goes("checked", "recorded")
  /\ files' = [files EXCEPT !.previous = IF files.current = None
                                         THEN script.target ELSE files.current]
  /\ UNCHANGED <<up, image, db, saved, dumps, head, served, killed>>

RecordCurrent ==
  /\ Goes("recorded", "current")
  /\ files' = [files EXCEPT !.current = script.target]
  /\ UNCHANGED <<up, image, db, saved, dumps, head, served, killed>>

ClearPending ==
  /\ script.at = "current"
  /\ files' = [files EXCEPT !.pending = None]
  /\ script' = Idle
  /\ UNCHANGED <<up, image, db, saved, dumps, head, served, killed>>

FinishRestore ==
  /\ script # Idle /\ script.kind = "restore"
  /\ script.at = "checked"
  /\ script' = Idle
  /\ UNCHANGED <<host, served, killed>>

(* Mutant: whatever fails, the services that ran before are started again. *)
Fails_RestartsAlways ==
  /\ script # Idle
  /\ up' = up \cup script.restart
  /\ script' = Idle
  /\ UNCHANGED <<image, db, saved, dumps, head, files, served, killed>>

(* The EXIT trap.                                                          *)
Fails ==
  /\ script # Idle
  /\ up' = IF script.at \in Open THEN up \cup script.restart ELSE {}
  /\ script' = Idle
  /\ UNCHANGED <<image, db, saved, dumps, head, files, served, killed>>

Killed ==
  /\ script # Idle
  /\ script' = Idle
  /\ killed' = TRUE
  /\ UNCHANGED <<host, served>>

-----------------------------------------------------------------------------
(* The services, and the timer of the daily backup.                        *)

Beat ==
  /\ "worker" \in up
  /\ db.heartbeat # image["worker"]
  /\ db' = [db EXCEPT !.heartbeat = image["worker"]]
  /\ UNCHANGED <<up, image, saved, dumps, head, files, script, served, killed>>

Write ==
  /\ up \cap {"api", "worker"} # {}
  /\ saved
  /\ saved' = FALSE
  /\ UNCHANGED <<up, image, db, dumps, head, files, script, served, killed>>

TimedBackUp ==
  /\ script = Idle
  /\ db # NoDatabase
  /\ dumps' = dumps \cup {db.level}
  /\ saved' = TRUE
  /\ UNCHANGED <<up, image, db, head, files, script, served, killed>>

Next ==
  \/ \E r \in Releases : Deploy(r) \/ RollBack(r)
  \/ RollBackByDefault \/ Restore
  \/ Stop \/ BackUp \/ Verify \/ MarkPending \/ Build \/ Recreate
  \/ \E l \in dumps, r \in Releases \cup {None} : Reload(l, r)
  \/ Migrate \/ ClearHeartbeat \/ StartServices
  \/ CheckInside \/ OpenIngress \/ CheckOutside
  \/ RecordPrevious \/ RecordCurrent \/ ClearPending \/ FinishRestore
  \/ Fails \/ Killed
  \/ Beat \/ Write \/ TimedBackUp

Spec == Init /\ [][Next]_vars

-----------------------------------------------------------------------------
(* The values each variable may take; a deployment that is recorded has    *)
(* one to go back to, and a database.                                      *)
TypeOK ==
  /\ up \subseteq Services
  /\ image \in [Services -> Releases \cup {None}]
  /\ db \in Database \cup {NoDatabase}
  /\ saved \in BOOLEAN
  /\ dumps \subseteq Nat
  /\ head \in Releases \cup {None}
  /\ files \in [{"current", "previous", "pending"} -> Releases \cup {None}]
  /\ script \in Script \cup {Idle}
  /\ served \subseteq Releases
  /\ killed \in BOOLEAN
  /\ files.current # None => files.previous # None /\ db # NoDatabase

(* Before a deployment or rollback lets target code touch the database, by *)
(* a migration or by starting the services, all the database holds is in a *)
(* verified dump, down to the last write.                                  *)
RecoveryPointHolds ==
  script # Idle /\ script.kind # "restore" /\ script.at \in {"built", "migrated", "cleared"} => saved

(* What runs while nothing is pending is what the state files call current,*)
(* also after failed deployments and killed scripts.                       *)
ServedIsRecorded ==
  script = Idle /\ files.pending = None => \A s \in up : image[s] = files.current

(* Unless a script was killed, a release that has not passed its checks is *)
(* not left running.                                                       *)
UnprovenIsDown ==
  script = Idle /\ ~killed => \A s \in up : image[s] \in served

(* The ingress opens only when a worker of the new release has reported,   *)
(* not on a heartbeat from before, be it restored from a dump.             *)
HeartbeatIsNew ==
  script # Idle /\ script.at = "open" => db.heartbeat = head

(* A rollback without a tag goes to a release that has been in service.    *)
DefaultRollbackIsProven ==
  script # Idle /\ script.kind = "rollback" /\ script.default => script.target \in served
=============================================================================
