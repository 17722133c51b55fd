------------------------------ MODULE Publishing ------------------------------
(***************************************************************************)
(* ops/macos/publish_skill.py: one skill version, from the ZIP file on     *)
(* disk to the verified download, one call of the API after the other.     *)
(*                                                                         *)
(* Several runs of the script, other administrators and the scan worker    *)
(* work at once.  A run may end between any two calls, and during any of   *)
(* them: the call then has its effect and the answer is lost.  Nothing is  *)
(* kept between two runs.                                                  *)
(*                                                                         *)
(* The handlers of a release are single steps here (VersionLifecycle shows *)
(* that they act as such); POST /skills is the one of SkillCreation.  The  *)
(* signature is required, as the script insists.  A package stands for its *)
(* digest, and its SKILL.md names the skill that is to be published.       *)
(*                                                                         *)
(* The script reads the ZIP file four times, and nothing keeps the file    *)
(* from being rebuilt in between: its layout, its scan, its digest and the *)
(* bytes that are sent may be those of four packages.                      *)
(***************************************************************************)
EXTENDS SkillCreation, PackageRules

CONSTANTS
  Scripts,   \* runs of the script at one time
  Jobs,      \* [skill, version, description]: the arguments
  Packages,  \* ZIP files
  NoPackage, \* no digest yet
  NoVersion  \* the label does not exist

ASSUME JobsAssumption ==
  \A j \in Jobs : j.skill \in Skills /\ j.description \in Descriptions
ASSUME PackagesAssumption == Packages \subseteq Seq(Entry)

VARIABLES
  script,   \* what each run is about to do
  releases, \* upload session and version of each (skill, version)
  label,    \* the label of each skill that the script moves
  reported  \* (release, digest, steady) that a run reported as published

vars == <<creation, script, releases, label, reported>>
served == <<releases, label>>

Versions == {j.version : j \in Jobs}
Releases == [skill : Skills, version : Versions]

NoScript == [at |-> "idle"]
NoRelease == [status |-> "none", expected |-> NoPackage, stored |-> NoPackage,
              signed |-> FALSE]

(* created, uploaded: the upload session; there is no version yet.         *)
Statuses == {"none", "created", "uploaded", "pending_scan", "scan_failed", "draft",
             "submitted", "approved", "rejected", "published", "deprecated"}
(* signed: the registered key signed the digest that is expected.          *)
Release == [status : Statuses, expected : Packages \cup {NoPackage},
            stored : Packages \cup {NoPackage}, signed : BOOLEAN]

(* The script's Idempotency-Key joins namespace and name with a dash.      *)
Key(skill) == skill.namespace \o skill.name

Init ==
  /\ CreationInit
  /\ script = [x \in Scripts |-> NoScript]
  /\ releases = [r \in Releases |-> NoRelease]
  /\ label = [k \in Skills |-> NoVersion]
  /\ reported = {}

-----------------------------------------------------------------------------
(* The API and the worker.                                                 *)

Becomes(r, status) == releases' = [releases EXCEPT ![r].status = status]

(* Mutant: only a version is in the way of another upload.                 *)
Unclaimed_Version(r) == releases[r].status \in {"none", "created", "uploaded"}
Unclaimed(r) == releases[r].status = "none"

CreateUpload(r, p, signed) ==
  /\ r.skill \in Coordinates
  /\ Unclaimed(r)
  /\ releases' = [releases EXCEPT ![r] =
       [status |-> "created", expected |-> p, stored |-> NoPackage, signed |-> signed]]
  /\ UNCHANGED label

PutContent(r, p) ==
  /\ releases[r].expected = p
  /\ \/ releases[r].status = "created"
     \/ releases[r].status = "uploaded" /\ releases[r].stored = p
  /\ releases' = [releases EXCEPT ![r].status = "uploaded", ![r].stored = p]
  /\ UNCHANGED label

(* May be repeated: it is answered with the version there is.              *)
Finalize(r) ==
  /\ \/ /\ releases[r].status = "uploaded"
        /\ Becomes(r, "pending_scan")
     \/ /\ releases[r].status \notin {"none", "created", "uploaded"}
        /\ UNCHANGED releases
  /\ UNCHANGED label

(* The scan may also be given up.                                          *)
Sound == {p \in Packages : Accepted(p)}
Scan(r) ==
  /\ releases[r].status = "pending_scan"
  /\ \/ /\ releases[r].stored \in Sound /\ releases[r].signed
        /\ Becomes(r, "draft")
     \/ Becomes(r, "scan_failed")
  /\ UNCHANGED label

Submit(r) ==
  /\ releases[r].status = "draft"
  /\ Becomes(r, "submitted")
  /\ UNCHANGED label

Decide(r, decision) ==
  /\ releases[r].status = "submitted"
  /\ Becomes(r, decision)
  /\ UNCHANGED label

(* With the label, or with none or another one.                            *)
Publish(r, labelled) ==
  /\ releases[r].status = "approved"
  /\ Becomes(r, "published")
  /\ label' = [label EXCEPT ![r.skill] = IF labelled THEN r.version ELSE @]

MoveLabel(r) ==
  /\ releases[r].status = "published"
  /\ label' = [label EXCEPT ![r.skill] = r.version]
  /\ UNCHANGED releases

Deprecate(r) ==
  /\ releases[r].status = "published"
  /\ Becomes(r, "deprecated")
  /\ label' = [label EXCEPT ![r.skill] = IF @ = r.version THEN NoVersion ELSE @]

(* Resolution by number and by label, and the artifact of the answer.      *)
Serves(r, p) ==
  releases[r].status \in {"published", "deprecated"} /\ releases[r].stored = p
LabelServes(skill, p) ==
  \E r \in Releases :
    /\ r.skill = skill /\ r.version = label[skill]
    /\ releases[r].status = "published" /\ releases[r].stored = p

-----------------------------------------------------------------------------
(* The script.                                                             *)

At(x, step) == script[x].at = step
Goes(x, step) == script' = [script EXCEPT ![x].at = step]
Gone(x) == script' = [script EXCEPT ![x] = NoScript]
(* The call has been answered as expected, or its answer never arrived.    *)
Answers(x, step) == Goes(x, step) \/ Gone(x)

(* The release the arguments name, and the one the calls work on: that of  *)
(* the skill the registry answered with.                                   *)
Named(x) == [skill |-> script[x].job.skill, version |-> script[x].job.version]
Target(x) == [skill |-> script[x].target, version |-> script[x].job.version]

Rooted == {p \in Packages : AtTop(p)}

(* validate_archive.  What is remembered of the first read is the license, *)
(* of the second that the scan passed; top is history.                     *)
ReadFrontmatter(x, job, p) ==
  /\ At(x, "idle")
  /\ p \in Rooted
  /\ script' = [script EXCEPT ![x] = [at |-> "read", job |-> job, top |-> p]]
  /\ UNCHANGED <<creation, served, reported>>

ScanFile(x, p) ==
  /\ At(x, "read")
  /\ p \in Sound
  /\ Goes(x, "scanned")
  /\ UNCHANGED <<creation, served, reported>>

(* From here on the run stands by this digest.  steady is history: it is   *)
(* the digest of the file whose layout was read.                           *)
HashFile(x, p) ==
  /\ At(x, "scanned")
  /\ script' = [script EXCEPT ![x] =
       [at |-> "look", job |-> @.job, sha |-> p, steady |-> p = @.top,
        target |-> @.job.skill]]
  /\ UNCHANGED <<creation, served, reported>>

LookAbsent(x) ==
  /\ At(x, "look")
  /\ script[x].job.skill \notin Coordinates
  /\ Goes(x, "create")
  /\ UNCHANGED <<creation, served, reported>>

(* The answer lists versions, not uploads.                                 *)
LookFresh(x) ==
  /\ At(x, "look")
  /\ script[x].job.skill \in Coordinates
  /\ releases[Named(x)].status \in {"none", "created", "uploaded"}
  /\ Goes(x, "upload")
  /\ UNCHANGED <<creation, served, reported>>

LookPublished(x) ==
  /\ At(x, "look")
  /\ script[x].job.skill \in Coordinates
  /\ releases[Named(x)].status = "published"
  /\ releases[Named(x)].stored = script[x].sha
  /\ Goes(x, "verify")
  /\ UNCHANGED <<creation, served, reported>>

RequestCreate(x, s) ==
  LET job == script[x].job
  IN /\ At(x, "create")
     /\ Receive(s, [skill |-> job.skill, description |-> job.description], Key(job.skill))
     /\ script' = [script EXCEPT ![x] =
          [at |-> "wait", job |-> job, sha |-> @.sha, steady |-> @.steady,
           target |-> @.target, session |-> s]]
     /\ UNCHANGED <<served, reported>>

(* Mutant: the answer itself for the skill in it.                          *)
SkillOf_Body(answer) == answer.body
SkillOf(answer) == answer.body.skill

TakeAnswer(x) ==
  /\ At(x, "wait")
  /\ LET s == script[x].session
     IN /\ create[s].at = "answered"
        /\ create[s].answer.status = "created"
        /\ script' = [script EXCEPT ![x] =
             [at |-> "upload", job |-> @.job, sha |-> @.sha, steady |-> @.steady,
              target |-> SkillOf(create[s].answer)]]
        /\ AnswerSent(s)
  /\ UNCHANGED <<served, reported>>

ScriptCreatesUpload(x) ==
  /\ At(x, "upload")
  /\ \E signed \in BOOLEAN : CreateUpload(Target(x), script[x].sha, signed)
  /\ Answers(x, "put")
  /\ UNCHANGED <<creation, reported>>

(* The file is read again; it may have been rebuilt since it was hashed.   *)
ScriptPuts(x) ==
  /\ At(x, "put")
  /\ \E p \in Packages : PutContent(Target(x), p)
  /\ IF releases'[Target(x)].stored = script[x].sha THEN Answers(x, "finalize") ELSE Gone(x)
  /\ UNCHANGED <<creation, reported>>

ScriptFinalizes(x) ==
  /\ At(x, "finalize")
  /\ Finalize(Target(x))
  /\ Answers(x, "scan")
  /\ UNCHANGED <<creation, reported>>

PollScan(x) ==
  /\ At(x, "scan")
  /\ releases[Target(x)].status = "draft"
  /\ releases[Target(x)].signed
  /\ Goes(x, "submit")
  /\ UNCHANGED <<creation, served, reported>>

ScriptSubmits(x) ==
  /\ At(x, "submit")
  /\ Submit(Target(x))
  /\ Answers(x, "approve")
  /\ UNCHANGED <<creation, reported>>

ScriptApproves(x) ==
  /\ At(x, "approve")
  /\ Decide(Target(x), "approved")
  /\ Answers(x, "publish")
  /\ UNCHANGED <<creation, reported>>

ScriptPublishes(x) ==
  /\ At(x, "publish")
  /\ Publish(Target(x), TRUE)
  /\ Answers(x, "verify")
  /\ UNCHANGED <<creation, reported>>

(* Three requests: what they read may change in between.                   *)
VerifyVersion(x) ==
  /\ At(x, "verify")
  /\ Serves(Named(x), script[x].sha) /\ releases[Named(x)].signed
  /\ Goes(x, "label")
  /\ UNCHANGED <<creation, served, reported>>

VerifyLabel(x) ==
  /\ At(x, "label")
  /\ LabelServes(script[x].job.skill, script[x].sha)
  /\ Goes(x, "download")
  /\ UNCHANGED <<creation, served, reported>>

Report(x) ==
  /\ At(x, "download")
  /\ Serves(Named(x), script[x].sha)
  /\ reported' = reported \cup
       {[release |-> Named(x), sha |-> script[x].sha, steady |-> script[x].steady]}
  /\ Gone(x)
  /\ UNCHANGED <<creation, served>>

(* A call is refused or fails, the scan does not end in time, or the user  *)
(* cancels.                                                                *)
Stop(x) ==
  /\ ~At(x, "idle")
  /\ Gone(x)
  /\ UNCHANGED <<creation, served, reported>>

ScriptStep(x) ==
  \/ \E j \in Jobs, p \in Packages : ReadFrontmatter(x, j, p)
  \/ \E p \in Packages : ScanFile(x, p) \/ HashFile(x, p)
  \/ LookAbsent(x) \/ LookFresh(x) \/ LookPublished(x)
  \/ \E s \in Sessions : RequestCreate(x, s)
  \/ TakeAnswer(x) \/ ScriptCreatesUpload(x) \/ ScriptPuts(x) \/ ScriptFinalizes(x)
  \/ PollScan(x) \/ ScriptSubmits(x) \/ ScriptApproves(x) \/ ScriptPublishes(x)
  \/ VerifyVersion(x) \/ VerifyLabel(x) \/ Report(x) \/ Stop(x)

(* Everybody else, with any package and without the script's care.         *)
OtherCreates(s) ==
  /\ \E request \in Request : Receive(s, request, NoKey)
  /\ UNCHANGED <<script, served, reported>>

Unattended(s) ==
  /\ \A x \in Scripts : At(x, "wait") => script[x].session # s
  /\ AnswerSent(s)
  /\ UNCHANGED <<script, served, reported>>

Works(s) ==
  /\ CreationStep(s)
  /\ UNCHANGED <<script, served, reported>>

OtherWork(r) ==
  /\ \/ \E p \in Packages, signed \in BOOLEAN : CreateUpload(r, p, signed)
     \/ \E p \in Packages : PutContent(r, p)
     \/ Finalize(r) \/ Scan(r) \/ Submit(r)
     \/ \E decision \in {"approved", "rejected"} : Decide(r, decision)
     \/ \E labelled \in BOOLEAN : Publish(r, labelled)
     \/ MoveLabel(r) \/ Deprecate(r)
  /\ UNCHANGED <<creation, script, reported>>

Next ==
  \/ \E x \in Scripts : ScriptStep(x)
  \/ \E s \in Sessions : OtherCreates(s) \/ Unattended(s) \/ Works(s)
  \/ \E r \in Releases : OtherWork(r)

Spec == Init /\ [][Next]_vars

-----------------------------------------------------------------------------
Script ==
  [at : {"look", "create", "upload", "put", "finalize", "scan", "submit", "approve",
         "publish", "verify", "label", "download"},
   job : Jobs, sha : Packages, steady : BOOLEAN, target : Skills]
Reading == [at : {"read", "scanned"}, job : Jobs, top : Packages]

TypeOK ==
  /\ namespaces \subseteq Slugs
  /\ skills \subseteq Request
  /\ \A r \in records : r.key # NoKey /\ r.request \in Request /\ r.body \in skills
  /\ \A x \in Scripts :
       \/ script[x] = NoScript
       \/ script[x] \in Reading \cup Script
       \/ At(x, "wait") /\ script[x].job \in Jobs /\ script[x].session \in Sessions
  /\ releases \in [Releases -> Release]
  /\ label \in [Skills -> Versions \cup {NoVersion}]
  /\ reported \subseteq [release : Releases, sha : Packages, steady : BOOLEAN]

(* The evidence of an approval by the script is about the bytes that are   *)
(* approved: they have the digest it names, the signature is of them, and  *)
(* a scan by these rules passed them.  That scan is the server's: the one  *)
(* the script made itself may have seen another file.                      *)
EvidenceIsTrue ==
  \A x \in Scripts : script[x].at \in {"submit", "approve", "publish"} =>
    LET r == releases[Target(x)]
    IN r.stored = script[x].sha /\ r.signed /\ r.stored \in Sound

(* What a run of the script reported as published is served from then on,  *)
(* and passed the scan, whoever uploaded it.  If the file was not rebuilt  *)
(* between the look at its layout and its hash, a client that can extract  *)
(* it at all installs it, whether or not the file system folds case; of a  *)
(* file that was rebuilt there this does not hold.                         *)
Installable ==
  {p \in Packages : \A folding \in BOOLEAN :
     Extractable(p, folding) => Installs(p, Manifest(p), folding)}
ReportedInstalls ==
  \A d \in reported :
    LET p == releases[d.release].stored
    IN /\ Serves(d.release, d.sha) /\ p \in Sound
       /\ d.steady => p \in Installable
=============================================================================
