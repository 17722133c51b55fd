# Skill Hub: a TLA+ model, its checks and its proofs

Skill Hub is a registry for agent skills. Authors upload packages, a worker scans
them, reviewers approve them, publishers release them, labels such as `stable`
point at releases, clients follow a change feed and install releases on their
machines, and an operator deploys all that on one host. This directory models the
parts of it in which several actors share state, model-checks them with TLC, and
proves their safety with TLAPS: every invariant and every action property that a
passing run checks on a small instance is a theorem for all values of the constants,
three of them for the one worker that `compose.yaml` starts. Liveness is model-checked only.

Paths below are relative to `src/`, the root of the repository.

## 1. Inventory

### The processes and what they share

    client --HTTP--> API (FastAPI, threads and one event loop) --SQL--> PostgreSQL
                        |                                                  ^
                        +--> object storage: quarantine, release <--- worker(s)
                                                                       |
                                                                  GitHub Releases
    operator --ssh--> deploy.sh, rollback.sh, restore.sh, backup.sh (one host)
    author -> publish_skill.py: one API call after the other, up to the read-back
    user --------> skillhub (command line client): agent directories + state.json

There is no message queue. The API and the worker share rows of PostgreSQL and
objects in two buckets; every hand-over is a status column that somebody polls.
A handler runs in one SQLAlchemy session on READ COMMITTED without version
columns: what it loaded may be stale by the time its UPDATE arrives, and that
UPDATE names only the columns that differ from what was loaded. This is what most
of the hazards come from.

### Components

| Component | Source | State | Operations | What is hard | What makes it correct |
|---|---|---|---|---|---|
| Version life cycle | `api/routes.py`, `services/registry.py`, `db.py`, the migrations | `skill_versions`, `reviews`, `registry_changes` | finalize, submit, approve, reject, publish, deprecate | requests act on rows loaded earlier; two guards, one on the loaded row (ORM listener) and one on the current row (trigger) | one verdict, publication only of the approved payload, a frozen payload, the feed agrees with the row |
| Scan worker | `worker.py` | lease, attempts and status in `skill_versions`; both buckets | claim, scan, requeue, reject, promote, clean up | leases without owner, three sessions per scan, crashes, several workers, a manifest that differs per scan | every version leaves the queue; the release bucket and the row agree; only what passed is promoted |
| Labels, resolution | `services/registry.py`, `api/routes.py` | `labels` | set label, publish with label, deprecate, resolve | a lock and an etag against a stale identity map | compare-and-set; a label resolves to what was announced |
| Upload intake | `api/routes.py`, `services/registry.py` | `upload_sessions`, quarantine | create, PUT, finalize | awaits between load and write; the object is stored before the row | acknowledged bytes are the bytes finalized, scanned and released |
| Object storage | `storage/*.py` | objects, created once | put, get, delete, copy | torn files, failing calls, repeated puts | create-once |
| Change feed | `services/registry.py` (`sync_manifest`) | `registry_changes`; the client's cursor | append, page, watermark | numbers are drawn before they are committed; two snapshots per answer | nothing visible is skipped or delivered twice |
| GitHub mirror | `publishers/github.py`, `worker.py`, `api/routes.py` | `external_publications`; GitHub | authorize, claim, check policy, draft, upload, publish, verify | no token, no answer, half an export, other people's hands, a worker that dies after its claim | what is called published is public, complete and immutable; exported once |
| Local installer | `skillhub_cli/installer.py`, `state.py` | agent directory, backups, `state.json` | install, update, rollback, uninstall | undo of half a command, kills, edits by the user | edits are never lost; the state file tells the truth |
| Host operation | `ops/tencent/*.sh`, `compose.yaml` | containers, database, checkout, state files, dumps | deploy, rollback, restore, backup | any command fails, any script is killed, EXIT traps | a dump holds the last write; what runs has been proved and is recorded |
| Idempotency keys | `services/idempotency.py` | `idempotency_records` | lock, replay, remember (`create_skill` only) | two requests with one key at once; one key for two skills; lost answers | a repeated request is answered as the first was |
| Namespaces, skills, search | `services/registry.py`, `cursors.py` | `namespaces`, `skills` | create, get, search | a namespace that two requests create; INSERTs that wait for each other | unique names; the answer names the skill asked for |
| Package scanner, archive rules | `security/scanner.py`, `skillhub_cli/archive.py`, `ops/macos/publish_skill.py` | none | validate, scan, extract, verify | three sets of rules about one format, and file systems that fold case | what is laid out at the top and accepted the client can install |
| Signatures, authentication | `security/signatures.py`, `auth.py` | none | verify | - | their outcome is an input here |
| Audit log, installation reports | `audit.py`, `services/registry.py` | append-only rows | append | - | written by the transaction they describe |
| Web console, registry client, agent adapters | `web/`, `skillhub_cli/`, `adapters/` | none of their own | HTTP calls, path rules | - | - |
| Publishing script | `ops/macos/publish_skill.py` | none of its own | validate, sign, upload, submit, approve, publish, read back | it may end between any two calls; the file and the registry change under it | the approval's evidence is true; what it reports is served and installs |
| macOS release scripts | `ops/macos` | none of their own | build, sign, notarize | - | - |
| Bootstrap, probes, CI | `ops/`, `.github` | none | - | - | - |

`PROJECT.json` has the same list with the status of each, and under `hazards`
about forty places, each at its line, where the code can go wrong in a way a test
would hardly reach, with the property that covers it or the reason why none does.

## 2. Modules

| Module | Models | Composition |
|---|---|---|
| `VersionRow` | a row of `skill_versions`, the UPDATE SQLAlchemy sends (`Merge`), the listener (`OrmAllows`) and the trigger (`TriggerAllows`) | extended by `VersionLifecycle` |
| `VersionLifecycle` | all writers of that table: workers, submit, review, publish, deprecate; with reviews, feed, both buckets | implements `ReleaseLifecycle` |
| `ReleaseLifecycle` | abstract: each operation one atomic step, evidence bound to a frozen payload | instantiated by `VersionLifecycle` as `Promised` |
| `VersionLifecycleProofs` | the inductive invariant, the refinement, the feed, one worker | extends `VersionLifecycle` |
| `Labels` | `set_label`, `publish_version` with and without label, `deprecate_version`, `resolve` | takes versions after their review |
| `UploadIntake` | `create_upload`, `upload_content` with its awaits, `finalize_upload`, the worker's way with the bytes | hands over to `VersionLifecycle` at finalization |
| `ChangeFeed` | transactions against the sequence, `sync_manifest`, a client | reads what `VersionLifecycle` and `Labels` append |
| `GitHubMirror` | authorization, `process_one_github_publication`, `GitHubPublisher.publish`, GitHub | starts from a published version |
| `Installer` | the client's commands on one skill of one agent | independent |
| `Deployment` | the scripts of the host | independent |
| `SkillCreation` | `create_skill` with its Idempotency-Key: advisory lock, lookup, replay, both unique constraints, commit | extended by `Publishing` |
| `PackageRules` | a package as a sequence of ZIP entries: what the scanner accepts and lists in the manifest, what the script lets through, what the client extracts and verifies | extended by `Publishing` |
| `Publishing` | runs of `publish_skill.py`, the worker and other administrators on the same skills and versions | composes `SkillCreation`, the release handlers (atomic here, see section 6) and `PackageRules` |
| `PublishingProofs` | the package lemmas, what `create_skill` keeps (`CreationInv`), the inductive invariant, the refinement | extends `Publishing`; instantiates `ReleaseLifecycle` as `Promised` |
| `LabelsProofs`, `UploadIntakeProofs`, `ChangeFeedProofs`, `GitHubMirrorProofs`, `InstallerProofs`, `DeploymentProofs` | the inductive invariant of each module and the theorems | extend the module of that name |

Each `MC...` module extends one of them and adds what only model checking needs
(symmetry sets, the value of a function constant); its `.cfg` files give constants
their values and replace nothing.

### How state and actions correspond to the code

**VersionLifecycle.** `rows` is the table. A request is `...Load` (the SELECT with
all checks made on what it returned) and `...Commit` (the flush, which both guards
judge, and the commit); between them the loaded row sits in `sess[s].row`. A request
that its checks refuse has no step, one that the trigger refuses takes `Rollback`,
which may also happen at any time and stands for a crash or a client that goes
away. A worker's stage in `worker[w]` names the place in `process_scan` it has
reached: first session (`scan`), archive (`read`), verdict (`result`), final session
(`finish`), the two `put_release` calls (`stored`, `listed`), after the commit
(`cleanup`), and the failure handler (`infra`, `requeue`). The claim is one step: it
selects FOR UPDATE SKIP LOCKED and commits. The lease is `live` or `expired`; no
clock is modelled, expiry is a step of its own that may come at any time.

**Labels.** A label row is its id, its target and its etag; ids and etags are drawn
from one counter. `seen` is what the session has in its identity map. `Fetched` is the
locked SELECT: it tells afresh whether a row exists, but hands out the attributes
loaded earlier if the session knows that row. `Moved` is the UPDATE of changed
columns.

**UploadIntake.** One upload session of one version. Contents stand for archives,
their digests and sizes alike. `put` and `stored` are the two awaits of
`upload_content`; the row that is judged is the one loaded before the first.

**ChangeFeed.** A transaction draws numbers when it inserts and is seen when it
commits. A request is `ReadPage` (first statement) and `Answer` (second statement
and response); `LoseAnswer` drops it. A page is the set of the rows with the lowest
numbers (`Lowest`: ORDER BY and LIMIT, and the slice that drops the look-ahead row);
the order within it is that of the numbers, and its last item is the `Highest`.

**GitHubMirror.** One action per call to GitHub. A call may fail (`Raises`), or take
effect without an answer (`PublishUnanswered`); asset uploads may go wrong; people
with write access may switch immutability on and off and replace assets where GitHub
lets them. These environment actions are external: they are modelled from what the
publisher checks for. `settings[w]` is the environment a worker was created with: without
a token it claims nothing (`worker.py:375`), which is the default of `compose.yaml:24` and
what `docs/deployment-tencent-shanghai-mvp.md:374` asks for between two publications; with
another owner or repository than the API's it refuses (`PolicyHolds`). `Recreate` is the operator who
changes `.env` and recreates the worker, at any time and in any stage.

**Installer.** `dest` is the installed tree, `disk` the backup paths, `record` the entry of the state
file, `op` the running command. Every `os.replace` and the state write are a step;
each may fail and is then undone as the code undoes it; a kill undoes nothing.
A rollback selects an entry of the list of backups (`entry`), which leaves the list only with the state
write at the end.

**Deployment.** `script` is the script that holds the lock and how far it is, `files`
the state files, `up` and `image` the containers, `db` the database by its migration
and the worker whose heartbeat it holds, `saved` whether a verified dump has all that
was written.

**SkillCreation.** `create[s]` is the request a session works on: `looked` after the
advisory lock and the SELECTs of record and namespace, `inserted` after the flush,
`answered` after the commit or the exception. `LockFree` is the advisory lock, held
from the lookup to the end of the transaction. `Unblocked` is what PostgreSQL makes
an INSERT wait for; afterwards `SkillExists` (409) or `NamespaceExists` (the
IntegrityError outside the try block, a server error) are what a committed rival
leaves. A slug is the sequence of the words between its dashes, so that two
coordinates with one Idempotency-Key can be written down.

**PackageRules.** A path is a sequence of components, `Fold` the NFC and case folding
of one. `SoundEntry`, `NoCollision`, `NoFileAbove` and `Roots` are the parts of
`_validate_archive_structure`, `Accepted` is the scan without error, `Manifest` the files it
lists, with the wrapper stripped. `AtTop` is `_frontmatter` of the script;
`Extracts` and `Installs` are the client's, with `folding` for a file system that folds
case, where later files replace earlier ones and a directory keeps its first spelling.

**Publishing.** `script[x]` is a run: the read or call it is about to make, its arguments
and the digest it stands by. The file on disk is not a variable: each of its four reads
(`ReadFrontmatter`, `ScanFile` and `HashFile` in `validate_archive`, and the one in
`ScriptPuts`) picks any package, for the code neither locks the file nor compares the
reads, except that the server's answer to the PUT must name the digest of `HashFile`.
`top` and `steady` are history: the package of the first read, and whether the hash is of
it. Each call is one action, in which the handler acts and the answer
arrives or is lost (`Answers`); `Stop` is a refused call, a timeout or the user. There
is no retry in the script: a later run starts from `ReadFrontmatter`. `OtherWork` lets
everybody else call every handler at any time with any package, signed or not.
`releases[r]` is the upload session and then the version of one (skill, version).

## 3. What is checked

Twelve runs. State counts are distinct states.

| Run | Instance | States | Properties |
|---|---|---|---|
| `race` | 1 version, 3 requests, 2 workers, 2 manifests, 3 attempts | 56,319 | `TypeOK`, `NoSplitVerdict`, `PublishedIsApproved`, `ReleaseHoldsPayload`, `FeedTellsStatus`, `ImplementsRelease` |
| `settle` | 3 versions (signed, unsigned, unsigned with a scan error), 1 request, 1 worker, 2 manifests, 2 attempts, fairness | 633,904 | `SubmittedPassedScan`, `QuarantinedUntilScanned`, `ScanSettles` |
| `moves` | 2 versions, 1 label, 2 requests, 3 label writes | 481,958 | `TypeOK`, `LabelsAreReleased`, `ResolvedWasAnnounced`, `UnconditionalOnlyCreates`, `CasKeepsRow` |
| `bytes` | 2 contents, 3 requests | 16,069 | `TypeOK`, `BytesAreKept`, `AckedIsFinalized` |
| `export` | 2 authorizers, 1 worker with any settings, fairness | 7,592 | `TypeOK`, `PublishedIsMirrored`, `MirrorSettles`, `ExportedOnce` |
| `feed` | 3 transactions, 5 events, pages of 2 | 154,704 | `TypeOK`, `NothingSkipped`, `DeliveredOnce` |
| `local` | 2 versions, 2 edits, 4 backup paths, 2 kept backups | 16,344 | `TypeOK`, `EditsKept`, `StateIsTruthful`, `BackupsExist` |
| `ops` | 2 releases, the second with a migration | 321,674 | `TypeOK`, `RecoveryPointHolds`, `ServedIsRecorded`, `UnprovenIsDown`, `HeartbeatIsNew`, `DefaultRollbackIsProven` |
| `author` | 3 skills (two share a key, two a namespace), 2 runs of the script, 2 requests, 3 packages | 368,853 | `TypeOK`, `AnswerNamesSkill`, `RetryIsAnswered`, `EvidenceIsTrue`, `ReportedInstalls` |
| `unscanned` | 1 version, 1 request, 2 workers | violated | `SubmittedPassedScan` |
| `cas` | as `moves` | violated | `LabelCas` |
| `late` | as `bytes` | violated | `UploadContentImmutable` |

All runs but two have symmetry over interchangeable model values; `settle` and
`export`, which check liveness, have none, and neither has `ops`, whose releases are
not interchangeable. Deadlock is checked except for `VersionLifecycle` and `Labels`, which
may stop for good: every version has been rejected or deprecated and the queue is
empty, or the label writes are used up.

Why the bounds are enough. In `race` three requests are the smallest number with
which two reviewers race while a third request uses what one of them wrote; two
workers are what an expired lease needs, two manifests what two scans that disagree
need, and three attempts (the default of `worker_max_scan_attempts`) let one worker
be overtaken twice. No action relates two versions, so one is enough there; the
other runs have more to vary what differs between them. The theorems of section 5
hold without any of these bounds, for everything but `ScanSettles` and `MirrorSettles`; what
the runs add to them is that the interesting cases happen, and that each property can
be broken by a change of the code. `MaxMoves` = 3 allows a label to be created,
moved and moved again, or removed and created anew, with two requests in flight.
In `author` two runs and two requests are what a shared key and a retry that
overtakes its predecessor need; the third skill makes two requests create one
namespace; of the packages one is plain, one has a wrapper, which the server accepts and no
client installs, and one has no license, so that nobody accepts it: the file as it is and as
it is rebuilt. `OneThingAtATime` is a bound: while skills are being created there are no
releases and the file is the plain one, later there is one release at a time, and two runs do
not read their files at once. The two phases share nothing but
the set of skills, no action relates two releases, and a read touches nothing but its run. `MCPublishing` also evaluates,
as assumptions, that each of some hundred small packages which is accepted, has no
wrapper and can be extracted can be installed, and that each of these conditions is
needed.
In `bytes` a third request is one that started before the finalization and commits
after the cleanup while two others race. `MaxEvents` = 5 gives two full pages and one event more,
and three transactions commit five numbers in every order. `KeptBackups` is 2 instead
of 5 so that four paths overflow the list. Two releases suffice for `ops`: current,
previous and pending can all differ from what is checked out, and the migration
distinguishes old code on a new schema from new code on an old one.

### What the passing runs show

* `race`: whatever requests and workers loaded, a version gets a single verdict, is
  published only with an approval on record that binds the payload it has now, and the manifest object in the release bucket is
  the one its row names even when two workers, each with its own manifest, promote
  the same version. Each interleaving is one of the atomic `ReleaseLifecycle`, in which a
  payload is frozen from submission on. The
  trigger carries this: without it (the mutant of `NoSplitVerdict`) the listener, which
  judges the loaded row, lets contradictory verdicts through.
* `settle`: with the one worker that `compose.yaml` runs, crashes, lost leases and
  failing storage do not keep a version in `pending_scan` or `scanning`; what is
  submitted passed its scan; the archive of a version stays in quarantine until it has
  a verdict.
* `moves`: a label names only released versions, a follower of the feed has heard of
  what a label resolves to before, a request without etag replaces nothing, and one
  with an etag never touches a label that was created after the etag was given out.
* `bytes`: of racing PUTs only acknowledged bytes are finalized, and a late one destroys
  neither what waits for its scan nor what was released.
* `export`: what the registry calls published is public at GitHub, complete and
  immutable; a release that is public is not exported again; a publication that was claimed
  comes to an outcome unless the worker died on it, and one that is only authorized does so once a
  worker has a token and keeps it. Without a token it waits, for ever if nobody sets one.
* `feed`: an answer skips nothing that was in the table when its page was read,
  and delivers nothing twice.
* `local`: no edit of the user's is lost, not even by a command that is killed; when a
  command has returned, state file and tree agree and listed backups exist.
* `ops`: target code touches the database only when a dump holds its last write; what
  runs while nothing is pending is what the files say; after a failure unproven
  releases are down; the health check before ingress is not fooled by an old
  heartbeat; a rollback without a tag goes to a release that has served.

* `author`: a request that is repeated while or after the first was at work is answered
  as that one was, and never with another skill's answer although the script's keys
  collide; the evidence the script gives with its approval names the digest of the bytes that
  are approved, which the key signed and the server's scan passed, whatever became of the
  file meanwhile; and what a run reported stays served, passed the scan and, unless the file was
  rebuilt between the look at its layout and its hash, can be installed by every client that
  can extract it.

### Findings

Three runs show the code at odds with what the repository says of it.

* `unscanned` (`worker.py:180`). A worker whose lease expired fails late and resets the
  version although another worker took it over and promoted it; when the attempts
  then run out while a submission that loaded the draft is still to commit, a version
  is submitted with a failed scan, which `services/registry.py:365` means to refuse.
  It needs two workers.
* `cas` (`services/registry.py:433`). `If-Match` is compared with the etag the session
  loaded before it waited for the lock. Of two requests with the same etag both take
  effect. `README.md:89` says "label changes use CAS."
* `late` (`api/routes.py:258`). A PUT that was loaded before the finalization and
  stored after the cleanup of quarantine rewrites the recorded digest and the status of
  the upload, where `routes.py:266` says "Upload content is immutable once stored".
  `bytes` shows that no version is harmed.

### What does not hold, and is not claimed

Of packages: the scanner accepts one with a wrapper directory, which the client then
refuses to install (only the script keeps those out); it accepts a file `a` next to a
directory entry `a/b/`, which the client cannot extract; it accepts two spellings of
one directory, which a file system that folds case merges under names the manifest
does not have; and it accepts files whose mode keeps their owner from reading them.
`Extractable` names the last three, and `ReportedInstalls` promises nothing without it.
Of the script: it refuses a wrapper directory (`publish_skill.py:78`) in the file it looks at first, and
nothing says that this is the file it hashes and signs. One that is rebuilt with a wrapper in
between is signed, passes the server's scan, is published and reported, and no client installs
it (`steady` is what `ReportedInstalls` needs; without that conjunct TLC finds the run). For the same
reason the license its evidence names is that of the first read. And a run that ends after its upload was created leaves a version number that
no later run can use. Of `create_skill`: of two first skills in one namespace one can
fail with a server error.

Some statements one might expect are false of this code and no document makes them.
`QuarantinedUntilScanned` fails with two workers, by the same late handler. A label may end on a
deprecated version, because its target is judged before the lock; resolution then
finds nothing. A deprecation deletes a label that was moved away from the version
after it looked, and feed and label table may then differ. An authorization that
loaded its row earlier can overwrite `publishing` or `published`; the export that
follows ends at the existing tag. A version may be deprecated between the policy check and the public release:
`docs/github-publication-policy.md:8` asks of every public release that its version is published and
not deprecated, while the code looks once, after its claim (`worker.py:416`), and the publisher not at
all. An authorization does not ask whether any worker has a token. With two workers for GitHub the vacancy check of
`ExportedOnce` would be a race. An event that commits after a page was read, with
a number drawn before, is never seen by that client, and neither is one that commits between
the page and the watermark of one answer when the page was the last: `NothingSkipped` says
exactly how far the feed goes. A backup the client lists as a version may be an edit, if the user
edited between observation and move. A rollback of the host that follows a failed
restore can run code on a schema older than it expects.

## 4. Fairness

`VersionLifecycle` has weak fairness on each worker's own steps (`WorkerStep`: the loop of
`worker.py` never ends, and the container restarts it) and on `LeaseExpires` (a lease
is a date). There is none on requests, for nobody must submit anything, nor on
crashes and scan failures, which are possible but never due. `WorkerDies` is not part
of `WorkerStep`, so a worker may die as often as it likes; the attempts, not the
fairness, end that. `GitHubMirror` has weak fairness on `WorkerStep` only; its
`MirrorSettles` excepts a worker that died on its claim, because nothing in the code
ever takes up a row left in `publishing`; there is no fairness on `Recreate`, for nobody has to
set a token, and the property asks for one. The other modules state safety only; the
publishing script in particular may end at any time and nothing makes it run again.

## 5. What is proved

Every invariant, every action property and the refinement of section 3, for all
constants that satisfy the assumptions their modules name. No proof assumes that a set
is finite. Each theorem rests on an inductive invariant of its module, called `IInv` and
proved once; `TypeCorrect` is the type invariant in all of them. The assumptions
say that the values for "nothing", "none", "absent" or "torn" are none of the things they stand in for,
that versions, edits and paths of the installer are different things, that `Level` numbers the
migrations of the releases, that jobs name skills and packages are sequences of entries, and that
`Limit`, `KeptBackups` and the bounds `MaxMoves` and `MaxEvents` are natural numbers, however large.

### VersionLifecycleProofs

| Theorem | States |
|---|---|
| `Invariance`, `TypeCorrect` | `Spec => []IInv`, `Spec => []TypeOK` |
| `OneVerdict` | `Spec => []NoSplitVerdict` |
| `PublishedOnlyIfApproved` | `Spec => []PublishedIsApproved` |
| `ReleaseAgrees` | `Spec => []ReleaseHoldsPayload` |
| `FeedTells` | `Spec => []FeedTellsStatus` |
| `Refinement` | `Spec => ImplementsRelease` |
| `OneWorkerSubmitsPassed` | with one worker, `Spec => []SubmittedPassedScan` |
| `OneWorkerQuarantines` | with one worker, `Spec => []QuarantinedUntilScanned` |

The argument. None of these properties is inductive, because a step depends on a row
that was loaded at some earlier time. The invariant therefore says what a loaded row
still tells about the row in the table (`Tells`): if it was immutable, the row is so
with the same payload; if it had an artifact, the row has one. That is kept
because every step moves rows, reviews and the release bucket forward only
(`Evolves`, lemma `StepEvolves`). `Shaped` says that a row is immutable exactly
from submission on and has its payload whole or not at all, with the manifest of the
release bucket; `InvReviews` ties reviews to statuses in both directions; `InvSessions` and
`InvWorkers` say what requests and workers in progress have checked. `StepEffect`
reduces every action to its effect on one row, so that each part of the invariant is
shown once per kind of effect and not once per action. `Refinement` maps a step that changes the stage
of a version to the operation of that name, and all others to stuttering.

`FeedTells`: a step either appends nothing and makes no version published or deprecated
(`Quiet`), or appends the event of the one version whose status it sets (`Announces`), and the
trigger lets only `published` follow `approved` and only `deprecated` follow `published`. That a released version
never loses its status comes from the same lifecycle moves. No request can therefore
announce a status that its UPDATE does not also bring about, stale as its row may be.

With one worker (`OneWorker`; `compose.yaml:100` starts one process and nothing scales it)
nobody takes a version over while it is being scanned. The invariant `Single` adds that a
version keeps the verdict it has and a version without one its archive (`Verdicts`), that
requests have only loaded versions with a verdict (`Requested`), and that from its claim to its commit
the worker finds the row in `scanning` (`Attended`), even after its lease expired: then it is the same
worker that comes back, and only after it has given up the version. The finding
`unscanned` shows that the assumption is needed.

### LabelsProofs

| Theorem | States |
|---|---|
| `TypeCorrect` | `Spec => []TypeOK` |
| `LabelledReleased` | `Spec => []LabelsAreReleased` |
| `ResolvedAnnounced` | `Spec => []ResolvedWasAnnounced` |
| `UnconditionalCreates` | `Spec => UnconditionalOnlyCreates` |
| `CasRowKept` | `Spec => CasKeepsRow` |

A request judges its target's status before it waits for the lock. What survives
the wait is that a version that was released stays past its release (`Judged`, `Released`), and that
the event of its release is in the feed for good, ahead of anything that comes after
(`Told`). For the action properties: the locked SELECT hands out attributes that were loaded
earlier only for the very row they were loaded from, and a row's etag is never below its id, in the
table or in what a request has loaded (`Etags`): so the row that is written has an id no higher than the
etag that was presented. The
removals of a deprecation are a sequence made from a set of rows; that this set is
finite, because every row was created by a step, is part of the invariant (`Finite`) and not an assumption.

### UploadIntakeProofs

| Theorem | States |
|---|---|
| `TypeCorrect` | `Spec => []TypeOK` |
| `BytesKept` | `Spec => []BytesAreKept` |
| `AckedFinalized` | `Spec => []AckedIsFinalized` |

Until the finalization all who got past the object store have the bytes of the one
object it holds, and so have the row and whoever was answered (`StoredAgree`): create-once decides
the race, not the row, which each request judges as it was before its awaits. After the
finalization the version's digest cannot change, and what a late request still writes is the row of the
upload, on which nothing rests any more. `ScanHolds` says that the worker works on the version it
has read, so that it deletes from quarantine only what it has copied.

### ChangeFeedProofs

| Theorem | States |
|---|---|
| `TypeCorrect` | `Spec => []TypeOK`, with unique numbers |
| `NothingIsSkipped` | `Spec => NothingSkipped` |
| `DeliveredOnlyOnce` | `Spec => DeliveredOnce` |

`PageHolds` is the lemma about pages: the first `Limit` of the first `Limit + 1` rows
contain, with a row, all rows below it; and they are all the rows there are unless the
look-ahead row was found. From it the invariant of a request under way (`Reads`): what it left
out comes after all it contains, and only if it says there is more. `Follows` says that
the client has nothing from beyond its cursor. Commits that arrive between the page and the
watermark do not matter to the first, since the events of the page are those of
the table as it was then; that is what the property says, and as much as holds.
`Numbered` is why a rollback must not give its numbers back.

### GitHubMirrorProofs

| Theorem | States |
|---|---|
| `TypeCorrect` | `Spec => []TypeOK` |
| `PublishedMirrors` | `Spec => []PublishedIsMirrored` |
| `OneWorkerExportsOnce` | with one worker, `Spec => ExportedOnce` |

What a worker has seen of GitHub it may rely on only where GitHub keeps it so: a public
release stays, and an immutable one stays as it is (`Seen`). Hence the verification after the publication,
and not the one of the draft, is what `published` rests on. `OneWorkerExportsOnce` needs besides that what the
worker found vacant is still vacant when it drafts (`StillVacant`), which two workers would break.

### InstallerProofs

| Theorem | States |
|---|---|
| `TypeCorrect` | `Spec => []TypeOK` |
| `NoEditLost` | `Spec => []EditsKept` |
| `StateTruthful` | `Spec => []StateIsTruthful` |
| `BackupsThere` | `Spec => []BackupsExist` |

Trees only move. The invariant says where each of them is at every place a command can
have reached: `InstalledTree` follows the installed tree from the destination to where it was set aside
and back (`Truthful`), `Backed` follows each backup, `Holding` ties what a command has read from the
state file to the file as it is, and `Paired` and `Unused` keep a path from standing for two trees. A kill
ends what `Truthful` and `Backed` say, but not `EditsKept`: what is at the destination is moved to a
path nothing was at, and the only tree a command ever drops is the new one it has placed itself.

### DeploymentProofs

| Theorem | States |
|---|---|
| `TypeCorrect` | `Spec => []TypeOK` |
| `RecoveryPoint` | `Spec => []RecoveryPointHolds` |
| `ServedRecorded` | `Spec => []ServedIsRecorded` |
| `UnprovenDown` | `Spec => []UnprovenIsDown` |
| `HeartbeatNew` | `Spec => []HeartbeatIsNew` |
| `DefaultRollbackProven` | `Spec => []DefaultRollbackIsProven` |

One invariant for three scripts and the backup, in parts that each speak of one thing at every
line a script can be killed at: nothing writes between the dump and the start of
the target's code (`Saved`), from the checkout on what is started is the target (`OnTarget`), the
heartbeat was cleared before (`Beating`), what the files name has been in service (`Proven`), the mark is there
while the target may run (`Marked`), and unless a script was killed what an EXIT trap would start
again has passed its checks (`Tested`). They need each other: `ServedIsRecorded` is about the
checkout and the images, and whether those are the current release after a failure
depends on whether the mark was set before.

### PublishingProofs

| Theorem | States |
|---|---|
| `AcceptedInstalls` | a package that is accepted, has no wrapper and can be extracted installs, folding case or not |
| `ReportedStaysServed`, `TypeCorrect` | `Spec => []IInv`, `Spec => []TypeOK` |
| `ReportedInstall` | `Spec => []ReportedInstalls` |
| `EvidenceHolds` | `Spec => []EvidenceIsTrue` |
| `AnswersNameSkills` | `Spec => []AnswerNamesSkill` |
| `RetriesAreAnswered` | `Spec => []RetryIsAnswered` |
| `PublishingRefines` | `Spec => Promised!Spec`, the abstract lifecycle `ReleaseLifecycle` |

The argument. Two entries of an accepted package that are folded alike are one, and
none is at or below a file (`Apart`; it needs `NoDirectoryBelowFile`): so the extraction
runs to its end and no file replaces another. With one spelling of every directory each
path is on disk as in the archive (`KeepsSpelling`), and without a wrapper the manifest
has the paths of the archive: disk and manifest agree.

The invariant of the runs is that from its upload on a run holds on the server the bytes it
hashed and from the scan on their signature (`Holds`), that every version past its scan has bytes that
pass it (`Vetted`), that a steady run's digest is of a package with its layout at the top (`Prepared`), and
that what was reported is released with its bytes. Nothing in it says that a run validated what
it hashed, for that does not hold. It is kept because every handler, whoever calls it,
keeps the bytes of an upload, the signature, and a released version released
(`ServedEvolves`). A package with its `SKILL.md` at the top has no wrapper (`AtTopIsRooted`).

`RetryIsAnswered` is not inductive: nothing in it says that the record found later
cannot be committed by a transaction that is already at work. `CreationInv` adds
the advisory lock (of two transactions with one key one waits, and while one runs its
key has no record: `Locked`) and the unique constraint (what is inserted and
not committed is new: `Unique`). With them a commit adds the record of a skill that nobody was
told exists already, and a refusal is given only while there is no record of the key.

`PublishingRefines` ties the two models of a release together. In `Publishing` a
handler is one step; `VersionLifecycle` has its loads, guards and commits interleaved. Both
implement `ReleaseLifecycle`, with the frozen payload as what is judged: here the bytes that
are stored, there the frozen columns of the row. What the abstract
lifecycle promises therefore holds of both.

### Model-checked only

`ScanSettles` and `MirrorSettles`: liveness under fairness is out of the prover's reach. The
three findings are counterexamples and need no proof. `PublishingRefines` is no property of a
run; TLC finds no violation of it, or of any of the invariants `IInv`, on the instances of section 3.

## 6. Abstractions worth knowing

* The data are abstract: a package is whether it passes its scan and whether it is signed, a manifest or an archive
  a model value with an injective digest. Audit rows, ownership checks, visibility
  and HTTP status codes are left out; every modelled request is an authorized one.
* A load of several SELECTs is one step (a version with its reviews, a skill with its
  versions and labels). The commit is one step with its flush, except in
  `PublishLabelled`, where the row lock taken by the first flush matters.
* `Promote` is a little too permissive: the unique index on the files of a version may refuse a
  second promotion in the code. More behaviours than the code has cannot hide a
  violation of what is checked.
* `ScanRequiresSignature` and `PublishRequiresSignature` are two constants because the
  worker and the API read the setting each from their own environment.
* `Publishing`: the handlers of a release are single steps, which `ImplementsRelease`
  shows for review and publication. A scan by the worker is one step, too. Every
  package is named as its job wants it; a package stands for its digest, and whether the
  registered key signed the digest is a Boolean. What is in a file is one
  of six contents: the patterns that search it are left out, and so are compatibility
  lists and the warnings about scripts.
* `GitHubMirror`: the settings of the API are fixed, those of a worker are compared with them;
  of what a row binds, only status, signature and destination can come to differ.
* `SkillCreation`: one principal, for `auth.py` knows a single token.
* `Installer`: one client process at a time; the user does not edit between the
  placement of a tree and the end of the command; what is placed was verified.
* `Deployment`: writing a state file is one step and revision and tag are one value; `docker
  stop` in the trap succeeds; HTTPS is enabled; retention deletes no dump that is
  needed; nothing fails after the pending mark is removed.

## 7. Plan

Built, in this order: `VersionRow`, `VersionLifecycle` with `ReleaseLifecycle`, its proofs,
`Labels`, `UploadIntake`, `GitHubMirror`, `ChangeFeed`, `Installer`, `Deployment`,
`SkillCreation`, `PackageRules` and `Publishing` with its proofs; then the proofs of
`GitHubMirror`, `UploadIntake`, `Deployment`, `Labels`, `Installer` and `ChangeFeed`.

Still to do:

1. The WorkBuddy export in `Installer` (`_prepare_workbuddy`), with its own undo.
2. Resolution by date, search with its cursors.
3. Proofs of what the new parts bring. Everything that is modelled now and that the
   provers reach is proved.

Not planned: signature verification, scanner patterns, the web console, adapters, build
and notarization scripts, bootstrap and probes. They are pure functions of their
input, or calls of external tools, without state that outlives them.
