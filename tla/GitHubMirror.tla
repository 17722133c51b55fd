----------------------------- MODULE GitHubMirror -----------------------------
(***************************************************************************)
(* The export of one published version to GitHub Releases: the request     *)
(* that authorizes it, the worker that claims the authorization and drives *)
(* the publisher through a draft, its assets and the public release, and   *)
(* what may happen at GitHub meanwhile.                                    *)
(*                                                                         *)
(* Every call to GitHub may fail, or take effect and lose its answer; the  *)
(* publisher never retries and never cleans up, the row becomes            *)
(* failed_manual_review and the approver may authorize once more.  A       *)
(* worker that dies after its claim leaves the row in publishing.          *)
(*                                                                         *)
(* A worker has the token and the destination of its own environment,      *)
(* which a guide has the operator change by recreating the worker: without *)
(* a token it claims nothing, with another destination it refuses.         *)
(*                                                                         *)
(* There is one version, so one tag; the digests the row binds are those   *)
(* of an immutable version and cannot come apart, and its signature is     *)
(* what it was when the version was published.                             *)
(***************************************************************************)
CONSTANTS
  Sessions,   \* authorization requests in progress at one time
  Workers,    \* worker processes
  Nothing     \* no row, no release

VARIABLES
  version,     \* skill_versions: its status, and whether its signature was verified
  publication, \* external_publications.status of the version, for github
  sess,        \* what each authorization request has loaded
  worker,      \* what each worker is doing
  settings,    \* the settings each worker process was created with
  protected,   \* GitHub: whether release immutability is enabled
  release,     \* GitHub: the public release under the tag
  died         \* history: a worker died on a publication it had claimed

vars == <<version, publication, sess, worker, settings, protected, release, died>>
github == <<protected, release>>

Statuses == {"authorized", "publishing", "published", "failed_policy",
             "failed_manual_review"}
Assets == {"none", "intended", "other"}

Idle == [at |-> "idle"]
Free == [at |-> "free"]

(* claimed: the row is publishing; checked: policy holds; guarded: releases*)
(* are immutable; vacant: neither tag nor release; from drafted on there is*)
(* a draft with these assets; public: GitHub answered the publication;     *)
(* done: the release was read back.                                        *)
Steps == {"claimed", "checked", "guarded", "vacant", "failed", "done"}
Drafted == {"drafted", "uploaded", "verified", "public"}

(* A release as GitHub has it.                                             *)
Release == [assets : Assets, immutable : BOOLEAN]

(* token: SKILLHUB_GITHUB_TOKEN is not empty; bound: owner and repository  *)
(* are those the API writes into an authorization.                         *)
Settings == [token : BOOLEAN, bound : BOOLEAN]

ASSUME NothingAssumption == Nothing \notin Statuses \cup Release

Init ==
  /\ version \in [status : {"published"}, signed : BOOLEAN]
  /\ publication = Nothing
  /\ sess = [s \in Sessions |-> Idle]
  /\ worker = [w \in Workers |-> Free]
  /\ settings \in [Workers -> Settings]
  /\ protected \in BOOLEAN
  /\ release = Nothing
  /\ died = FALSE

-----------------------------------------------------------------------------
(* authorize_github_publication.  It writes nothing if what it loaded is   *)
(* authorized, publishing or published already.                            *)
Active == {"authorized", "publishing", "published"}

AuthorizeLoad(s) ==
  /\ sess[s] = Idle
  /\ version.status = "published"
  /\ publication \notin Active
  /\ sess' = [sess EXCEPT ![s] = [at |-> "authorize", seen |-> publication]]
  /\ UNCHANGED <<version, publication, worker, github, died, settings>>

(* An INSERT fails if there is a row by now; an UPDATE does not look.      *)
AuthorizeCommit(s) ==
  /\ sess[s].at = "authorize"
  /\ sess[s].seen = Nothing => publication = Nothing
  /\ publication' = "authorized"
  /\ sess' = [sess EXCEPT ![s] = Idle]
  /\ UNCHANGED <<version, worker, github, died, settings>>

Rollback(s) ==
  /\ sess[s] # Idle
  /\ sess' = [sess EXCEPT ![s] = Idle]
  /\ UNCHANGED <<version, publication, worker, github, died, settings>>

(* The version may be deprecated at any time.                              *)
Deprecate ==
  /\ version.status = "published"
  /\ version' = [version EXCEPT !.status = "deprecated"]
  /\ UNCHANGED <<publication, sess, worker, github, died, settings>>

-----------------------------------------------------------------------------
(* process_one_github_publication and GitHubPublisher.publish.             *)
Goes(w, from, to) ==
  worker[w].at = from /\ worker' = [worker EXCEPT ![w].at = to]

Claim(w) ==
  /\ settings[w].token
  /\ publication = "authorized"
  /\ Goes(w, "free", "claimed")
  /\ publication' = "publishing"
  /\ UNCHANGED <<version, sess, github, died, settings>>

(* What the authorization rests on, looked at again after the claim.       *)
PolicyHolds(w) ==
  version.status = "published" /\ version.signed /\ settings[w].bound

CheckPolicy(w) ==
  /\ PolicyHolds(w)
  /\ Goes(w, "claimed", "checked")
  /\ UNCHANGED <<version, publication, sess, github, died, settings>>

(* Mutant: a status that the table's CHECK constraint does not list.       *)
RefusePolicy_Unlisted(w) ==
  /\ ~PolicyHolds(w)
  /\ Goes(w, "claimed", "free")
  /\ publication' = "refused"
  /\ UNCHANGED <<version, sess, github, died, settings>>

RefusePolicy(w) ==
  /\ ~PolicyHolds(w)
  /\ Goes(w, "claimed", "free")
  /\ publication' = "failed_policy"
  /\ UNCHANGED <<version, sess, github, died, settings>>

CheckProtection(w) ==
  /\ protected
  /\ Goes(w, "checked", "guarded")
  /\ UNCHANGED <<version, publication, sess, github, died, settings>>

(* Mutant: the tag is not looked up, GitHub would refuse it anyhow.        *)
CheckVacant_Trusting(w) ==
  /\ Goes(w, "guarded", "vacant")
  /\ UNCHANGED <<version, publication, sess, github, died, settings>>

CheckVacant(w) ==
  /\ release = Nothing
  /\ Goes(w, "guarded", "vacant")
  /\ UNCHANGED <<version, publication, sess, github, died, settings>>

CreateDraft(w) ==
  /\ worker[w].at = "vacant"
  /\ worker' = [worker EXCEPT ![w] = [at |-> "drafted", assets |-> "none"]]
  /\ UNCHANGED <<version, publication, sess, github, died, settings>>

(* An upload that went wrong, or a draft somebody touches, has other       *)
(* assets than those intended.                                             *)
UploadAssets(w, assets) ==
  /\ worker[w].at = "drafted"
  /\ assets \in {"intended", "other"}
  /\ worker' = [worker EXCEPT ![w] = [at |-> "uploaded", assets |-> assets]]
  /\ UNCHANGED <<version, publication, sess, github, died, settings>>

VerifyDraft(w) ==
  /\ worker[w].at = "uploaded" /\ worker[w].assets = "intended"
  /\ Goes(w, "uploaded", "verified")
  /\ UNCHANGED <<version, publication, sess, github, died, settings>>

(* GitHub: a draft becomes the public release of its tag, once; it is      *)
(* immutable if the repository has that enabled at this moment.            *)
MakePublic(w) ==
  /\ worker[w].at = "verified"
  /\ release = Nothing
  /\ release' = [assets |-> worker[w].assets, immutable |-> protected]
  /\ UNCHANGED <<version, publication, sess, protected, died, settings>>

PublishRelease(w) ==
  /\ MakePublic(w)
  /\ worker' = [worker EXCEPT ![w].at = "public"]

PublishUnanswered(w) ==
  /\ MakePublic(w)
  /\ worker' = [worker EXCEPT ![w] = [at |-> "failed"]]

(* Mutant: the inventory taken of the draft is good enough.                *)
VerifyRelease_ByDraft(w) ==
  /\ worker[w].at = "public"
  /\ release.immutable
  /\ worker' = [worker EXCEPT ![w] = [at |-> "done"]]
  /\ UNCHANGED <<version, publication, sess, github, died, settings>>

VerifyRelease(w) ==
  /\ worker[w].at = "public"
  /\ release.immutable /\ release.assets = "intended"
  /\ worker' = [worker EXCEPT ![w] = [at |-> "done"]]
  /\ UNCHANGED <<version, publication, sess, github, died, settings>>

(* Whatever raises in the publisher: a check that does not hold, a call    *)
(* that fails.                                                             *)
Raises(w) ==
  /\ worker[w].at \in (Steps \cup Drafted) \ {"claimed", "failed", "done"}
  /\ worker' = [worker EXCEPT ![w] = [at |-> "failed"]]
  /\ UNCHANGED <<version, publication, sess, github, died, settings>>

(* Mutant: a failure is logged and that is all.                            *)
Settle_Silently(w) ==
  /\ worker[w].at \in {"done", "failed"}
  /\ publication' = IF worker[w].at = "done" THEN "published" ELSE publication
  /\ worker' = [worker EXCEPT ![w] = Free]
  /\ UNCHANGED <<version, sess, github, died, settings>>

(* The outcome is written over whatever the status has become: it differs  *)
(* from the loaded one.                                                    *)
Settle(w) ==
  /\ worker[w].at \in {"done", "failed"}
  /\ publication' = IF worker[w].at = "done" THEN "published" ELSE "failed_manual_review"
  /\ worker' = [worker EXCEPT ![w] = Free]
  /\ UNCHANGED <<version, sess, github, died, settings>>

(* A kill, an object store that fails, a commit that fails.  The container *)
(* starts again with the environment it was created with.                  *)
WorkerDies(w) ==
  /\ worker[w] # Free
  /\ worker' = [worker EXCEPT ![w] = Free]
  /\ died' = TRUE
  /\ UNCHANGED <<version, publication, sess, settings, github>>

(* The operator changes .env and recreates the worker: sets a token for    *)
(* one publication, and clears it afterwards.                              *)
Recreate(w, new) ==
  /\ settings' = [settings EXCEPT ![w] = new]
  /\ worker' = [worker EXCEPT ![w] = Free]
  /\ died' = (died \/ worker[w] # Free)
  /\ UNCHANGED <<version, publication, sess, github>>

WorkerStep(w) ==
  \/ Claim(w) \/ CheckPolicy(w) \/ RefusePolicy(w)
  \/ CheckProtection(w) \/ CheckVacant(w) \/ CreateDraft(w)
  \/ \E a \in Assets : UploadAssets(w, a)
  \/ VerifyDraft(w) \/ PublishRelease(w) \/ PublishUnanswered(w)
  \/ VerifyRelease(w) \/ Raises(w) \/ Settle(w)

-----------------------------------------------------------------------------
(* Other people with write access to the repository.                       *)
ChangeSetting ==
  /\ protected' = ~protected
  /\ UNCHANGED <<version, publication, sess, worker, release, died, settings>>

ReplaceDraftAsset(w) ==
  /\ worker[w].at \in {"uploaded", "verified"}
  /\ worker' = [worker EXCEPT ![w].assets = "other"]
  /\ UNCHANGED <<version, publication, sess, github, died, settings>>

ReplaceReleaseAsset ==
  /\ release # Nothing /\ ~release.immutable
  /\ release' = [release EXCEPT !.assets = "other"]
  /\ UNCHANGED <<version, publication, sess, worker, protected, died, settings>>

Next ==
  \/ \E s \in Sessions : AuthorizeLoad(s) \/ AuthorizeCommit(s) \/ Rollback(s)
  \/ \E w \in Workers : WorkerStep(w) \/ WorkerDies(w) \/ ReplaceDraftAsset(w)
                        \/ \E new \in Settings : Recreate(w, new)
  \/ Deprecate \/ ChangeSetting \/ ReplaceReleaseAsset

Spec == Init /\ [][Next]_vars

(* The worker loops; nobody else has to do anything, and nobody has to set *)
(* a token.                                                                *)
Fairness == \A w \in Workers : WF_vars(WorkerStep(w))
FairSpec == Spec /\ Fairness

-----------------------------------------------------------------------------
(* The values each variable may take.                                      *)
TypeOK ==
  /\ version \in [status : {"published", "deprecated"}, signed : BOOLEAN]
  /\ publication \in Statuses \cup {Nothing}
  /\ sess \in [Sessions -> {Idle} \cup
                 [at : {"authorize"}, seen : (Statuses \ Active) \cup {Nothing}]]
  /\ worker \in [Workers -> {Free} \cup [at : Steps] \cup [at : Drafted, assets : Assets]]
  /\ settings \in [Workers -> Settings]
  /\ protected \in BOOLEAN
  /\ release \in Release \cup {Nothing}
  /\ died \in BOOLEAN

(* When the registry says published, the public release is there, carries  *)
(* exactly the intended assets and can no longer be changed, even if the   *)
(* draft was touched between its inventory and its publication.            *)
PublishedIsMirrored ==
  publication = "published" =>
    /\ release # Nothing
    /\ release.immutable /\ release.assets = "intended"

(* A release that is public is never exported again: a second              *)
(* authorization, for instance after a lost answer, ends before a draft.   *)
ExportedOnce ==
  [][\A w \in Workers : worker[w].at = "vacant" /\ worker'[w].at = "drafted" =>
       release = Nothing]_vars

(* A publication that is claimed comes to an outcome unless the worker died *)
(* on it.  One that is only authorized waits, for ever if need be, until   *)
(* some worker has a token, and comes to an outcome if that worker keeps   *)
(* its token.                                                              *)
Settled == publication \in {"published", "failed_policy", "failed_manual_review"}
Armed == \E w \in Workers : settings[w].token
MirrorSettles ==
  /\ publication = "publishing" ~> Settled \/ died
  /\ publication = "authorized" /\ Armed ~> Settled \/ died \/ ~Armed
=============================================================================
