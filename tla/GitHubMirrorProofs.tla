--------------------------- MODULE GitHubMirrorProofs ---------------------------
(***************************************************************************)
(* What the registry says of an export is what GitHub has, for every       *)
(* number of authorization requests and of workers; and no release is      *)
(* exported twice, by one worker.                                          *)
(***************************************************************************)
EXTENDS GitHubMirror, TLAPS

WorkerState == {Free} \cup [at : Steps] \cup [at : Drafted, assets : Assets]

(* What a worker has seen of GitHub and can rely on: a release stays once  *)
(* it is public, and one that is immutable stays as it is.                 *)
Mirrored == release # Nothing /\ release.immutable /\ release.assets = "intended"
Seen(w) ==
  /\ worker[w].at = "public" => release # Nothing
  /\ worker[w].at = "done" => Mirrored

(* The inductive invariant.                                                *)
IInv ==
  /\ TypeOK
  /\ publication = "published" => Mirrored
  /\ \A w \in Workers : Seen(w)

-----------------------------------------------------------------------------
(* A session that authorizes or is done has its type.                      *)
LEMMA SessionsTyped ==
  ASSUME TypeOK, NEW s \in Sessions,
         \/ sess' = [sess EXCEPT ![s] = Idle]
         \/ /\ publication \notin Active
            /\ sess' = [sess EXCEPT ![s] = [at |-> "authorize", seen |-> publication]]
  PROVE  sess' \in [Sessions -> {Idle} \cup
                     [at : {"authorize"}, seen : (Statuses \ Active) \cup {Nothing}]]
  BY DEF TypeOK

(* A step of one worker that leaves alone what the others rely on.         *)
LEMMA WorkerGoes ==
  ASSUME IInv, NEW w \in Workers, NEW c \in WorkerState,
         worker' = [worker EXCEPT ![w] = c],
         UNCHANGED release,
         c.at = "public" => release # Nothing,
         c.at = "done" => Mirrored
  PROVE  /\ worker' \in [Workers -> WorkerState]
         /\ \A v \in Workers : Seen(v)'
  BY DEF IInv, TypeOK, WorkerState, Seen, Mirrored

(* What a worker holds, written as one set.                                *)
LEMMA WorkerTyped ==
  ASSUME TypeOK
  PROVE  worker \in [Workers -> WorkerState]
  BY DEF TypeOK, WorkerState

(* A worker that goes from one step to another before the draft is there.  *)
LEMMA GoesTyped ==
  ASSUME TypeOK, NEW w \in Workers, NEW from, NEW to, Goes(w, from, to),
         \/ from \in Steps \cup {"free"} /\ to \in Steps \cup {"free"}
         \/ from \in Drafted /\ to \in Drafted
  PROVE  /\ [worker[w] EXCEPT !.at = to] \in WorkerState
         /\ worker' = [worker EXCEPT ![w] = [worker[w] EXCEPT !.at = to]]
         /\ [worker[w] EXCEPT !.at = to].at = to
  <1>1. worker[w] \in WorkerState /\ worker[w].at = from
    BY WorkerTyped DEF WorkerState, Goes
  <1>2. CASE from \in Steps \cup {"free"} /\ to \in Steps \cup {"free"}
    <2>1. worker[w] = [at |-> from]
      BY <1>1, <1>2 DEF WorkerState, Free, Steps, Drafted
    <2> QED BY <1>2, <2>1 DEF WorkerState, Free, Goes
  <1>3. CASE from \in Drafted /\ to \in Drafted
    <2>1. worker[w] \in [at : Drafted, assets : Assets]
      BY <1>1, <1>3 DEF WorkerState, Free, Steps, Drafted
    <2> QED BY <1>3, <2>1 DEF WorkerState, Goes
  <1> QED BY <1>2, <1>3

(* The worker's steps: each call keeps what it has seen so far.            *)
LEMMA WorkerStepKeeps ==
  ASSUME IInv, NEW w \in Workers, WorkerStep(w) \/ WorkerDies(w) \/ ReplaceDraftAsset(w)
  PROVE  IInv'
  <1>0. TypeOK /\ worker[w] \in WorkerState
    BY WorkerTyped DEF IInv
  <1>1. ASSUME NEW c \in WorkerState, worker' = [worker EXCEPT ![w] = c],
               c.at = "public" => release # Nothing,
               c.at = "done" => Mirrored,
               UNCHANGED <<version, sess, settings, github>>, died' \in BOOLEAN,
               publication' \in Statuses \cup {Nothing},
               publication' = "published" => Mirrored
        PROVE  IInv'
    <2>1. worker' \in [Workers -> WorkerState] /\ \A v \in Workers : Seen(v)'
      BY <1>1, WorkerGoes DEF github
    <2>2. TypeOK'
      BY <1>0, <1>1, <2>1 DEF TypeOK, WorkerState, github
    <2> QED BY <1>1, <2>1, <2>2 DEF IInv, Mirrored, github
  <1>2. ASSUME NEW from, NEW to, Goes(w, from, to), to \notin {"public", "done"},
               \/ from \in Steps \cup {"free"} /\ to \in Steps \cup {"free"}
               \/ from \in Drafted /\ to \in Drafted,
               UNCHANGED <<version, sess, settings, github>>, died' \in BOOLEAN,
               publication' \in Statuses \cup {Nothing},
               publication' = "published" => Mirrored
        PROVE  IInv'
    BY <1>0, <1>1, <1>2, GoesTyped
  <1>3. died \in BOOLEAN /\ publication \in Statuses \cup {Nothing}
    BY <1>0 DEF TypeOK
  <1>4. publication = "published" => Mirrored
    BY DEF IInv
  <1>5. CASE Claim(w)
    <2>1. Goes(w, "free", "claimed") /\ publication' = "publishing"
      BY <1>5 DEF Claim
    <2> QED BY <1>2, <1>3, <1>5, <2>1 DEF Claim, Steps, Statuses
  <1>6. CASE CheckPolicy(w)
    BY <1>2, <1>3, <1>4, <1>6 DEF CheckPolicy, Steps
  <1>7. CASE RefusePolicy(w)
    <2>1. Goes(w, "claimed", "free") /\ publication' = "failed_policy"
      BY <1>7 DEF RefusePolicy
    <2> QED BY <1>2, <1>3, <1>7, <2>1 DEF RefusePolicy, Steps, Statuses
  <1>8. CASE CheckProtection(w)
    BY <1>2, <1>3, <1>4, <1>8 DEF CheckProtection, Steps
  <1>9. CASE CheckVacant(w)
    BY <1>2, <1>3, <1>4, <1>9 DEF CheckVacant, Steps
  <1>10. CASE CreateDraft(w)
    <2>1. [at |-> "drafted", assets |-> "none"] \in WorkerState
      BY DEF WorkerState, Drafted, Assets
    <2> QED BY <1>1, <1>3, <1>4, <1>10, <2>1 DEF CreateDraft
  <1>11. ASSUME NEW a \in Assets, UploadAssets(w, a)
         PROVE  IInv'
    <2>1. [at |-> "uploaded", assets |-> a] \in WorkerState
      BY DEF WorkerState, Drafted
    <2> QED BY <1>1, <1>3, <1>4, <1>11, <2>1 DEF UploadAssets
  <1>12. CASE VerifyDraft(w)
    BY <1>2, <1>3, <1>4, <1>12 DEF VerifyDraft, Drafted
  <1>13. ASSUME MakePublic(w),
                \/ worker' = [worker EXCEPT ![w].at = "public"]
                \/ worker' = [worker EXCEPT ![w] = [at |-> "failed"]]
         PROVE  IInv'
    <2>1. worker[w] \in [at : Drafted, assets : Assets] /\ worker[w].at = "verified"
      BY <1>0, <1>13 DEF MakePublic, WorkerState, Free, Steps, Drafted
    <2>2. release = Nothing /\ release' = [assets |-> worker[w].assets, immutable |-> protected]
      BY <1>13 DEF MakePublic
    <2>3. release' \in Release /\ release' # Nothing
      BY <1>0, <2>1, <2>2, NothingAssumption DEF TypeOK, Release
    <2>4. worker' \in [Workers -> WorkerState]
      <3>1. [worker[w] EXCEPT !.at = "public"] \in WorkerState /\ [at |-> "failed"] \in WorkerState
        BY <2>1 DEF WorkerState, Drafted, Steps
      <3>2. \/ worker' = [worker EXCEPT ![w] = [worker[w] EXCEPT !.at = "public"]]
            \/ worker' = [worker EXCEPT ![w] = [at |-> "failed"]]
        BY <1>13
      <3> QED BY <1>0, <3>1, <3>2, WorkerTyped
    <2>5. \A v \in Workers : worker'[v].at # "done"
      <3>1. worker'[w].at \in {"public", "failed"}
        BY <1>0, <1>13, <2>1, WorkerTyped
      <3>2. \A v \in Workers \ {w} : worker'[v] = worker[v]
        BY <1>0, <1>13, WorkerTyped
      <3>3. \A v \in Workers : worker[v].at # "done"
        BY <2>2 DEF IInv, Seen, Mirrored
      <3> QED BY <3>1, <3>2, <3>3
    <2>6. publication' = publication /\ publication # "published"
      BY <1>4, <1>13, <2>2 DEF MakePublic, Mirrored
    <2>7. TypeOK'
      BY <1>0, <1>13, <2>3, <2>4 DEF TypeOK, WorkerState, MakePublic
    <2> QED BY <2>3, <2>5, <2>6, <2>7 DEF IInv, Seen
  <1>14. CASE VerifyRelease(w)
    <2>1. [at |-> "done"] \in WorkerState /\ Mirrored
      BY <1>14 DEF VerifyRelease, WorkerState, Steps, Mirrored, IInv, Seen
    <2> QED BY <1>1, <1>3, <1>4, <1>14, <2>1 DEF VerifyRelease
  <1>15. CASE Raises(w)
    <2>1. [at |-> "failed"] \in WorkerState
      BY DEF WorkerState, Steps
    <2> QED BY <1>1, <1>3, <1>4, <1>15, <2>1 DEF Raises
  <1>16. CASE Settle(w)
    <2>1. Free \in WorkerState /\ Free.at = "free"
      BY DEF WorkerState, Free
    <2>2. /\ publication' \in Statuses
          /\ publication' = "published" => Mirrored
      BY <1>16 DEF Settle, Statuses, IInv, Seen
    <2> QED BY <1>1, <1>3, <1>16, <2>1, <2>2 DEF Settle
  <1>17. CASE WorkerDies(w)
    <2>1. Free \in WorkerState /\ Free.at = "free"
      BY DEF WorkerState, Free
    <2> QED BY <1>1, <1>3, <1>4, <1>17, <2>1 DEF WorkerDies
  <1>18. CASE ReplaceDraftAsset(w)
    <2>1. worker[w] \in [at : Drafted, assets : Assets] /\ worker[w].at \in {"uploaded", "verified"}
      BY <1>0, <1>18 DEF ReplaceDraftAsset, WorkerState, Free, Steps, Drafted
    <2>2. [worker[w] EXCEPT !.assets = "other"] \in WorkerState
      BY <2>1 DEF WorkerState, Assets
    <2>3. worker' = [worker EXCEPT ![w] = [worker[w] EXCEPT !.assets = "other"]]
      BY <1>18 DEF ReplaceDraftAsset
    <2>4. [worker[w] EXCEPT !.assets = "other"].at \notin {"public", "done"}
      BY <2>1
    <2> QED BY <1>1, <1>3, <1>4, <1>18, <2>2, <2>3, <2>4 DEF ReplaceDraftAsset
  <1> QED BY <1>5, <1>6, <1>7, <1>8, <1>9, <1>10, <1>11, <1>12, <1>13, <1>14, <1>15, <1>16,
             <1>17, <1>18 DEF WorkerStep, PublishRelease, PublishUnanswered

(* Every step keeps the invariant, those of other people at GitHub included. *)
LEMMA StepKeeps ==
  ASSUME IInv, [Next]_vars
  PROVE  IInv'
  <1>0. TypeOK
    BY DEF IInv
  <1>1. ASSUME NEW s \in Sessions, AuthorizeLoad(s) \/ AuthorizeCommit(s) \/ Rollback(s)
        PROVE  IInv'
    <2>1. sess' \in [Sessions -> {Idle} \cup
                      [at : {"authorize"}, seen : (Statuses \ Active) \cup {Nothing}]]
      BY <1>0, <1>1, SessionsTyped DEF AuthorizeLoad, AuthorizeCommit, Rollback
    <2>2. /\ publication' \in {publication, "authorized"}
          /\ UNCHANGED <<version, worker, protected, release, died, settings>>
      BY <1>1 DEF AuthorizeLoad, AuthorizeCommit, Rollback, github
    <2>3. TypeOK'
      BY <1>0, <2>1, <2>2 DEF TypeOK, Statuses
    <2> QED BY <2>2, <2>3 DEF IInv, Seen, Mirrored
  <1>2. ASSUME NEW w \in Workers, WorkerStep(w) \/ WorkerDies(w) \/ ReplaceDraftAsset(w)
        PROVE  IInv'
    BY <1>2, WorkerStepKeeps
  <1>3. CASE Deprecate
    <2>1. version' \in [status : {"published", "deprecated"}, signed : BOOLEAN]
      BY <1>0, <1>3 DEF Deprecate, TypeOK
    <2> QED BY <1>0, <1>3, <2>1 DEF Deprecate, github, IInv, TypeOK, Seen, Mirrored
  <1>4. CASE ChangeSetting
    BY <1>0, <1>4 DEF ChangeSetting, IInv, TypeOK, Seen, Mirrored
  <1>5. CASE ReplaceReleaseAsset
    <2>1. release \in Release /\ release' = [release EXCEPT !.assets = "other"] /\ ~release.immutable
      BY <1>0, <1>5 DEF ReplaceReleaseAsset, TypeOK
    <2>2. release' \in Release /\ release' # Nothing
      BY <2>1, NothingAssumption DEF Release, Assets
    <2>3. TypeOK'
      BY <1>0, <1>5, <2>2 DEF ReplaceReleaseAsset, TypeOK
    <2> QED BY <1>5, <2>1, <2>2, <2>3 DEF ReplaceReleaseAsset, IInv, Seen, Mirrored
  <1>6. ASSUME NEW w \in Workers, NEW new \in Settings, Recreate(w, new)
        PROVE  IInv'
    <2>1. Free \in WorkerState /\ Free.at = "free"
      BY DEF WorkerState, Free
    <2>2. /\ worker' = [worker EXCEPT ![w] = Free]
          /\ settings' = [settings EXCEPT ![w] = new]
          /\ died' = (died \/ worker[w] # Free)
          /\ UNCHANGED <<version, publication, sess, protected, release>>
      BY <1>6 DEF Recreate, github
    <2>3. worker' \in [Workers -> WorkerState] /\ \A v \in Workers : Seen(v)'
      BY <2>1, <2>2, WorkerGoes
    <2>4. TypeOK'
      BY <1>0, <2>2, <2>3 DEF TypeOK, WorkerState
    <2> QED BY <2>2, <2>3, <2>4 DEF IInv, Mirrored
  <1>7. CASE UNCHANGED vars
    BY <1>0, <1>7 DEF vars, IInv, TypeOK, Seen, Mirrored
  <1> QED BY <1>1, <1>2, <1>3, <1>4, <1>5, <1>6, <1>7 DEF Next

(* Every variable has its type, and what a worker has seen at GitHub is    *)
(* still so.                                                               *)
THEOREM Invariance == Spec => []IInv
  <1>1. Init => IInv
    <2> SUFFICES ASSUME Init PROVE IInv
      OBVIOUS
    <2>1. publication # "published"
      BY NothingAssumption DEF Init, Statuses
    <2>2. TypeOK
      BY DEF Init, TypeOK
    <2>3. \A w \in Workers : Seen(w)
      BY DEF Init, Seen, Free
    <2> QED BY <2>1, <2>2, <2>3 DEF IInv
  <1>2. IInv /\ [Next]_vars => IInv'
    BY StepKeeps
  <1> QED BY <1>1, <1>2, PTL DEF Spec

(* Every variable has its type, for any number of workers.                 *)
THEOREM TypeCorrect == Spec => []TypeOK
  <1>1. IInv => TypeOK
    BY DEF IInv
  <1> QED BY <1>1, Invariance, PTL

(* When the registry says published, the public release carries the        *)
(* intended assets and is immutable, however many workers export at once   *)
(* and whoever else changes drafts, releases and settings.                 *)
THEOREM PublishedMirrors == Spec => []PublishedIsMirrored
  <1>1. IInv => PublishedIsMirrored
    BY DEF IInv, PublishedIsMirrored, Mirrored
  <1> QED BY <1>1, Invariance, PTL

-----------------------------------------------------------------------------
(* The worker service runs one process (compose.yaml): what it has looked  *)
(* up at GitHub is then still so when it creates the draft.                *)
OneWorker == \A v, w \in Workers : v = w
StillVacant == \A w \in Workers : worker[w].at = "vacant" => release = Nothing

(* Only the one worker makes a release, and it does so after its draft.    *)
LEMMA VacantKeeps ==
  ASSUME OneWorker, TypeOK, StillVacant, [Next]_vars
  PROVE  StillVacant'
  <1>1. ASSUME NEW w \in Workers, WorkerStep(w) \/ WorkerDies(w) \/ ReplaceDraftAsset(w)
        PROVE  StillVacant'
    <2>0. Workers = {w} /\ DOMAIN worker = Workers
      BY DEF OneWorker, TypeOK
    <2>1. CASE release' = release
      <3>1. worker[w] \in WorkerState
        BY WorkerTyped
      <3>2. ASSUME worker'[w].at = "vacant"
            PROVE  worker[w].at = "vacant" \/ release = Nothing
        <4>1. ASSUME NEW from, NEW to, Goes(w, from, to)
              PROVE  worker'[w].at = to
          <5>1. "at" \in DOMAIN worker[w]
            BY <3>1 DEF WorkerState, Free
          <5> QED BY <2>0, <4>1, <5>1 DEF Goes
        <4>2. CASE CheckVacant(w)
          BY <4>2 DEF CheckVacant
        <4>3. CASE \/ Claim(w) \/ CheckPolicy(w) \/ RefusePolicy(w) \/ CheckProtection(w)
                   \/ VerifyDraft(w)
          BY <3>2, <4>1, <4>3 DEF Claim, CheckPolicy, RefusePolicy, CheckProtection, VerifyDraft
        <4>4. CASE \/ CreateDraft(w) \/ (\E a \in Assets : UploadAssets(w, a))
                   \/ VerifyRelease(w) \/ Raises(w) \/ Settle(w) \/ WorkerDies(w)
          BY <2>0, <3>2, <4>4 DEF CreateDraft, UploadAssets, VerifyRelease, Raises, Settle,
             WorkerDies, Free
        <4>5. CASE PublishRelease(w) \/ PublishUnanswered(w)
          BY <4>5 DEF PublishRelease, PublishUnanswered, MakePublic
        <4>6. CASE ReplaceDraftAsset(w)
          <5>1. worker[w] \in [at : Drafted, assets : Assets]
            BY <3>1, <4>6 DEF ReplaceDraftAsset, WorkerState, Free, Steps
          <5>2. worker'[w].at = worker[w].at
            BY <2>0, <4>6, <5>1 DEF ReplaceDraftAsset
          <5> QED BY <3>2, <5>2
        <4> QED BY <1>1, <4>2, <4>3, <4>4, <4>5, <4>6 DEF WorkerStep
      <3> QED BY <2>0, <2>1, <3>2 DEF StillVacant
    <2>2. CASE release' # release
      <3>1. PublishRelease(w) \/ PublishUnanswered(w)
        BY <1>1, <2>2 DEF WorkerStep, WorkerDies, ReplaceDraftAsset, Claim, CheckPolicy,
           RefusePolicy, CheckProtection, CheckVacant, CreateDraft, UploadAssets,
           VerifyDraft, VerifyRelease, Raises, Settle, github
      <3>2. worker'[w].at \in {"public", "failed"}
        BY <2>0, <3>1 DEF PublishRelease, PublishUnanswered, MakePublic, TypeOK, Free, Steps
      <3> QED BY <2>0, <3>2 DEF StillVacant
    <2> QED BY <2>1, <2>2
  <1>2. CASE ReplaceReleaseAsset
    BY <1>2 DEF ReplaceReleaseAsset, StillVacant
  <1>3. ASSUME NEW w \in Workers, NEW new \in Settings, Recreate(w, new)
        PROVE  StillVacant'
    <2>1. Workers = {w} /\ DOMAIN worker = Workers
      BY DEF OneWorker, TypeOK
    <2> QED BY <1>3, <2>1 DEF Recreate, StillVacant, Free
  <1>4. CASE UNCHANGED <<worker, release>>
    BY <1>4 DEF StillVacant
  <1> QED BY <1>1, <1>2, <1>3, <1>4 DEF Next, AuthorizeLoad, AuthorizeCommit, Rollback, Deprecate,
             ChangeSetting, github, vars

(* One worker never exports a release that is public: not after a second   *)
(* authorization, not after a publication whose answer was lost.           *)
THEOREM OneWorkerExportsOnce ==
  ASSUME OneWorker
  PROVE  Spec => ExportedOnce
  <1>1. Init => StillVacant
    BY DEF Init, StillVacant, Free
  <1>2. TypeOK /\ StillVacant /\ [Next]_vars => StillVacant'
    BY VacantKeeps
  <1>3. StillVacant => \A w \in Workers : worker[w].at = "vacant" /\ worker'[w].at = "drafted" =>
          release = Nothing
    BY DEF StillVacant
  <1> QED BY <1>1, <1>2, <1>3, TypeCorrect, PTL DEF Spec, ExportedOnce
=============================================================================
