-------------------------------- MODULE Labels --------------------------------
(***************************************************************************)
(* The labels of one skill (stable, beta, ...) and the three handlers that *)
(* touch them: set_label moves a label under If-Match, publish_version may *)
(* move one to the version it publishes, deprecate_version removes the     *)
(* labels of the version it retires.                                       *)
(*                                                                         *)
(* Two mechanisms are meant to order them: move_label locks the row of the *)
(* skill before it looks at the label, and a label carries an etag.  The   *)
(* locked SELECT, however, hands out the object that the session loaded    *)
(* earlier when the label is in its identity map, attributes and all: the  *)
(* SELECT does not ask to populate existing objects.  What a request has   *)
(* loaded is therefore part of the state.                                  *)
(*                                                                         *)
(* The versions here are past their review; what leads there and what the  *)
(* guard does with the rest of the row is the business of VersionLifecycle.*)
(***************************************************************************)
EXTENDS Naturals, Sequences, SequencesExt

CONSTANTS
  Versions,   \* the versions of the skill that were approved
  Names,      \* label names
  Sessions,   \* API requests in progress at one time
  NoLabel,    \* no row of that name in the table labels
  NoName,     \* a publication without a label
  NoHeader,   \* a request without If-Match
  Star,       \* If-Match: *
  MaxMoves    \* bound: label rows written

ASSUME NoNameAssumption == NoName \notin Names
ASSUME NoLabelAssumption == NoLabel \notin [id : Nat, version : Versions, etag : Nat]
ASSUME HeaderAssumption == NoHeader # Star /\ NoHeader \notin Nat /\ Star \notin Nat
ASSUME MaxMovesAssumption == MaxMoves \in Nat

VARIABLES
  status,   \* skill_versions.status
  labels,   \* the table labels, by name
  minted,   \* etags drawn so far; a row's id is the etag it was created with
  feed,     \* registry_changes
  sess      \* what each request has loaded

vars == <<status, labels, minted, feed, sess>>

Label == [id : Nat, version : Versions, etag : Nat]
Fetchable == Label \cup {NoLabel}
Headers == 1..MaxMoves \cup {NoHeader, Star}

Event == [type : {"version.published", "version.deprecated"}, version : Versions]
         \cup [type : {"label.moved", "label.removed"}, version : Versions, label : Names]

(* flushed: publish_version has sent its UPDATE of the version, which      *)
(* locks that row until the request ends, and has looked for the label.    *)
Idle == [at |-> "idle"]
Request ==
  [at : {"set_label"}, version : Versions, label : Names, header : Headers, seen : Fetchable]
  \cup [at : {"publish"}, version : Versions, label : Names \cup {NoName}]
  \cup [at : {"flushed"}, version : Versions, label : Names, seen : Fetchable]
  \cup [at : {"deprecate"}, version : Versions, doomed : SUBSET (Names \X Label)]

Init ==
  /\ status = [v \in Versions |-> "approved"]
  /\ labels = [n \in Names |-> NoLabel]
  /\ minted = 0
  /\ feed = <<>>
  /\ sess = [s \in Sessions |-> Idle]

Begin(s, request) == sess[s] = Idle /\ sess' = [sess EXCEPT ![s] = request]
Finished(s) == sess' = [sess EXCEPT ![s] = Idle]

-----------------------------------------------------------------------------
(* move_label.  It holds the lock on the skill from its first SELECT to    *)
(* the commit, so that two of them never overlap.                          *)

(* Mutants: the labels that came with the skill are used without a second  *)
(* look; the identity map is asked by name, not by primary key.            *)
Fetched_Preloaded(current, seen) == seen
Fetched_ByName(current, seen) ==
  IF current = NoLabel THEN NoLabel ELSE IF seen # NoLabel THEN seen ELSE current

(* Whether there is a row is known afresh; if the session has that row     *)
(* already, its attributes are those it had then.                          *)
Fetched(current, seen) ==
  IF current # NoLabel /\ seen # NoLabel /\ current.id = seen.id THEN seen ELSE current

(* The UPDATE of a label leaves out version_id if the target is what the   *)
(* session believes to be there.                                           *)
Moved(current, fetched, v, etag) ==
  [current EXCEPT !.etag = etag,
                  !.version = IF v = fetched.version THEN current.version ELSE v]

(* Mutant: the etag is a revision number of the row, not a random token.   *)
MoveLabel_Counts(n, v, seen, header) ==
  LET current == labels[n]
      fetched == Fetched(current, seen)
  IN /\ IF fetched = NoLabel
        THEN /\ header \in {NoHeader, Star}
             /\ labels' = [labels EXCEPT ![n] = [id |-> 1, version |-> v, etag |-> 1]]
        ELSE /\ header = fetched.etag
             /\ labels' = [labels EXCEPT ![n] = Moved(current, fetched, v, fetched.etag + 1)]
     /\ UNCHANGED minted

MoveLabel(n, v, seen, header) ==
  LET current == labels[n]
      fetched == Fetched(current, seen)
      etag    == minted + 1
  IN /\ minted < MaxMoves
     /\ IF fetched = NoLabel
        THEN /\ header \in {NoHeader, Star}
             /\ labels' = [labels EXCEPT ![n] = [id |-> etag, version |-> v, etag |-> etag]]
        ELSE /\ header = fetched.etag
             /\ labels' = [labels EXCEPT ![n] = Moved(current, fetched, v, etag)]
     /\ minted' = etag

LabelEvent(type, n, v) == [type |-> type, version |-> v, label |-> n]
VersionEvent(type, v)  == [type |-> type, version |-> v]

-----------------------------------------------------------------------------
(* The status UPDATE waits while another publication has the row locked.   *)
RowLocked(v, s) ==
  \E t \in Sessions \ {s} : sess[t].at = "flushed" /\ sess[t].version = v

(* Mutant: any version can be a target.                                    *)
SetLabelLoad_AnyStatus(s, n, v, header) ==
  /\ Begin(s, [at |-> "set_label", version |-> v, label |-> n,
               header |-> header, seen |-> labels[n]])
  /\ UNCHANGED <<status, labels, minted, feed>>

(* set_label: the skill comes with its versions and labels, and the target *)
(* is judged by the status loaded with it.                                 *)
SetLabelLoad(s, n, v, header) ==
  /\ status[v] = "published"
  /\ header \in 1..minted \cup {NoHeader, Star}
  /\ Begin(s, [at |-> "set_label", version |-> v, label |-> n,
               header |-> header, seen |-> labels[n]])
  /\ UNCHANGED <<status, labels, minted, feed>>

SetLabelCommit(s) ==
  LET r == sess[s] IN
  /\ r.at = "set_label"
  /\ MoveLabel(r.label, r.version, r.seen, r.header)
  /\ feed' = Append(feed, LabelEvent("label.moved", r.label, r.version))
  /\ Finished(s)
  /\ UNCHANGED status

(* The approval and everything else publish_version verifies is part of    *)
(* VersionLifecycle.                                                       *)
PublishLoad(s, v, n) ==
  /\ status[v] = "approved"
  /\ Begin(s, [at |-> "publish", version |-> v, label |-> n])
  /\ UNCHANGED <<status, labels, minted, feed>>

(* The trigger takes approved to published and published to itself.        *)
MayPublish(s) ==
  /\ sess[s].at = "publish"
  /\ ~RowLocked(sess[s].version, s)
  /\ status[sess[s].version] \in {"approved", "published"}

PublishUnlabelled(s) ==
  /\ MayPublish(s)
  /\ sess[s].label = NoName
  /\ status' = [status EXCEPT ![sess[s].version] = "published"]
  /\ feed' = Append(feed, VersionEvent("version.published", sess[s].version))
  /\ Finished(s)
  /\ UNCHANGED <<labels, minted>>

PublishFlush(s) ==
  LET n == sess[s].label IN
  /\ MayPublish(s)
  /\ n # NoName
  /\ sess' = [sess EXCEPT ![s] = [at |-> "flushed", version |-> sess[s].version,
                                  label |-> n, seen |-> labels[n]]]
  /\ UNCHANGED <<status, labels, minted, feed>>

(* The etag it presents is the one it read itself a moment ago.            *)
OwnHeader(seen) == IF seen = NoLabel THEN NoHeader ELSE seen.etag

(* Mutant: the label's event is flushed with the label, before the         *)
(* version's own.                                                          *)
PublishLabelled_LabelFirst(s) ==
  LET r == sess[s] IN
  /\ r.at = "flushed"
  /\ MoveLabel(r.label, r.version, r.seen, OwnHeader(r.seen))
  /\ status' = [status EXCEPT ![r.version] = "published"]
  /\ feed' = feed \o <<LabelEvent("label.moved", r.label, r.version),
                       VersionEvent("version.published", r.version)>>
  /\ Finished(s)

PublishLabelled(s) ==
  LET r == sess[s] IN
  /\ r.at = "flushed"
  /\ MoveLabel(r.label, r.version, r.seen, OwnHeader(r.seen))
  /\ status' = [status EXCEPT ![r.version] = "published"]
  /\ feed' = feed \o <<VersionEvent("version.published", r.version),
                       LabelEvent("label.moved", r.label, r.version)>>
  /\ Finished(s)

DeprecateLoad(s, v) ==
  /\ status[v] = "published"
  /\ Begin(s, [at |-> "deprecate", version |-> v,
               doomed |-> {<<n, labels[n]>> : n \in {m \in Names :
                             labels[m] # NoLabel /\ labels[m].version = v}}])
  /\ UNCHANGED <<status, labels, minted, feed>>

(* The rows are deleted by primary key, whatever they point at by then; a  *)
(* row that is gone already is not missed.                                 *)
Doomed(n, doomed) ==
  labels[n] # NoLabel /\ \E d \in doomed : d[1] = n /\ d[2].id = labels[n].id

DeprecateCommit(s) ==
  LET r == sess[s]
      Removal(d) == LabelEvent("label.removed", d[1], r.version)
  IN
  /\ r.at = "deprecate"
  /\ ~RowLocked(r.version, s)
  /\ status' = [status EXCEPT ![r.version] = "deprecated"]
  /\ labels' = [n \in Names |-> IF Doomed(n, r.doomed) THEN NoLabel ELSE labels[n]]
  /\ feed' = feed \o SetToSeq({Removal(d) : d \in r.doomed})
                  \o <<VersionEvent("version.deprecated", r.version)>>
  /\ Finished(s)
  /\ UNCHANGED minted

(* A refused precondition or UPDATE, or a failure before the commit.       *)
Rollback(s) ==
  /\ sess[s] # Idle
  /\ Finished(s)
  /\ UNCHANGED <<status, labels, minted, feed>>

Next ==
  \E s \in Sessions :
    \/ \E v \in Versions :
         \/ \E n \in Names, h \in Headers : SetLabelLoad(s, n, v, h)
         \/ \E n \in Names \cup {NoName} : PublishLoad(s, v, n)
         \/ DeprecateLoad(s, v)
    \/ SetLabelCommit(s)
    \/ PublishUnlabelled(s) \/ PublishFlush(s) \/ PublishLabelled(s)
    \/ DeprecateCommit(s)
    \/ Rollback(s)

Spec == Init /\ [][Next]_vars

-----------------------------------------------------------------------------
(* The values each variable may take; every etag in the table was drawn,   *)
(* and a row keeps its id while its etag moves on.                         *)
TypeOK ==
  /\ status \in [Versions -> {"approved", "published", "deprecated"}]
  /\ labels \in [Names -> Fetchable]
  /\ minted \in 0..MaxMoves
  /\ feed \in Seq(Event)
  /\ sess \in [Sessions -> Request \cup {Idle}]
  /\ \A n \in Names : labels[n] # NoLabel =>
       labels[n].id <= labels[n].etag /\ labels[n].etag <= minted

(* resolve_version by label: a label shows nothing but a published version.*)
Resolve(n) ==
  IF labels[n] # NoLabel /\ status[labels[n].version] = "published"
  THEN labels[n].version ELSE NoLabel

(* A label never points at a version that was not released, whatever       *)
(* publications, moves and rollbacks go on at the same time.               *)
LabelsAreReleased ==
  \A n \in Names : labels[n] # NoLabel =>
    status[labels[n].version] \in {"published", "deprecated"}

(* A client that follows the feed has heard of the version a label resolves*)
(* to, and heard that the version is out before it heard that the label    *)
(* moved there.                                                            *)
ResolvedWasAnnounced ==
  \A n \in Names : Resolve(n) # NoLabel =>
    \E i, j \in 1..Len(feed) :
      /\ i < j
      /\ feed[i] = VersionEvent("version.published", Resolve(n))
      /\ feed[j] = LabelEvent("label.moved", n, Resolve(n))

(* The step in which a set_label request with this kind of If-Match takes  *)
(* effect.                                                                 *)
Sets(s, headers) ==
  sess[s].at = "set_label" /\ sess[s].header \in headers /\ minted' # minted
  /\ sess'[s] = Idle

(* A request that presents no etag only creates: it replaces nothing that  *)
(* somebody put there, not even after the request had looked.              *)
UnconditionalOnlyCreates ==
  [][\A s \in Sessions :
       Sets(s, {NoHeader, Star}) => labels[sess[s].label] = NoLabel]_vars

(* A request that presents an etag moves only the label row it was read    *)
(* from, never one that was created after the first had been removed.      *)
CasKeepsRow ==
  [][\A s \in Sessions : Sets(s, Nat) =>
       /\ labels[sess[s].label] # NoLabel
       /\ labels[sess[s].label].id <= sess[s].header]_vars

(* Label changes are compare-and-set: a request takes effect only if its   *)
(* If-Match is the etag the label has at that moment.                      *)
LabelCas ==
  [][\A s \in Sessions :
       Sets(s, Nat) => /\ labels[sess[s].label] # NoLabel
                       /\ labels[sess[s].label].etag = sess[s].header]_vars
=============================================================================
