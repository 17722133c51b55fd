------------------------------ MODULE LabelsProofs ------------------------------
(***************************************************************************)
(* What the labels of a skill point at, what a client of the feed has      *)
(* heard of it, and what an If-Match protects, for any number of versions, *)
(* label names and requests.                                               *)
(***************************************************************************)
EXTENDS Labels, FiniteSetTheorems, TLAPS

(* The type invariant without the etags.                                   *)
Typed ==
  /\ status \in [Versions -> {"approved", "published", "deprecated"}]
  /\ labels \in [Names -> Fetchable]
  /\ minted \in 0..MaxMoves
  /\ feed \in Seq(Event)
  /\ sess \in [Sessions -> Request \cup {Idle}]

(* A row's etag only grows, in the table and in what a request has loaded. *)
Aged(label) == label # NoLabel => label.id <= label.etag
Etags ==
  /\ \A n \in Names : Aged(labels[n]) /\ (labels[n] # NoLabel => labels[n].etag <= minted)
  /\ \A s \in Sessions : sess[s].at \in {"set_label", "flushed"} => Aged(sess[s].seen)

(* A removal lists finitely many labels: there are only so many rows.      *)
Rows == {n \in Names : labels[n] # NoLabel}
Finite ==
  /\ IsFiniteSet(Rows)
  /\ \A s \in Sessions : sess[s].at = "deprecate" => IsFiniteSet(sess[s].doomed)

(* A version that a request judged by its status stays past its release.   *)
Judged ==
  \A s \in Sessions :
    sess[s].at \in {"set_label", "deprecate"} => status[sess[s].version] # "approved"

Released == \A n \in Names : labels[n] # NoLabel => status[labels[n].version] # "approved"

Heard(v) == \E i \in 1..Len(feed) : feed[i] = VersionEvent("version.published", v)
Announced(n, v) ==
  \E i, j \in 1..Len(feed) :
    /\ i < j
    /\ feed[i] = VersionEvent("version.published", v)
    /\ feed[j] = LabelEvent("label.moved", n, v)

Told ==
  /\ \A v \in Versions : status[v] # "approved" => Heard(v)
  /\ \A n \in Names : labels[n] # NoLabel => Announced(n, labels[n].version)

(* The inductive invariant.                                                *)
IInv == Typed /\ Etags /\ Finite /\ Judged /\ Released /\ Told

-----------------------------------------------------------------------------
(* Finite sets and their sequences.                                        *)

(* A finite set can be written down as a sequence.                         *)
LEMMA SequenceOfSet ==
  ASSUME NEW S, IsFiniteSet(S)
  PROVE  SetToSeq(S) \in Seq(S)
  <1> DEFINE n == Cardinality(S)
  <1>1. n \in Nat /\ ExistsBijection(1..n, S)
    BY FS_CardinalityType
  <1>2. \E f \in [1..n -> S] : IsInjective(f)
    BY <1>1 DEF ExistsBijection, Bijection, Injection
  <1>3. SetToSeq(S) \in [1..n -> S]
    BY <1>2 DEF SetToSeq
  <1> QED BY <1>1, <1>3

(* The image of a finite set is finite.                                    *)
LEMMA FiniteImage ==
  ASSUME NEW S, NEW T, NEW f \in [S -> T], IsFiniteSet(S),
         \A t \in T : \E s \in S : f[s] = t
  PROVE  IsFiniteSet(T)
  <1>1. f \in Surjection(S, T)
    BY DEF Surjection
  <1> QED BY <1>1, FS_Surjection

-----------------------------------------------------------------------------
(* What the feed has told stays told.                                      *)

(* What is appended to the feed takes nothing away from it.                *)
LEMMA Remembers ==
  ASSUME feed \in Seq(Event), NEW more \in Seq(Event), feed' = feed \o more
  PROVE  /\ feed' \in Seq(Event)
         /\ \A v : Heard(v) => Heard(v)'
         /\ \A n, v : Announced(n, v) => Announced(n, v)'
         /\ \A k \in 1..Len(more) : feed'[Len(feed) + k] = more[k]
         /\ Len(feed') = Len(feed) + Len(more)
  <1>1. /\ feed' \in Seq(Event) /\ Len(feed') = Len(feed) + Len(more)
        /\ \A i \in 1..Len(feed) : feed'[i] = feed[i]
        /\ \A k \in 1..Len(more) : feed'[Len(feed) + k] = more[k]
        /\ Len(feed) \in Nat /\ Len(more) \in Nat
    OBVIOUS
  <1>2. \A v : Heard(v) => Heard(v)'
    BY <1>1 DEF Heard
  <1>3. \A n, v : Announced(n, v) => Announced(n, v)'
    BY <1>1 DEF Announced
  <1> QED BY <1>1, <1>2, <1>3

-----------------------------------------------------------------------------
(* A request loads something, or ends.                                     *)

(* A request loads: the tables stay as they are.                           *)
LEMMA LoadKeeps ==
  ASSUME IInv, NEW s \in Sessions, NEW request \in Request,
         sess' = [sess EXCEPT ![s] = request], UNCHANGED <<status, labels, minted, feed>>,
         request.at \in {"set_label", "flushed"} => Aged(request.seen),
         request.at \in {"set_label", "deprecate"} => status[request.version] # "approved",
         request.at = "deprecate" => IsFiniteSet(request.doomed)
  PROVE  IInv'
  <1>1. sess' \in [Sessions -> Request \cup {Idle}] /\ Rows' = Rows
    BY DEF IInv, Typed, Rows
  <1>2. \A t \in Sessions : sess'[t] = IF t = s THEN request ELSE sess[t]
    BY DEF IInv, Typed
  <1>3. Typed' /\ Released' /\ Told'
    BY <1>1 DEF IInv, Typed, Released, Told, Heard, Announced
  <1>4. Etags' /\ Finite' /\ Judged'
    BY <1>1, <1>2 DEF IInv, Etags, Aged, Finite, Judged
  <1> QED BY <1>3, <1>4 DEF IInv

(* What holds of every request holds when one of them has ended.           *)
LEMMA Ending ==
  ASSUME IInv, NEW s \in Sessions, Finished(s)
  PROVE  /\ sess' \in [Sessions -> Request \cup {Idle}]
         /\ \A t \in Sessions : sess'[t] = sess[t] \/ sess'[t].at = "idle"
         /\ \A t \in Sessions : sess'[t].at \in {"set_label", "flushed"} => Aged(sess'[t].seen)
         /\ \A t \in Sessions : sess'[t].at = "deprecate" => IsFiniteSet(sess'[t].doomed)
  <1>1. /\ sess' \in [Sessions -> Request \cup {Idle}]
        /\ \A t \in Sessions : sess'[t] = IF t = s THEN Idle ELSE sess[t]
    BY DEF IInv, Typed, Finished
  <1>2. Idle.at = "idle"
    BY DEF Idle
  <1> QED BY <1>1, <1>2 DEF IInv, Etags, Finite

(* A transaction is rolled back.                                           *)
LEMMA RollbackKeeps ==
  ASSUME IInv, NEW s \in Sessions, Rollback(s)
  PROVE  IInv'
  <1>1. Finished(s) /\ UNCHANGED <<status, labels, minted, feed>> /\ Rows' = Rows
    BY DEF Rollback, Rows
  <1>2. Typed' /\ Released' /\ Told'
    BY <1>1, Ending DEF IInv, Typed, Released, Told, Heard, Announced
  <1>3. Etags' /\ Finite'
    BY <1>1, Ending DEF IInv, Etags, Finite, Aged
  <1>4. Judged'
    BY <1>1, Ending DEF IInv, Judged
  <1> QED BY <1>2, <1>3, <1>4 DEF IInv

(* set_label up to its lock.                                               *)
LEMMA SetLabelLoadKeeps ==
  ASSUME IInv, NEW s \in Sessions, NEW n \in Names, NEW v \in Versions, NEW header \in Headers,
         SetLabelLoad(s, n, v, header)
  PROVE  IInv'
  <1> DEFINE request == [at |-> "set_label", version |-> v, label |-> n,
                         header |-> header, seen |-> labels[n]]
  <1>1. request \in Request
    BY DEF IInv, Typed, Request
  <1>2. /\ request.at = "set_label" /\ request.version = v /\ request.seen = labels[n]
        /\ sess' = [sess EXCEPT ![s] = request] /\ UNCHANGED <<status, labels, minted, feed>>
        /\ status[v] # "approved"
    BY DEF SetLabelLoad, Begin
  <1>3. Aged(labels[n])
    BY DEF IInv, Etags
  <1> HIDE DEF request
  <1> QED BY <1>1, <1>2, <1>3, LoadKeeps

(* publish_version up to its flush.                                        *)
LEMMA PublishLoadKeeps ==
  ASSUME IInv, NEW s \in Sessions, NEW v \in Versions, NEW n \in Names \cup {NoName},
         PublishLoad(s, v, n)
  PROVE  IInv'
  <1> DEFINE request == [at |-> "publish", version |-> v, label |-> n]
  <1>1. request \in Request
    BY DEF Request
  <1>2. /\ request.at = "publish"
        /\ sess' = [sess EXCEPT ![s] = request] /\ UNCHANGED <<status, labels, minted, feed>>
    BY DEF PublishLoad, Begin
  <1> HIDE DEF request
  <1> QED BY <1>1, <1>2, LoadKeeps

(* The flush that takes the lock on the version.                           *)
LEMMA PublishFlushKeeps ==
  ASSUME IInv, NEW s \in Sessions, PublishFlush(s)
  PROVE  IInv'
  <1> DEFINE n == sess[s].label
             request == [at |-> "flushed", version |-> sess[s].version,
                         label |-> n, seen |-> labels[n]]
  <1>1. sess[s].version \in Versions /\ n \in Names
    <2>1. sess[s] \in Request /\ sess[s].at = "publish"
      BY DEF IInv, Typed, PublishFlush, MayPublish, Idle
    <2>2. n # NoName
      BY DEF PublishFlush
    <2> QED BY <2>1, <2>2 DEF Request
  <1>2. request \in Request
    BY <1>1 DEF IInv, Typed, Request
  <1>3. /\ request.at = "flushed" /\ request.seen = labels[n]
        /\ sess' = [sess EXCEPT ![s] = request] /\ UNCHANGED <<status, labels, minted, feed>>
    BY DEF PublishFlush
  <1>4. Aged(labels[n])
    BY <1>1 DEF IInv, Etags
  <1> HIDE DEF request, n
  <1> QED BY <1>2, <1>3, <1>4, LoadKeeps

(* deprecate_version with the labels it found.                             *)
LEMMA DeprecateLoadKeeps ==
  ASSUME IInv, NEW s \in Sessions, NEW v \in Versions, DeprecateLoad(s, v)
  PROVE  IInv'
  <1> DEFINE mine == {m \in Names : labels[m] # NoLabel /\ labels[m].version = v}
             doomed == {<<n, labels[n]>> : n \in mine}
             request == [at |-> "deprecate", version |-> v, doomed |-> doomed]
  <1>1. doomed \in SUBSET (Names \X Label)
    BY DEF IInv, Typed, Fetchable
  <1>2. request \in Request
    BY <1>1 DEF Request
  <1>3. IsFiniteSet(doomed)
    <2>1. mine \in SUBSET Rows
      BY DEF Rows
    <2>2. IsFiniteSet(mine)
      BY <2>1, FS_Subset DEF IInv, Finite
    <2>3. [n \in mine |-> <<n, labels[n]>>] \in [mine -> doomed]
      OBVIOUS
    <2>4. \A d \in doomed : \E n \in mine : [m \in mine |-> <<m, labels[m]>>][n] = d
      OBVIOUS
    <2> HIDE DEF mine, doomed
    <2> QED BY <2>2, <2>3, <2>4, FiniteImage
  <1>4. /\ request.at = "deprecate" /\ request.version = v /\ request.doomed = doomed
        /\ sess' = [sess EXCEPT ![s] = request] /\ UNCHANGED <<status, labels, minted, feed>>
        /\ status[v] # "approved"
    BY DEF DeprecateLoad, Begin
  <1> HIDE DEF request, doomed
  <1> QED BY <1>2, <1>3, <1>4, LoadKeeps

-----------------------------------------------------------------------------
(* move_label: whatever the identity map hands out, the row that is written*)
(* is a new one or the one that is there, and shows the target or what it  *)
(* showed before.                                                          *)
Written(n, v, row) ==
  /\ row \in Label /\ labels' = [labels EXCEPT ![n] = row]
  /\ row.id <= row.etag /\ row.etag = minted'
  /\ row.version = v \/ (labels[n] # NoLabel /\ row.version = labels[n].version)

(* The UPDATE of a label leaves its id and takes the new etag.             *)
LEMMA MovedRow ==
  ASSUME NEW current \in Label, NEW fetched, NEW v \in Versions, NEW etag \in Nat
  PROVE  LET row == Moved(current, fetched, v, etag)
         IN  /\ row \in Label /\ row.id = current.id /\ row.etag = etag
             /\ row.version = v \/ row.version = current.version
  <1>1. current.version \in Versions
    BY DEF Label
  <1>2. CASE v = fetched.version
    BY <1>1, <1>2 DEF Moved, Label
  <1>3. CASE v # fetched.version
    BY <1>1, <1>3 DEF Moved, Label
  <1> QED BY <1>2, <1>3

(* move_label writes one row and draws one number, or is refused.          *)
LEMMA Moving ==
  ASSUME Typed, Etags, NEW n \in Names, NEW v \in Versions, NEW seen \in Fetchable,
         Aged(seen), NEW header, MoveLabel(n, v, seen, header)
  PROVE  /\ minted' = minted + 1 /\ minted' \in 0..MaxMoves
         /\ \E row \in Label : Written(n, v, row)
         /\ header \in {NoHeader, Star} => labels[n] = NoLabel
         /\ header \in Nat => labels[n] # NoLabel /\ labels[n].id <= header
  <1> DEFINE fetched == Fetched(labels[n], seen)
  <1>1. minted \in Nat /\ minted' = minted + 1 /\ minted' \in 0..MaxMoves
    BY MaxMovesAssumption DEF Typed, MoveLabel
  <1>2. labels[n] \in Fetchable /\ fetched \in Fetchable /\ (fetched = NoLabel <=> labels[n] = NoLabel)
    BY DEF Typed, Fetched
  <1>3. labels[n] # NoLabel =>
          /\ labels[n].id <= labels[n].etag /\ labels[n].etag <= minted
          /\ fetched \in Label /\ labels[n] \in Label /\ labels[n].id <= fetched.etag
    BY <1>2 DEF Etags, Aged, Fetched, Fetchable
  <1>4. CASE fetched = NoLabel
    <2> DEFINE row == [id |-> minted', version |-> v, etag |-> minted']
    <2>1. header \in {NoHeader, Star} /\ labels' = [labels EXCEPT ![n] = row]
      BY <1>1, <1>4 DEF MoveLabel
    <2>2. row \in Label /\ row.id <= row.etag /\ row.etag = minted' /\ row.version = v
      BY <1>1 DEF Label
    <2> HIDE DEF row
    <2>3. Written(n, v, row)
      BY <2>1, <2>2 DEF Written
    <2> QED BY <1>1, <1>2, <1>4, <2>1, <2>2, <2>3, HeaderAssumption
  <1>5. CASE fetched # NoLabel
    <2> DEFINE row == Moved(labels[n], fetched, v, minted')
    <2>1. header = fetched.etag /\ labels' = [labels EXCEPT ![n] = row]
      BY <1>1, <1>5 DEF MoveLabel
    <2>2. /\ row \in Label /\ row.id = labels[n].id /\ row.etag = minted'
          /\ row.version = v \/ row.version = labels[n].version
      <3>1. labels[n] \in Label /\ minted' \in Nat
        BY <1>1, <1>2, <1>3, <1>5
      <3> HIDE DEF fetched
      <3> QED BY <3>1, MovedRow
    <2> HIDE DEF row
    <2>3. row.id <= row.etag
      BY <1>1, <1>2, <1>3, <1>5, <2>2 DEF Label
    <2>4. Written(n, v, row)
      BY <1>2, <1>5, <2>1, <2>2, <2>3 DEF Written
    <2>5. header \in Nat /\ header \notin {NoHeader, Star}
      BY <1>2, <1>3, <1>5, <2>1, HeaderAssumption DEF Label
    <2> QED BY <1>1, <1>2, <1>3, <1>5, <2>1, <2>2, <2>4, <2>5
  <1> QED BY <1>4, <1>5

(* A move that takes effect together with its event.                       *)
LEMMA MoveKeeps ==
  ASSUME IInv, NEW s \in Sessions, Finished(s), NEW n \in Names, NEW v \in Versions,
         NEW seen \in Fetchable, Aged(seen), NEW header, MoveLabel(n, v, seen, header),
         status' \in [Versions -> {"approved", "published", "deprecated"}],
         \A w \in Versions : status[w] # "approved" => status'[w] # "approved",
         status'[v] # "approved",
         feed' \in Seq(Event),
         \A w \in Versions : status'[w] # "approved" => Heard(w)',
         \A m, w : Announced(m, w) => Announced(m, w)',
         Announced(n, v)'
  PROVE  IInv'
  <1>1. PICK row \in Label : Written(n, v, row)
    BY Moving DEF IInv
  <1>2. minted \in Nat /\ minted' = minted + 1 /\ minted' \in 0..MaxMoves
    BY Moving DEF IInv, Typed
  <1>3. /\ labels' \in [Names -> Fetchable]
        /\ \A m \in Names : labels'[m] = IF m = n THEN row ELSE labels[m]
        /\ row # NoLabel
    BY <1>1, NoLabelAssumption DEF IInv, Typed, Written, Fetchable, Label
  <1>4. Typed'
    BY <1>2, <1>3, Ending DEF IInv, Typed
  <1>5. Etags'
    <2>1. \A m \in Names : labels[m] # NoLabel => labels[m].etag \in Nat /\ labels[m].etag <= minted
      BY DEF IInv, Typed, Etags, Fetchable, Label
    <2>2. \A m \in Names : labels'[m] # NoLabel =>
            labels'[m].id <= labels'[m].etag /\ labels'[m].etag <= minted'
      BY <1>1, <1>2, <1>3, <2>1 DEF IInv, Etags, Aged, Written
    <2> QED BY <2>2, Ending DEF Etags, Aged
  <1>6. Finite'
    <2>1. IsFiniteSet(Rows \cup {n})
      BY FS_AddElement DEF IInv, Finite
    <2>2. Rows' \in SUBSET (Rows \cup {n})
      BY <1>3 DEF Rows
    <2> HIDE DEF Rows
    <2> QED BY <2>1, <2>2, FS_Subset, Ending DEF Finite
  <1>7. Judged'
    BY Ending DEF IInv, Typed, Judged, Request, Idle
  <1>8. Released'
    BY <1>1, <1>3 DEF IInv, Typed, Released, Written, Fetchable, Label
  <1>9. Told'
    BY <1>1, <1>3 DEF IInv, Told, Written
  <1> QED BY <1>4, <1>5, <1>6, <1>7, <1>8, <1>9 DEF IInv

(* set_label takes effect.                                                 *)
LEMMA SetLabelCommitKeeps ==
  ASSUME IInv, NEW s \in Sessions, SetLabelCommit(s)
  PROVE  IInv'
  <1>1. /\ sess[s].label \in Names /\ sess[s].version \in Versions
        /\ sess[s].seen \in Fetchable /\ sess[s].header \in Headers /\ sess[s].at = "set_label"
    BY DEF IInv, Typed, Request, Idle, SetLabelCommit
  <1>2. PICK n \in Names, v \in Versions, seen \in Fetchable, header \in Headers :
          sess[s].label = n /\ sess[s].version = v /\ sess[s].seen = seen /\ sess[s].header = header
    BY <1>1
  <1> DEFINE event == LabelEvent("label.moved", n, v)
  <1>3. /\ MoveLabel(n, v, seen, header) /\ Aged(seen) /\ status[v] # "approved"
        /\ feed' = Append(feed, event) /\ Finished(s) /\ status' = status
    BY <1>1, <1>2 DEF SetLabelCommit, IInv, Etags, Judged
  <1>4. event \in Event /\ feed \in Seq(Event)
    BY DEF Event, LabelEvent, IInv, Typed
  <1>5. /\ feed' \in Seq(Event) /\ Len(feed') = Len(feed) + 1 /\ Len(feed) \in Nat
        /\ feed'[Len(feed) + 1] = event /\ \A i \in 1..Len(feed) : feed'[i] = feed[i]
    BY <1>3, <1>4
  <1>6. \A w : Heard(w) => Heard(w)'
    BY <1>5 DEF Heard
  <1>7. \A m, w : Announced(m, w) => Announced(m, w)'
    BY <1>5 DEF Announced
  <1>8. Announced(n, v)'
    <2>1. PICK i \in 1..Len(feed) : feed[i] = VersionEvent("version.published", v)
      BY <1>3 DEF IInv, Told, Heard
    <2> QED BY <2>1, <1>5 DEF Announced
  <1>9. \A w \in Versions : status'[w] # "approved" => Heard(w)'
    BY <1>3, <1>6 DEF IInv, Told
  <1>10. status' \in [Versions -> {"approved", "published", "deprecated"}]
    BY <1>3 DEF IInv, Typed
  <1> QED BY <1>3, <1>5, <1>7, <1>8, <1>9, <1>10, MoveKeeps

(* publish_version moves its label with the release.                       *)
LEMMA PublishLabelledKeeps ==
  ASSUME IInv, NEW s \in Sessions, PublishLabelled(s)
  PROVE  IInv'
  <1>1. /\ sess[s].label \in Names /\ sess[s].version \in Versions
        /\ sess[s].seen \in Fetchable /\ sess[s].at = "flushed"
    BY DEF IInv, Typed, Request, Idle, PublishLabelled
  <1>2. PICK n \in Names, v \in Versions, seen \in Fetchable :
          sess[s].label = n /\ sess[s].version = v /\ sess[s].seen = seen
    BY <1>1
  <1> DEFINE out == VersionEvent("version.published", v)
             moved == LabelEvent("label.moved", n, v)
  <1>3. /\ MoveLabel(n, v, seen, OwnHeader(seen)) /\ Aged(seen) /\ Finished(s)
        /\ feed' = feed \o <<out, moved>> /\ status' = [status EXCEPT ![v] = "published"]
    BY <1>1, <1>2 DEF PublishLabelled, IInv, Etags
  <1>4. out \in Event /\ moved \in Event /\ feed \in Seq(Event)
    BY DEF Event, LabelEvent, VersionEvent, IInv, Typed
  <1>5. /\ status' \in [Versions -> {"approved", "published", "deprecated"}]
        /\ \A w \in Versions : status'[w] = IF w = v THEN "published" ELSE status[w]
    BY <1>3 DEF IInv, Typed
  <1> DEFINE more == <<out, moved>>
  <1>6. more \in Seq(Event) /\ Len(more) = 2 /\ more[1] = out /\ more[2] = moved
    BY <1>4
  <1>7. feed' = feed \o more
    BY <1>3
  <1> HIDE DEF more
  <1> HIDE DEF out, moved
  <1>8. /\ feed' \in Seq(Event) /\ Len(feed') = Len(feed) + 2 /\ Len(feed) \in Nat
        /\ feed'[Len(feed) + 1] = out /\ feed'[Len(feed) + 2] = moved
        /\ \A w : Heard(w) => Heard(w)'
        /\ \A m, w : Announced(m, w) => Announced(m, w)'
    <2>1. /\ feed' \in Seq(Event) /\ Len(feed') = Len(feed) + Len(more)
          /\ \A k \in 1..Len(more) : feed'[Len(feed) + k] = more[k]
      BY <1>4, <1>6, <1>7, Remembers
    <2>2. /\ \A w : Heard(w) => Heard(w)'
          /\ \A m, w : Announced(m, w) => Announced(m, w)'
      BY <1>4, <1>6, <1>7, Remembers
    <2> QED BY <1>4, <1>6, <2>1, <2>2
  <1> USE DEF out, moved
  <1>9. Heard(v)' /\ Announced(n, v)'
    BY <1>8 DEF Heard, Announced
  <1>10. \A w \in Versions : status'[w] # "approved" => Heard(w)'
    BY <1>5, <1>8, <1>9 DEF IInv, Told
  <1> QED BY <1>3, <1>5, <1>8, <1>9, <1>10, MoveKeeps

(* publish_version without a label.                                        *)
LEMMA PublishUnlabelledKeeps ==
  ASSUME IInv, NEW s \in Sessions, PublishUnlabelled(s)
  PROVE  IInv'
  <1>1. sess[s].version \in Versions
    <2>1. sess[s] \in Request /\ sess[s].at = "publish"
      BY DEF IInv, Typed, PublishUnlabelled, MayPublish, Idle
    <2> QED BY <2>1 DEF Request
  <1>2. PICK v \in Versions : sess[s].version = v
    BY <1>1
  <1> DEFINE out == VersionEvent("version.published", v)
  <1>3. /\ feed' = Append(feed, out) /\ status' = [status EXCEPT ![v] = "published"]
        /\ Finished(s) /\ UNCHANGED <<labels, minted>>
    BY <1>2 DEF PublishUnlabelled
  <1>4. out \in Event /\ feed \in Seq(Event)
    BY DEF Event, VersionEvent, IInv, Typed
  <1>5. /\ feed' \in Seq(Event) /\ Len(feed') = Len(feed) + 1 /\ Len(feed) \in Nat
        /\ feed'[Len(feed) + 1] = out /\ \A i \in 1..Len(feed) : feed'[i] = feed[i]
    BY <1>3, <1>4
  <1>6. /\ \A w : Heard(w) => Heard(w)'
        /\ Heard(v)'
    BY <1>5 DEF Heard
  <1>7. \A m, w : Announced(m, w) => Announced(m, w)'
    BY <1>5 DEF Announced
  <1>8. /\ status' \in [Versions -> {"approved", "published", "deprecated"}]
        /\ \A w \in Versions : status'[w] = IF w = v THEN "published" ELSE status[w]
    BY <1>3 DEF IInv, Typed
  <1>9. Typed' /\ Etags' /\ Finite'
    <2>1. Rows' = Rows
      BY <1>3 DEF Rows
    <2> QED BY <1>3, <1>5, <1>8, <2>1, Ending DEF IInv, Typed, Etags, Finite, Aged
  <1>10. Judged'
    BY <1>3, <1>8, Ending DEF IInv, Typed, Judged, Request, Idle
  <1>11. Released'
    BY <1>3, <1>8 DEF IInv, Typed, Released, Fetchable, Label
  <1>12. Told'
    BY <1>3, <1>6, <1>7, <1>8 DEF IInv, Told
  <1> QED BY <1>9, <1>10, <1>11, <1>12 DEF IInv

-----------------------------------------------------------------------------
(* deprecate_version tells of the labels it had loaded, in any order, and  *)
(* of the version; what it leaves in the table was there before.           *)

(* deprecate_version takes effect and its labels go.                       *)
LEMMA DeprecateCommitKeeps ==
  ASSUME IInv, NEW s \in Sessions, DeprecateCommit(s)
  PROVE  IInv'
  <1>1. /\ sess[s].version \in Versions /\ sess[s].doomed \in SUBSET (Names \X Label)
        /\ sess[s].at = "deprecate"
    BY DEF IInv, Typed, Request, Idle, DeprecateCommit
  <1>2. PICK v \in Versions, doomed \in SUBSET (Names \X Label) :
          sess[s].version = v /\ sess[s].doomed = doomed
    BY <1>1
  <1> DEFINE removals == {LabelEvent("label.removed", d[1], v) : d \in doomed}
             retired == VersionEvent("version.deprecated", v)
             more == SetToSeq(removals) \o <<retired>>
  <1>3. /\ status' = [status EXCEPT ![v] = "deprecated"]
        /\ labels' = [n \in Names |-> IF Doomed(n, doomed) THEN NoLabel ELSE labels[n]]
        /\ feed' = feed \o SetToSeq(removals) \o <<retired>>
        /\ Finished(s) /\ minted' = minted
    BY <1>2 DEF DeprecateCommit
  <1>4. SetToSeq(removals) \in Seq(Event)
    <2>1. IsFiniteSet(doomed)
      BY <1>1, <1>2 DEF IInv, Finite
    <2>2. removals \subseteq Event
      BY DEF Event, LabelEvent
    <2>3. IsFiniteSet(removals)
      <3> DEFINE event == [d \in doomed |-> LabelEvent("label.removed", d[1], v)]
      <3>1. event \in [doomed -> removals] /\ \A x \in removals : \E d \in doomed : event[d] = x
        OBVIOUS
      <3> HIDE DEF event, removals
      <3> QED BY <2>1, <3>1, FiniteImage
    <2> HIDE DEF removals
    <2>4. SetToSeq(removals) \in Seq(removals)
      BY <2>3, SequenceOfSet
    <2> QED BY <2>2, <2>4
  <1>5. retired \in Event /\ feed \in Seq(Event)
    BY DEF Event, VersionEvent, IInv, Typed
  <1> HIDE DEF removals, retired
  <1>6. more \in Seq(Event) /\ feed' = feed \o more
    BY <1>3, <1>4, <1>5
  <1> HIDE DEF more
  <1>7. /\ feed' \in Seq(Event)
        /\ \A w : Heard(w) => Heard(w)'
        /\ \A m, w : Announced(m, w) => Announced(m, w)'
    BY <1>5, <1>6, Remembers
  <1>8. /\ status' \in [Versions -> {"approved", "published", "deprecated"}]
        /\ \A w \in Versions : status'[w] = IF w = v THEN "deprecated" ELSE status[w]
        /\ status[v] # "approved"
    BY <1>1, <1>2, <1>3 DEF IInv, Typed, Judged
  <1>9. /\ labels' \in [Names -> Fetchable]
        /\ \A n \in Names : labels'[n] # NoLabel => labels'[n] = labels[n]
    BY <1>3 DEF IInv, Typed, Fetchable
  <1>10. Typed'
    BY <1>3, <1>7, <1>8, <1>9, Ending DEF IInv, Typed
  <1>11. Etags'
    BY <1>3, <1>9, Ending DEF IInv, Etags, Aged
  <1>12. Finite'
    <2>1. Rows' \in SUBSET Rows
      BY <1>9 DEF Rows
    <2> HIDE DEF Rows
    <2> QED BY <1>3, <2>1, FS_Subset, Ending DEF IInv, Finite
  <1>13. Judged'
    BY <1>3, <1>8, Ending DEF IInv, Typed, Judged, Request, Idle
  <1>14. Released'
    BY <1>8, <1>9 DEF IInv, Typed, Released, Fetchable, Label
  <1>15. Told'
    BY <1>7, <1>8, <1>9 DEF IInv, Told
  <1> QED BY <1>10, <1>11, <1>12, <1>13, <1>14, <1>15 DEF IInv

(* Every step of the requests keeps the invariant.                         *)
LEMMA StepKeeps ==
  ASSUME IInv, [Next]_vars
  PROVE  IInv'
  <1>1. CASE UNCHANGED vars
    BY <1>1 DEF vars, IInv, Typed, Etags, Aged, Finite, Rows, Judged, Released, Told, Heard,
                Announced
  <1> QED BY <1>1, SetLabelLoadKeeps, PublishLoadKeeps, DeprecateLoadKeeps, SetLabelCommitKeeps,
             PublishUnlabelledKeeps, PublishFlushKeeps, PublishLabelledKeeps,
             DeprecateCommitKeeps, RollbackKeeps DEF Next

-----------------------------------------------------------------------------
(* Labels and etags are of their types, a label and every version a request*)
(* works on are past the release, and the feed has told of both.           *)
THEOREM Invariance == Spec => []IInv
  <1>1. Init => IInv
    <2> SUFFICES ASSUME Init PROVE IInv
      OBVIOUS
    <2>1. Typed
      BY MaxMovesAssumption DEF Init, Typed, Fetchable
    <2>2. Etags /\ Judged /\ Released /\ Told
      BY DEF Init, Etags, Aged, Judged, Released, Told, Idle
    <2>3. Rows = {}
      BY DEF Init, Rows
    <2>4. Finite
      BY <2>3, FS_EmptySet DEF Init, Finite, Idle
    <2> QED BY <2>1, <2>2, <2>4 DEF IInv
  <1>2. IInv /\ [Next]_vars => IInv'
    BY StepKeeps
  <1> QED BY <1>1, <1>2, PTL DEF Spec

(* Every variable has its type, for any versions, labels and requests.     *)
THEOREM TypeCorrect == Spec => []TypeOK
  <1>1. IInv => TypeOK
    BY DEF IInv, Typed, Etags, Aged, TypeOK
  <1> QED BY <1>1, Invariance, PTL

(* A label never points at a version that was not released.                *)
THEOREM LabelledReleased == Spec => []LabelsAreReleased
  <1>1. IInv => LabelsAreReleased
    BY DEF IInv, Typed, Released, Fetchable, Label, LabelsAreReleased
  <1> QED BY <1>1, Invariance, PTL

(* What a label resolves to was announced in the feed, the release before  *)
(* the label.                                                              *)
THEOREM ResolvedAnnounced == Spec => []ResolvedWasAnnounced
  <1>1. IInv => ResolvedWasAnnounced
    BY DEF IInv, Told, Announced, Resolve, ResolvedWasAnnounced
  <1> QED BY <1>1, Invariance, PTL

-----------------------------------------------------------------------------
(* The step in which a set_label takes effect is the commit of that very   *)
(* request: no other step ends it and draws an etag.                       *)
LEMMA SettingIsMoving ==
  ASSUME IInv, Next, NEW s \in Sessions, NEW headers, Sets(s, headers)
  PROVE  SetLabelCommit(s)
  <1>1. /\ sess \in [Sessions -> Request \cup {Idle}]
        /\ sess[s].at = "set_label" /\ sess[s] # Idle /\ sess'[s] = Idle /\ minted' # minted
    BY DEF IInv, Typed, Sets, Idle
  <1>2. PICK t \in Sessions : SetLabelCommit(t) \/ PublishLabelled(t)
    BY <1>1 DEF Next, SetLabelLoad, PublishLoad, DeprecateLoad, PublishUnlabelled,
                PublishFlush, DeprecateCommit, Rollback
  <1>3. t = s
    BY <1>1, <1>2 DEF SetLabelCommit, PublishLabelled, Finished
  <1> QED BY <1>1, <1>2, <1>3 DEF PublishLabelled

(* What set_label finds under its lock is how the label is.                *)
LEMMA SettingReads ==
  ASSUME IInv, [Next]_vars, NEW s \in Sessions, NEW headers, Sets(s, headers)
  PROVE  /\ sess[s].header \in {NoHeader, Star} => labels[sess[s].label] = NoLabel
         /\ sess[s].header \in Nat =>
              /\ labels[sess[s].label] # NoLabel
              /\ labels[sess[s].label].id <= sess[s].header
  <1>1. SetLabelCommit(s)
    <2>1. ~UNCHANGED vars
      BY DEF Sets, vars
    <2> QED BY <2>1, SettingIsMoving
  <1>2. /\ sess[s].label \in Names /\ sess[s].version \in Versions
        /\ sess[s].seen \in Fetchable /\ sess[s].header \in Headers /\ sess[s].at = "set_label"
    BY <1>1 DEF IInv, Typed, Request, Idle, SetLabelCommit
  <1>3. PICK n \in Names, v \in Versions, seen \in Fetchable, header \in Headers :
          sess[s].label = n /\ sess[s].version = v /\ sess[s].seen = seen /\ sess[s].header = header
    BY <1>2
  <1>4. MoveLabel(n, v, seen, header) /\ Aged(seen)
    BY <1>1, <1>2, <1>3 DEF SetLabelCommit, IInv, Etags
  <1> QED BY <1>3, <1>4, Moving DEF IInv

(* A request without an etag only creates, whatever was committed after it *)
(* had looked.                                                             *)
THEOREM UnconditionalCreates == Spec => UnconditionalOnlyCreates
  <1> DEFINE Act == \A s \in Sessions :
                      Sets(s, {NoHeader, Star}) => labels[sess[s].label] = NoLabel
  <1>1. IInv /\ [Next]_vars => [Act]_vars
    BY SettingReads DEF Sets
  <1> HIDE DEF Act
  <1>2. Spec => [][Act]_vars
    BY <1>1, Invariance, PTL DEF Spec
  <1> QED BY <1>2 DEF Act, UnconditionalOnlyCreates

(* A request with an etag moves the row the etag was read from, never one  *)
(* that took its place.                                                    *)
THEOREM CasRowKept == Spec => CasKeepsRow
  <1> DEFINE Act == \A s \in Sessions : Sets(s, Nat) =>
                      /\ labels[sess[s].label] # NoLabel
                      /\ labels[sess[s].label].id <= sess[s].header
  <1>1. IInv /\ [Next]_vars => [Act]_vars
    BY SettingReads DEF Sets
  <1> HIDE DEF Act
  <1>2. Spec => [][Act]_vars
    BY <1>1, Invariance, PTL DEF Spec
  <1> QED BY <1>2 DEF Act, CasKeepsRow
=============================================================================
