--------------------------- MODULE PublishingProofs ---------------------------
(***************************************************************************)
(* What the publishing script reports is served, and can be installed if   *)
(* the file was not rebuilt under its first reads; and a repeated POST     *)
(* /skills is answered as the first one was: for every set of packages,    *)
(* jobs, runs, requests, skills and keys.                                  *)
(***************************************************************************)
EXTENDS Publishing, TLAPS

-----------------------------------------------------------------------------
(* The package rules.                                                      *)

Package == Seq(Entry)

(* The fields of an entry.                                                 *)
LEMMA EntryFacts ==
  ASSUME NEW p \in Package, NEW i \in DOMAIN p
  PROVE  /\ p[i] \in Entry
         /\ p[i].path \in Seq(Names)
         /\ p[i] \in ToSet(p)
  <1>1. p[i] \in Entry
    BY DEF Package
  <1> QED BY <1>1 DEF Entry, ToSet

(* An entry has its place in the package.                                  *)
LEMMA IndexOf ==
  ASSUME NEW p \in Package, NEW e \in ToSet(p)
  PROVE  \E i \in DOMAIN p : p[i] = e
  BY DEF ToSet

(* Folding keeps the length of a path and works name by name.              *)
LEMMA FoldedFacts ==
  ASSUME NEW path \in Seq(Names)
  PROVE  /\ Len(Folded(path)) = Len(path)
         /\ DOMAIN Folded(path) = DOMAIN path
         /\ \A i \in DOMAIN path : Folded(path)[i] = Fold[path[i]]
  <1>1. DOMAIN path = 1..Len(path) /\ Len(path) \in Nat
    OBVIOUS
  <1>2. Folded(path) = [i \in 1..Len(path) |-> Fold[path[i]]]
    BY <1>1 DEF Folded
  <1> QED BY <1>1, <1>2

(* A beginning of a path is folded to a beginning of the folded path.      *)
LEMMA PrefixFolds ==
  ASSUME NEW s \in Seq(Names), NEW t \in Seq(Names), IsPrefix(s, t)
  PROVE  IsPrefix(Folded(s), Folded(t))
  <1>1. /\ Len(s) <= Len(t)
        /\ \A i \in 1..Len(s) : s[i] = t[i]
    BY DEF IsPrefix
  <1> QED BY <1>1, FoldedFacts DEF IsPrefix

(* What holds of the entries of an accepted package: two of them that are  *)
(* folded alike are one, and none is at or below a file.                   *)
LEMMA Apart ==
  ASSUME NEW p \in Package, Accepted(p), NoDirectoryBelowFile(p), NEW folding \in BOOLEAN
  PROVE  /\ \A i, j \in DOMAIN p :
              Seen(p[i].path, folding) = Seen(p[j].path, folding) => i = j
         /\ \A e \in Files(p), f \in ToSet(p) :
              IsPrefix(Seen(e.path, folding), Seen(f.path, folding)) => e = f
  <1>1. NoCollision(p) /\ NoFileAbove(p)
    BY DEF Accepted, StructureSound
  <1>2. \A i, j \in DOMAIN p :
          Seen(p[i].path, folding) = Seen(p[j].path, folding) => i = j
    BY <1>1 DEF NoCollision, Seen
  <1>3. ASSUME NEW e \in Files(p), NEW f \in ToSet(p),
               IsPrefix(Seen(e.path, folding), Seen(f.path, folding))
        PROVE  e = f
    <2>1. e \in ToSet(p)
      BY DEF Files
    <2>2. PICK i \in DOMAIN p : p[i] = e
      BY <2>1, IndexOf
    <2>3. PICK j \in DOMAIN p : p[j] = f
      BY IndexOf
    <2>4. e.path \in Seq(Names) /\ f.path \in Seq(Names)
      BY <2>2, <2>3, EntryFacts
    <2>5. IsPrefix(Folded(e.path), Folded(f.path))
      BY <1>3, <2>4, PrefixFolds DEF Seen
    <2>6. Folded(e.path) = Folded(f.path)
      <3>1. CASE f \in Files(p)
        BY <1>1, <2>5, <3>1 DEF NoFileAbove, IsStrictPrefix
      <3>2. CASE f \notin Files(p)
        BY <2>5, <3>2 DEF NoDirectoryBelowFile, IsStrictPrefix
      <3> QED BY <3>1, <3>2
    <2> QED BY <1>1, <2>2, <2>3, <2>6 DEF NoCollision
  <1> QED BY <1>2, <1>3

(* The extraction of an accepted package runs to its end.                  *)
LEMMA AcceptedExtracts ==
  ASSUME NEW p \in Package, Accepted(p), NoDirectoryBelowFile(p), NEW folding \in BOOLEAN
  PROVE  Extracts(p, folding)
  <1>1. \A i, j \in DOMAIN p : p[i].path = p[j].path => i = j
    BY Apart DEF Seen
  <1>2. \A e \in ToSet(p) : SafePath(e.path) /\ e.type # "link" /\ ~e.encrypted
    BY DEF Accepted, StructureSound, SoundEntry
  <1>3. ASSUME NEW e \in Files(p), NEW f \in ToSet(p),
               IsPrefix(Seen(e.path, folding), Seen(f.path, folding))
        PROVE  ~f.dir /\ Seen(e.path, folding) = Seen(f.path, folding)
    <2>1. e = f
      BY <1>3, Apart
    <2> QED BY <2>1 DEF Files
  <1> QED BY <1>1, <1>2, <1>3 DEF Extracts

(* With one spelling of every directory a path is on disk as it is in the  *)
(* archive.                                                                *)
LEMMA KeepsSpelling ==
  ASSUME NEW p \in Package, NEW folding \in BOOLEAN, folding => OneSpelling(p),
         NEW i \in DOMAIN p
  PROVE  OnDisk(p, p[i].path, folding) = p[i].path
  <1> DEFINE path == p[i].path
  <1>1. path \in Seq(Names) /\ p[i] \in ToSet(p)
    BY EntryFacts
  <1>2. CASE ~folding
    BY <1>2 DEF OnDisk
  <1>3. CASE folding
    <2>1. ASSUME NEW k \in DOMAIN path
          PROVE  Spelling(p, path, k) = path[k]
      <3> DEFINE begin == SubSeq(path, 1, k)
                 Alike(j) == IsPrefix(Folded(begin), Folded(p[j].path))
                 c == CHOOSE j \in DOMAIN p : Alike(j)
      <3>1. k \in 1..Len(path) /\ begin \in Seq(Names) /\ Len(begin) = k
        BY <1>1
      <3>2. IsPrefix(begin, path)
        BY <1>1, <3>1 DEF IsPrefix
      <3>3. Alike(i)
        BY <1>1, <3>1, <3>2, PrefixFolds
      <3>4. c \in DOMAIN p /\ Alike(c)
        BY <3>3
      <3> DEFINE other == p[c].path
      <3>5. other \in Seq(Names) /\ p[c] \in ToSet(p)
        BY <3>4, EntryFacts
      <3> HIDE DEF c
      <3>6. /\ k \in 1..Len(other)
            /\ \A n \in 1..k : Fold[other[n]] = Fold[path[n]]
        <4>1. /\ Len(Folded(begin)) = k
              /\ DOMAIN Folded(begin) = 1..k
              /\ \A n \in 1..k : Folded(begin)[n] = Fold[path[n]]
          <5>1. DOMAIN begin = 1..k
            BY <3>1
          <5>2. \A n \in 1..k : begin[n] = path[n]
            BY <1>1, <3>1
          <5> HIDE DEF begin
          <5> QED BY <3>1, <5>1, <5>2, FoldedFacts
        <4>2. /\ Len(Folded(other)) = Len(other)
              /\ \A n \in 1..Len(other) : Folded(other)[n] = Fold[other[n]]
          BY <3>5, FoldedFacts
        <4>3. /\ k <= Len(other)
              /\ SubSeq(Folded(begin), 1, k) = SubSeq(Folded(other), 1, k)
          BY <3>4, <4>1, <4>2 DEF IsPrefix
        <4> QED
          <5>1. Len(other) \in Nat /\ k \in Nat /\ 1 <= k
            BY <1>1, <3>1, <3>5
          <5>2. k \in 1..Len(other)
            BY <4>3, <5>1
          <5>3. \A n \in 1..k : SubSeq(Folded(begin), 1, k)[n] = Folded(begin)[n]
            BY <4>1, <5>1 DEF SubSeq
          <5>4. \A n \in 1..k : SubSeq(Folded(other), 1, k)[n] = Folded(other)[n]
            BY <4>2, <4>3, <5>1 DEF SubSeq
          <5> QED BY <4>1, <4>2, <4>3, <5>1, <5>2, <5>3, <5>4
      <3>7. Folded(SubSeq(other, 1, k)) = Folded(begin)
        <4>1. SubSeq(other, 1, k) \in Seq(Names) /\ Len(SubSeq(other, 1, k)) = k
          BY <3>5, <3>6
        <4>2. \A n \in 1..k : SubSeq(other, 1, k)[n] = other[n] /\ begin[n] = path[n]
          BY <1>1, <3>1, <3>5, <3>6
        <4>3. DOMAIN SubSeq(other, 1, k) = 1..k /\ DOMAIN begin = 1..k
          BY <3>1, <4>1
        <4> QED BY <3>6, <4>2, <4>3 DEF Folded
      <3>8. SubSeq(other, 1, k) = begin
        <4>1. k \in DOMAIN other \cap DOMAIN path
          BY <1>1, <3>1, <3>5, <3>6
        <4> QED BY <1>1, <1>3, <3>5, <3>7, <4>1 DEF OneSpelling
      <3>9. other[k] = path[k]
        <4>1. SubSeq(other, 1, k)[k] = other[k] /\ begin[k] = path[k]
          BY <1>1, <3>1, <3>5, <3>6
        <4> QED BY <3>8, <4>1
      <3> QED BY <3>9 DEF Spelling, c
    <2>2. path = [k \in DOMAIN path |-> path[k]]
      BY <1>1
    <2> HIDE DEF path
    <2>3. [k \in DOMAIN path |-> Spelling(p, path, k)] = path
      BY <2>1, <2>2
    <2> QED BY <1>3, <2>3 DEF OnDisk, path
  <1> QED BY <1>2, <1>3

(* A package that is accepted and has no wrapper directory can be          *)
(* installed, if it can be extracted at all: the client finds on disk just *)
(* the files of the manifest the scanner made.                             *)
THEOREM AcceptedInstalls ==
  ASSUME NEW p \in Package, Accepted(p), IsRoot(p, <<>>),
         NEW folding \in BOOLEAN, Extractable(p, folding)
  PROVE  Installs(p, Manifest(p), folding)
  <1>1. NoDirectoryBelowFile(p) /\ Readable(p) /\ (folding => OneSpelling(p))
    BY DEF Extractable
  <1>2. Extracts(p, folding)
    BY <1>1, AcceptedExtracts
  <1>3. ASSUME NEW e \in ToSet(p)
        PROVE  Relative(p, e) = e.path
    <2>1. Roots(p) = {<<>>}
      BY DEF Roots
    <2>2. PICK i \in DOMAIN p : p[i] = e
      BY IndexOf
    <2>3. e.path \in Seq(Names)
      BY <2>2, EntryFacts
    <2>4. Relative(p, e) = SubSeq(e.path, 1, Len(e.path))
      BY <2>1 DEF Relative
    <2> QED BY <2>3, <2>4
  <1>4. Manifest(p) = {[path |-> e.path, content |-> e.content] : e \in Files(p)}
    BY <1>3 DEF Manifest, Files
  <1>5. \E f \in Manifest(p) : f.path = <<"SKILL.md">>
    <2>1. PICK e \in Files(p) : e.path = Append(<<>>, "SKILL.md")
      BY DEF IsRoot
    <2>2. [path |-> e.path, content |-> e.content] \in Manifest(p)
      BY <1>4
    <2> QED BY <2>1, <2>2
  <1>6. Extracted(p, folding) = Manifest(p)
    <2>1. \A i \in DOMAIN p : OnDisk(p, p[i].path, folding) = p[i].path
      BY <1>1, KeepsSpelling
    <2>2. \A i \in DOMAIN p : IsLast(p, i, folding)
      <3>1. DOMAIN p \subseteq Nat
        BY DEF Package
      <3> QED BY <1>1, <3>1, Apart DEF IsLast
    <2>3. Extracted(p, folding) =
            {[path |-> p[i].path, content |-> p[i].content] : i \in {j \in DOMAIN p : ~p[j].dir}}
      BY <2>1, <2>2 DEF Extracted
    <2>4. Files(p) = {p[i] : i \in {j \in DOMAIN p : ~p[j].dir}}
      BY DEF Files, ToSet
    <2> QED BY <1>4, <2>3, <2>4
  <1> QED BY <1>1, <1>2, <1>5, <1>6 DEF Installs

-----------------------------------------------------------------------------
(* POST /skills.                                                           *)

(* What is done here on behalf of a request, by whoever sent it.           *)
CreationAction(s) ==
  \/ \E request \in Request : \E key : Receive(s, request, key)
  \/ AnswerSent(s)
  \/ CreationStep(s)

(* A request in its transaction and one that has been answered.            *)
Working(c) ==
  /\ c.at \in {"looked", "inserted"}
  /\ c = [at |-> c.at, request |-> c.request, key |-> c.key, known |-> c.known]
  /\ c.request \in Request
Done(c) ==
  /\ c = Answered(c.request, c.key, c.answer)
  /\ c.answer.status = "created" => c.answer.body = c.request /\ c.request \in skills
  /\ c.answer = Refused("skill_already_exists") => c.request.skill \in Coordinates

Shaped ==
  /\ DOMAIN create = Sessions
  /\ \A s \in Sessions : create[s] = Free \/ Working(create[s]) \/ Done(create[s])

(* Rows come from requests; a record remembers the answer to its request.  *)
Rows ==
  /\ skills \subseteq Request
  /\ \A r \in records : r.key # NoKey /\ r.body = r.request /\ r.request \in skills

(* The advisory lock: of two transactions with one key one waits, and as   *)
(* long as a transaction runs there is no record of its key.               *)
Locked ==
  /\ \A s, t \in Sessions :
       /\ InTransaction(s) /\ InTransaction(t) /\ create[s].key = create[t].key
       => s = t \/ create[s].key = NoKey
  /\ \A s \in Sessions : InTransaction(s) => RecordsOf(create[s].key) = {}

(* The unique constraint: what is inserted and not committed is new.       *)
Inserted(s) == create[s].at = "inserted"
Unique ==
  /\ \A s \in Sessions : Inserted(s) => create[s].request.skill \notin Coordinates
  /\ \A s, t \in Sessions :
       Inserted(s) /\ Inserted(t) /\ create[s].request.skill = create[t].request.skill => s = t

CreationInv == Shaped /\ Rows /\ Locked /\ Unique /\ RetryIsAnswered

(* The invariant holds when nothing was asked for.                         *)
LEMMA CreationStarts ==
  ASSUME CreationInit
  PROVE  CreationInv
  BY DEF CreationInit, CreationInv, Shaped, Rows, Locked, Unique, RetryIsAnswered,
         InTransaction, Inserted, Free

(* Nothing is known of the sessions a step is not about but what was.      *)
LEMMA CreationIdles ==
  ASSUME CreationInv, UNCHANGED creation
  PROVE  CreationInv'
  BY DEF creation, CreationInv, Shaped, Working, Done, Answered, Rows, Locked, Unique,
         RetryIsAnswered, InTransaction, Inserted, RecordsOf, Coordinates

(* A step that gives one session an answer, or takes it back, and leaves   *)
(* the tables alone.                                                       *)
LEMMA EndsWell ==
  ASSUME CreationInv, NEW s \in Sessions, NEW c, UNCHANGED tables,
         create' = [create EXCEPT ![s] = c],
         c = Free \/ Done(c),
         \/ c = Free
         \/ c.answer # Refused("skill_already_exists")
         \/ RecordsOf(c.key) = {}
  PROVE  CreationInv'
  <1>1. /\ DOMAIN create' = Sessions /\ create'[s] = c
        /\ \A t \in Sessions \ {s} : create'[t] = create[t]
    BY DEF CreationInv, Shaped
  <1>2. c = Free \/ c.at = "answered"
    BY DEF Done, Answered
  <1>3. ~InTransaction(s)' /\ ~Inserted(s)'
    BY <1>1, <1>2 DEF InTransaction, Inserted, Free
  <1>4. Coordinates' = Coordinates /\ \A key : RecordsOf(key)' = RecordsOf(key)
    BY DEF tables, Coordinates, RecordsOf
  <1>5. Shaped'
    BY <1>1, <1>4 DEF CreationInv, Shaped, Working, Done, tables
  <1>6. Rows'
    BY DEF CreationInv, Rows, tables
  <1>7. Locked'
    BY <1>1, <1>3, <1>4 DEF CreationInv, Locked, InTransaction
  <1>8. Unique'
    BY <1>1, <1>3, <1>4 DEF CreationInv, Unique, Inserted
  <1>9. RetryIsAnswered'
    <2> SUFFICES ASSUME NEW t \in Sessions, create'[t].at = "answered",
                        create'[t].answer = Refused("skill_already_exists"),
                        NEW r \in records, r.key = create'[t].key
                 PROVE  r.request # create'[t].request
      BY <1>4 DEF RetryIsAnswered, RecordsOf, tables
    <2>0. r \in RecordsOf(create'[t].key)
      BY DEF RecordsOf
    <2>1. CASE t = s
      <3>1. c # Free
        BY <1>1, <2>1 DEF Free
      <3> QED BY <1>1, <2>0, <2>1, <3>1
    <2>2. CASE t # s
      BY <1>1, <2>0, <2>2 DEF CreationInv, RetryIsAnswered
    <2> QED BY <2>1, <2>2
  <1> QED BY <1>5, <1>6, <1>7, <1>8, <1>9 DEF CreationInv

(* Whatever the key was looked up for.                                     *)
LEMMA ReceiveKeeps ==
  ASSUME CreationInv, NEW s \in Sessions, NEW request \in Request, NEW key,
         Receive(s, request, key)
  PROVE  CreationInv'
  <1>1. CASE Replay(s, request, key)
    <2>1. PICK r \in RecordsOf(key) :
            /\ SameRequest(r, request)
            /\ create' = [create EXCEPT ![s] = Answered(request, key, Created(r.body))]
      BY <1>1 DEF Replay
    <2>2. r.body = request /\ request \in skills
      BY <2>1 DEF CreationInv, Rows, RecordsOf, SameRequest
    <2>3. Done(Answered(request, key, Created(r.body)))
      BY <2>2 DEF Done, Answered, Created, Refused
    <2>4. Answered(request, key, Created(r.body)).answer # Refused("skill_already_exists")
      BY DEF Answered, Created, Refused
    <2> QED BY <1>1, <2>1, <2>3, <2>4, EndsWell DEF Replay
  <1>2. CASE RefuseReuse(s, request, key)
    <2>1. Done(Answered(request, key, Refused("key_reused")))
      BY DEF Done, Answered, Refused
    <2>2. Answered(request, key, Refused("key_reused")).answer # Refused("skill_already_exists")
      BY DEF Answered, Refused
    <2> QED BY <1>2, <2>1, <2>2, EndsWell DEF RefuseReuse
  <1>3. CASE Look(s, request, key)
    <2> DEFINE c == [at |-> "looked", request |-> request, key |-> key,
                     known |-> request.skill.namespace \in namespaces]
    <2>1. /\ DOMAIN create' = Sessions /\ create'[s] = c
          /\ \A t \in Sessions \ {s} : create'[t] = create[t]
      BY <1>3 DEF Look, CreationInv, Shaped
    <2>2. Working(c) /\ c.at = "looked" /\ c.key = key
      BY DEF Working
    <2> HIDE DEF c
    <2>3. /\ UNCHANGED tables
          /\ Coordinates' = Coordinates /\ \A k : RecordsOf(k)' = RecordsOf(k)
      BY <1>3 DEF Look, tables, Coordinates, RecordsOf
    <2>4. Shaped'
      BY <2>1, <2>2, <2>3 DEF CreationInv, Shaped, Working, Done, tables
    <2>5. Rows'
      BY <2>3 DEF CreationInv, Rows, tables
    <2>6. Locked'
      BY <1>3, <2>1, <2>2, <2>3 DEF CreationInv, Locked, InTransaction, Look, LockFree
    <2>7. Unique'
      BY <2>1, <2>2, <2>3 DEF CreationInv, Unique, Inserted
    <2>8. RetryIsAnswered'
      BY <2>1, <2>2, <2>3 DEF CreationInv, RetryIsAnswered
    <2> QED BY <2>4, <2>5, <2>6, <2>7, <2>8 DEF CreationInv
  <1> QED BY <1>1, <1>2, <1>3 DEF Receive

(* The transaction ends with its answer.                                   *)
LEMMA AnswerSentKeeps ==
  ASSUME CreationInv, NEW s \in Sessions, AnswerSent(s)
  PROVE  CreationInv'
  BY EndsWell DEF AnswerSent

(* A transaction that fails is no longer in the way of anybody.            *)
LEMMA FailKeeps ==
  ASSUME CreationInv, NEW s \in Sessions, InTransaction(s), UNCHANGED tables,
         NEW code \in {"skill_already_exists", "server_error"}, Fail(s, code),
         code = "skill_already_exists" => create[s].request.skill \in Coordinates
  PROVE  CreationInv'
  <1> DEFINE c == Answered(create[s].request, create[s].key, Refused(code))
  <1>1. Done(c)
    BY DEF Done, Answered, Refused
  <1>2. RecordsOf(c.key) = {}
    BY DEF CreationInv, Locked, Answered
  <1>3. create' = [create EXCEPT ![s] = c]
    BY DEF Fail
  <1> HIDE DEF c
  <1> QED BY <1>1, <1>2, <1>3, EndsWell

(* The flush, judged by both unique constraints.                           *)
LEMMA InsertKeeps ==
  ASSUME CreationInv, NEW s \in Sessions, Insert(s)
  PROVE  CreationInv'
  <1>1. /\ DOMAIN create' = Sessions /\ create'[s] = [create[s] EXCEPT !.at = "inserted"]
        /\ \A t \in Sessions \ {s} : create'[t] = create[t]
    BY DEF Insert, CreationInv, Shaped
  <1>2. Working(create[s])
    BY DEF Insert, CreationInv, Shaped, Done, Answered, Free
  <1>3. /\ Working(create'[s]) /\ create'[s].at = "inserted"
        /\ create'[s].request = create[s].request /\ create'[s].key = create[s].key
    BY <1>1, <1>2 DEF Working
  <1>4. /\ UNCHANGED tables
        /\ Coordinates' = Coordinates /\ \A k : RecordsOf(k)' = RecordsOf(k)
    BY DEF Insert, tables, Coordinates, RecordsOf
  <1>5. Shaped'
    BY <1>1, <1>3, <1>4 DEF CreationInv, Shaped, Working, Done, tables
  <1>6. Rows'
    BY <1>4 DEF CreationInv, Rows, tables
  <1>7. Locked'
    BY <1>1, <1>3, <1>4 DEF CreationInv, Locked, InTransaction, Insert
  <1>8. Unique'
    BY <1>1, <1>3, <1>4 DEF CreationInv, Unique, Inserted, Insert, Unblocked
  <1>9. RetryIsAnswered'
    <2>1. \A t \in Sessions : create'[t].at = "answered" => create'[t] = create[t]
      BY <1>1, <1>3
    <2>2. records' = records
      BY <1>4 DEF tables
    <2> QED BY <2>1, <2>2 DEF CreationInv, RetryIsAnswered, RecordsOf
  <1> QED BY <1>5, <1>6, <1>7, <1>8, <1>9 DEF CreationInv

(* The new record is of a skill that was new: nobody who was told that his *)
(* skill exists already asked for the same.                                *)
LEMMA CommitKeeps ==
  ASSUME CreationInv, NEW s \in Sessions, CommitCreation(s)
  PROVE  CreationInv'
  <1> DEFINE request == create[s].request
             key == create[s].key
  <1>0. PICK c : c = Answered(request, key, Created(request))
    OBVIOUS
  <1>1. /\ DOMAIN create' = Sessions /\ create'[s] = c
        /\ \A t \in Sessions \ {s} : create'[t] = create[t]
    BY <1>0 DEF CommitCreation, CreationInv, Shaped
  <1>2. request \in Request /\ Inserted(s) /\ InTransaction(s)
    BY DEF CommitCreation, CreationInv, Shaped, Working, Done, Answered, Free, Inserted,
           InTransaction
  <1>3. /\ skills' = skills \cup {request}
        /\ records' = IF key = NoKey THEN records
                      ELSE records \cup {[key |-> key, request |-> request, body |-> request]}
    BY DEF CommitCreation
  <1>4. Coordinates' = Coordinates \cup {request.skill}
    BY <1>3 DEF Coordinates
  <1>5. c.at = "answered" /\ c.request = request /\ c.key = key /\ c.answer = Created(request)
    BY <1>0 DEF Answered
  <1>6. Done(c)'
    BY <1>0, <1>3, <1>5 DEF Done, Answered, Created, Refused
  <1>7. \A t \in Sessions : InTransaction(t)' => t # s /\ InTransaction(t)
    BY <1>1, <1>5 DEF InTransaction
  <1>8. Shaped'
    <2>1. ASSUME NEW t \in Sessions \ {s}
          PROVE  create'[t] = Free \/ Working(create'[t]) \/ Done(create[t])'
      BY <1>1, <1>3, <1>4 DEF CreationInv, Shaped, Done
    <2> QED BY <1>1, <1>6, <2>1 DEF Shaped, Working, Done
  <1>9. Rows'
    BY <1>2, <1>3 DEF CreationInv, Rows
  <1>10. Locked'
    <2>1. \A t \in Sessions : InTransaction(t)' => create[t].key # key \/ key = NoKey
      BY <1>2, <1>7 DEF CreationInv, Locked
    <2>2. \A t \in Sessions : InTransaction(t)' => {r \in records' : r.key = create'[t].key} = {}
      BY <1>1, <1>3, <1>7, <2>1 DEF CreationInv, Locked, RecordsOf
    <2> QED BY <1>1, <1>7, <2>2 DEF CreationInv, Locked, RecordsOf
  <1>11. Unique'
    BY <1>1, <1>2, <1>4, <1>5 DEF CreationInv, Unique, Inserted
  <1>12. RetryIsAnswered'
    <2> SUFFICES ASSUME NEW t \in Sessions, create'[t].at = "answered",
                        create'[t].answer = Refused("skill_already_exists"),
                        NEW r \in records', r.key = create'[t].key
                 PROVE  r.request # create'[t].request
      BY DEF RetryIsAnswered, RecordsOf
    <2>1. t # s
      BY <1>1, <1>5 DEF Created, Refused
    <2>2. create'[t] = create[t]
      BY <1>1, <2>1
    <2>3. CASE r \in records
      BY <2>2, <2>3 DEF CreationInv, RetryIsAnswered, RecordsOf
    <2>4. CASE r \notin records
      <3>1. r.request = request
        BY <1>3, <2>4
      <3>2. create[t].request.skill \in Coordinates
        BY <2>2 DEF CreationInv, Shaped, Working, Done, Free
      <3>3. request.skill \notin Coordinates
        BY <1>2 DEF CreationInv, Unique
      <3> QED BY <2>2, <3>1, <3>2, <3>3
    <2> QED BY <2>3, <2>4
  <1> QED BY <1>8, <1>9, <1>10, <1>11, <1>12 DEF CreationInv

(* Every step of create_skill keeps the invariant.                         *)
LEMMA CreationKeeps ==
  ASSUME CreationInv, NEW s \in Sessions, CreationAction(s)
  PROVE  CreationInv'
  <1>1. CASE \E request \in Request : \E key : Receive(s, request, key)
    BY <1>1, ReceiveKeeps
  <1>2. CASE AnswerSent(s)
    BY <1>2, AnswerSentKeeps
  <1>3. CASE Insert(s)
    BY <1>3, InsertKeeps
  <1>4. CASE SkillExists(s)
    BY <1>4, FailKeeps DEF SkillExists, InTransaction
  <1>5. CASE NamespaceExists(s)
    BY <1>5, FailKeeps DEF NamespaceExists, InTransaction
  <1>6. CASE CommitCreation(s)
    BY <1>6, CommitKeeps
  <1>7. CASE RollBackCreation(s)
    BY <1>7, FailKeeps DEF RollBackCreation
  <1> QED BY <1>1, <1>2, <1>3, <1>4, <1>5, <1>6, <1>7 DEF CreationAction, CreationStep

(* The invariant implies both promises to the client.                      *)
LEMMA CreationPromises ==
  ASSUME CreationInv
  PROVE  AnswerNamesSkill /\ RetryIsAnswered
  <1>1. AnswerNamesSkill
    BY DEF CreationInv, Shaped, Working, Done, Free, AnswerNamesSkill
  <1> QED BY <1>1 DEF CreationInv

-----------------------------------------------------------------------------
(* The script.                                                             *)

(* What the runs carry: a run that has hashed its file stands by a digest,  *)
(* and knows the layout behind it only if the file was not rebuilt.        *)
NotHashed == {"idle", "read", "scanned"}
Running(x) == script[x].at \notin NotHashed
Prepared(run) ==
  \/ run = NoScript
  \/ run \in Reading /\ run.top \in Rooted
  \/ /\ {"at", "job", "sha", "steady", "target"} \subseteq DOMAIN run
     /\ run.at \notin NotHashed
     /\ run.job \in Jobs /\ run.sha \in Packages /\ run.target \in Skills
     /\ run.steady \in BOOLEAN /\ (run.steady => run.sha \in Rooted)
     /\ run.at = "wait" => run.session \in Sessions
RunsPrepared == DOMAIN script = Scripts /\ \A x \in Scripts : Prepared(script[x])

(* The statuses of a version whose scan passed.                            *)
Passed == {"draft", "submitted", "approved", "rejected", "published", "deprecated"}
Vetted == \A r \in Releases : releases[r].status \in Passed => releases[r].stored \in Sound

(* What a run relies on from its upload on: nobody replaces the bytes that *)
(* are stored, or the signature; and later that their scan passed.         *)
Uploaded == {"finalize", "scan", "submit", "approve", "publish"}
Judging == {"submit", "approve", "publish"}
Holds(x) ==
  /\ script[x].at \in Uploaded =>
       /\ releases[Target(x)].status \notin {"none", "created"}
       /\ releases[Target(x)].stored = script[x].sha
  /\ script[x].at \in Judging =>
       releases[Target(x)].signed /\ releases[Target(x)].status \in Passed
RunsHold == \A x \in Scripts : Holds(x)

(* What a run has reported.                                                *)
Reportable(d) ==
  /\ d \in [release : Releases, sha : Packages, steady : BOOLEAN]
  /\ d.steady => d.sha \in Rooted

(* The inductive invariant.                                                *)
IInv ==
  /\ CreationInv
  /\ RunsHold
  /\ releases \in [Releases -> Release]
  /\ Vetted
  /\ RunsPrepared
  /\ \A d \in reported : Reportable(d) /\ Serves(d.release, d.sha)

(* What any step of the API or the worker does to the releases.            *)
Kept(r) ==
  /\ releases[r].status # "none" => releases'[r].signed = releases[r].signed
  /\ releases[r].status \notin {"none", "created"} =>
       /\ releases'[r].status \notin {"none", "created"}
       /\ releases'[r].stored = releases[r].stored
  /\ releases[r].status \in Passed => releases'[r].status \in Passed
  /\ releases'[r].status \in Passed =>
       releases[r].status \in Passed \/ releases'[r].stored \in Sound
  /\ releases[r].status \in {"published", "deprecated"} =>
       releases'[r].status \in {"published", "deprecated"}
Evolves == releases' \in [Releases -> Release] /\ \A r \in Releases : Kept(r)

(* A released version stays released, and one that passed its scan passed. *)
LEMMA BecomesEvolves ==
  ASSUME releases \in [Releases -> Release], NEW r, NEW status \in Statuses,
         Becomes(r, status),
         releases[r].status \notin {"none", "created"}, status \notin {"none", "created"},
         releases[r].status \in Passed => status \in Passed,
         status \in Passed => releases[r].status \in Passed \/ releases[r].stored \in Sound,
         releases[r].status \in {"published", "deprecated"} =>
           status \in {"published", "deprecated"}
  PROVE  Evolves
  BY DEF Evolves, Kept, Becomes, Release

(* No handler changes bytes, signature or a release, whoever calls it.     *)
LEMMA ServedEvolves ==
  ASSUME releases \in [Releases -> Release], NEW r,
         \/ \E p \in Packages, signed \in BOOLEAN : CreateUpload(r, p, signed)
         \/ \E p \in Packages : PutContent(r, p)
         \/ Finalize(r) \/ Scan(r) \/ Submit(r)
         \/ \E decision \in {"approved", "rejected"} : Decide(r, decision)
         \/ \E labelled \in BOOLEAN : Publish(r, labelled)
         \/ MoveLabel(r) \/ Deprecate(r)
  PROVE  Evolves
  <1>1. ASSUME NEW p \in Packages, NEW signed \in BOOLEAN, CreateUpload(r, p, signed)
        PROVE  Evolves
    BY <1>1 DEF CreateUpload, Unclaimed, Evolves, Kept, Release, Statuses, Passed
  <1>2. ASSUME NEW p \in Packages, PutContent(r, p)
        PROVE  Evolves
    <2>1. /\ releases[r].status \in {"created", "uploaded"}
          /\ releases' = [releases EXCEPT ![r].status = "uploaded", ![r].stored = p]
      BY <1>2 DEF PutContent
    <2>2. CASE r \notin Releases
      <3>1. releases' = releases
        BY <2>1, <2>2
      <3> QED BY <3>1 DEF Evolves, Kept
    <2>3. CASE r \in Releases
      <3> DEFINE new == [releases[r] EXCEPT !.status = "uploaded", !.stored = p]
      <3>1. releases' = [releases EXCEPT ![r] = new]
        BY <2>1, <2>3
      <3>2. releases[r] \in Release
        BY <2>3
      <3>3. new \in Release
        BY <3>2 DEF Release, Statuses
      <3>4. /\ new.status = "uploaded" /\ new.signed = releases[r].signed
            /\ releases[r].status = "uploaded" => new.stored = releases[r].stored
        BY <1>2, <3>2 DEF PutContent, Release
      <3> HIDE DEF new
      <3>5. releases'[r] = new /\ \A q \in Releases \ {r} : releases'[q] = releases[q]
        BY <2>3, <3>1
      <3>6. Kept(r)
        BY <2>1, <3>4, <3>5 DEF Kept, Passed
      <3>7. \A q \in Releases \ {r} : Kept(q)
        BY <3>5 DEF Kept
      <3> QED BY <3>1, <3>3, <3>6, <3>7 DEF Evolves
    <2> QED BY <2>2, <2>3
  <1>3. CASE Finalize(r)
    <2>1. CASE UNCHANGED releases
      BY <2>1 DEF Evolves, Kept
    <2>2. CASE releases[r].status = "uploaded" /\ Becomes(r, "pending_scan")
      BY <2>2, BecomesEvolves DEF Statuses, Passed
    <2> QED BY <1>3, <2>1, <2>2 DEF Finalize
  <1>4. CASE Scan(r)
    BY <1>4, BecomesEvolves DEF Scan, Statuses, Passed
  <1>5. CASE Submit(r)
    BY <1>5, BecomesEvolves DEF Submit, Statuses, Passed
  <1>6. ASSUME NEW decision \in {"approved", "rejected"}, Decide(r, decision)
        PROVE  Evolves
    BY <1>6, BecomesEvolves DEF Decide, Statuses, Passed
  <1>7. ASSUME NEW labelled \in BOOLEAN, Publish(r, labelled)
        PROVE  Evolves
    BY <1>7, BecomesEvolves DEF Publish, Statuses, Passed
  <1>8. CASE MoveLabel(r)
    BY <1>8 DEF MoveLabel, Evolves, Kept
  <1>9. CASE Deprecate(r)
    BY <1>9, BecomesEvolves DEF Deprecate, Statuses, Passed
  <1> QED BY <1>1, <1>2, <1>3, <1>4, <1>5, <1>6, <1>7, <1>8, <1>9

(* What is served stays served.                                            *)
LEMMA ServedForGood ==
  ASSUME Evolves, NEW r \in Releases, NEW p, Serves(r, p)
  PROVE  Serves(r, p)'
  BY DEF Evolves, Kept, Serves

(* A step that leaves the runs as they must be and lets the releases       *)
(* evolve keeps the invariant, as long as it reports only what is served.  *)
LEMMA Keeps ==
  ASSUME IInv, CreationInv', Evolves, RunsPrepared', RunsHold',
         \A d \in reported' : d \in reported \/
           (Reportable(d) /\ Serves(d.release, d.sha))
  PROVE  IInv'
  <1>1. releases' \in [Releases -> Release]
    BY DEF Evolves
  <1>2. \A d \in reported' : Reportable(d) /\ Serves(d.release, d.sha)
    BY DEF IInv
  <1>3. \A d \in reported' : Reportable(d)' /\ Serves(d.release, d.sha)'
    <2> SUFFICES ASSUME NEW d \in reported'
                 PROVE  Reportable(d)' /\ Serves(d.release, d.sha)'
      OBVIOUS
    <2>1. Reportable(d) /\ Serves(d.release, d.sha) /\ d.release \in Releases
      BY <1>2 DEF Reportable
    <2> QED BY <2>1, ServedForGood DEF Reportable
  <1>4. Vetted'
    BY DEF IInv, Vetted, Evolves, Kept, Passed
  <1> QED BY <1>1, <1>3, <1>4 DEF IInv

(* A step that leaves the releases alone.                                  *)
LEMMA Unchanging ==
  ASSUME IInv, UNCHANGED releases
  PROVE  Evolves
  BY DEF IInv, Evolves, Kept

(* A run works for the arguments it was given and on a release there is.   *)
LEMMA Arguments ==
  ASSUME RunsPrepared, NEW x \in Scripts, Running(x)
  PROVE  /\ {"at", "job", "sha", "steady", "target"} \subseteq DOMAIN script[x]
         /\ script[x].job \in Jobs /\ script[x].sha \in Packages /\ script[x].target \in Skills
         /\ script[x].steady \in BOOLEAN /\ (script[x].steady => script[x].sha \in Rooted)
         /\ Named(x) \in Releases /\ Target(x) \in Releases
  <1>1. Prepared(script[x]) /\ script[x] # NoScript /\ script[x] \notin Reading
    BY DEF RunsPrepared, Running, NotHashed, NoScript, Reading
  <1> QED BY <1>1, JobsAssumption DEF Prepared, Named, Target, Releases, Versions

(* What a run holds it goes on holding, whoever makes a step.              *)
LEMMA GoesOnHolding ==
  ASSUME IInv, Evolves, NEW x \in Scripts, UNCHANGED script[x]
  PROVE  Holds(x)'
  <1>1. CASE ~Running(x)
    BY <1>1 DEF Holds, Running, NotHashed, Uploaded, Judging
  <1>2. CASE Running(x)
    <2>1. Target(x) \in Releases
      BY <1>2, Arguments DEF IInv
    <2>2. Kept(Target(x)) /\ Holds(x)
      BY <2>1 DEF Evolves, IInv, RunsHold
    <2>3. Target(x)' = Target(x)
      BY DEF Target
    <2> QED BY <2>2, <2>3 DEF Kept, Holds, Uploaded, Judging
  <1> QED BY <1>1, <1>2

(* A run whose record is replaced.                                         *)
LEMMA Replaced ==
  ASSUME IInv, Evolves, NEW x \in Scripts, NEW run, Prepared(run),
         script' = [script EXCEPT ![x] = run], Holds(x)'
  PROVE  RunsPrepared' /\ RunsHold'
  <1>1. /\ DOMAIN script' = Scripts /\ script'[x] = run
        /\ \A y \in Scripts \ {x} : script'[y] = script[y]
    BY DEF IInv, RunsPrepared
  <1>2. RunsPrepared'
    BY <1>1 DEF IInv, RunsPrepared, Prepared
  <1>3. \A y \in Scripts \ {x} : Holds(y)'
    BY <1>1, GoesOnHolding
  <1> QED BY <1>2, <1>3 DEF RunsHold

(* A run that ends has nothing to keep.                                    *)
LEMMA Ends ==
  ASSUME IInv, Evolves, NEW x \in Scripts, Gone(x)
  PROVE  RunsPrepared' /\ RunsHold'
  <1>1. script' = [script EXCEPT ![x] = NoScript] /\ script'[x] = NoScript
    BY DEF Gone, IInv, RunsPrepared
  <1>2. Holds(x)'
    BY <1>1 DEF Holds, NoScript, Uploaded, Judging
  <1> QED BY <1>1, <1>2, Replaced DEF Prepared

(* A run that goes on keeps its arguments, and one that ends has none.     *)
LEMMA GoesOn ==
  ASSUME IInv, Evolves, NEW x \in Scripts, Running(x),
         NEW step, step \notin {"wait"} \cup NotHashed,
         Goes(x, step) \/ Gone(x),
         step \in Uploaded =>
           /\ releases'[Target(x)].status \notin {"none", "created"}
           /\ releases'[Target(x)].stored = script[x].sha,
         step \in Judging =>
           releases'[Target(x)].signed /\ releases'[Target(x)].status \in Passed
  PROVE  RunsPrepared' /\ RunsHold'
  <1>1. CASE Goes(x, step)
    <2> DEFINE run == [script[x] EXCEPT !.at = step]
    <2>1. /\ {"at", "job", "sha", "steady", "target"} \subseteq DOMAIN script[x]
          /\ script[x].job \in Jobs /\ script[x].sha \in Packages /\ script[x].target \in Skills
          /\ script[x].steady \in BOOLEAN /\ (script[x].steady => script[x].sha \in Rooted)
      BY Arguments DEF IInv
    <2>2. /\ run.at = step /\ run.job = script[x].job /\ run.steady = script[x].steady
          /\ run.sha = script[x].sha /\ run.target = script[x].target
          /\ DOMAIN run = DOMAIN script[x]
      BY <2>1
    <2>3. Prepared(run)
      BY <2>1, <2>2 DEF Prepared
    <2>4. script' = [script EXCEPT ![x] = run] /\ script'[x] = run
      BY <1>1 DEF Goes, IInv, RunsPrepared
    <2>5. Target(x)' = Target(x)
      BY <2>2, <2>4 DEF Target
    <2>6. Holds(x)'
      BY <2>2, <2>4, <2>5 DEF Holds
    <2> HIDE DEF run
    <2> QED BY <2>3, <2>4, <2>6, Replaced
  <1>2. CASE Gone(x)
    BY <1>2, Ends
  <1> QED BY <1>1, <1>2

(* What a run holds after a step that evolves.                             *)
LEMMA StillHeld ==
  ASSUME IInv, Evolves, NEW x \in Scripts, script[x].at \in Uploaded
  PROVE  /\ Running(x)
         /\ releases'[Target(x)].status \notin {"none", "created"}
         /\ releases'[Target(x)].stored = script[x].sha
         /\ script[x].at \in Judging =>
              releases'[Target(x)].signed /\ releases'[Target(x)].status \in Passed
  <1>1. Running(x)
    BY DEF Running, NotHashed, Uploaded
  <1>2. Target(x) \in Releases
    BY <1>1, Arguments DEF IInv
  <1>3. Kept(Target(x)) /\ Holds(x)
    BY <1>2 DEF Evolves, IInv, RunsHold
  <1> QED BY <1>1, <1>3 DEF Kept, Holds

(* The file that is sent may be another one by now: the run goes on only   *)
(* with the bytes it hashed.                                               *)
LEMMA PutsWhatItHashed ==
  ASSUME IInv, NEW x \in Scripts, ScriptPuts(x)
  PROVE  Evolves /\ RunsPrepared' /\ RunsHold'
  <1> DEFINE t == Target(x)
  <1>1. Evolves
    BY ServedEvolves DEF ScriptPuts, IInv
  <1>2. Running(x)
    BY DEF ScriptPuts, At, Running, NotHashed
  <1>3. t \in Releases
    BY <1>2, Arguments DEF IInv
  <1>4. CASE releases'[t].stored = script[x].sha
    <2>1. releases'[t].status \notin {"none", "created"}
      BY <1>3 DEF ScriptPuts, PutContent, IInv
    <2>2. Goes(x, "finalize") \/ Gone(x)
      BY <1>4 DEF ScriptPuts, Answers
    <2> QED BY <1>1, <1>2, <1>4, <2>1, <2>2, GoesOn DEF Judging, NotHashed
  <1>5. CASE releases'[t].stored # script[x].sha
    <2>1. Goes(x, "put") \/ Gone(x)
      BY <1>5 DEF ScriptPuts
    <2> QED BY <1>1, <1>2, <2>1, GoesOn DEF Uploaded, Judging, NotHashed
  <1> QED BY <1>1, <1>4, <1>5

(* The calls of the script are those anybody makes.                        *)
LEMMA CallsEvolve ==
  ASSUME IInv, NEW x \in Scripts,
         \/ ScriptCreatesUpload(x) \/ ScriptPuts(x) \/ ScriptFinalizes(x)
         \/ ScriptSubmits(x) \/ ScriptApproves(x) \/ ScriptPublishes(x)
  PROVE  Evolves /\ RunsPrepared' /\ RunsHold'
  <1>0. releases \in [Releases -> Release] /\ RunsPrepared
    BY DEF IInv
  <1>1. CASE ScriptCreatesUpload(x)
    <2>1. script[x].sha \in Packages
      BY <1>0, <1>1, Arguments DEF ScriptCreatesUpload, At, Running, NotHashed
    <2>2. Evolves
      BY <1>0, <1>1, <2>1, ServedEvolves DEF ScriptCreatesUpload
    <2> QED BY <1>1, <2>2, GoesOn DEF ScriptCreatesUpload, At, Answers, Uploaded,
       Judging, Running, NotHashed
  <1>2. CASE ScriptPuts(x)
    BY <1>2, PutsWhatItHashed
  <1>3. CASE ScriptFinalizes(x)
    <2>1. Evolves
      BY <1>0, <1>3, ServedEvolves DEF ScriptFinalizes
    <2>2. script[x].at = "finalize" /\ (Goes(x, "scan") \/ Gone(x))
      BY <1>3 DEF ScriptFinalizes, At, Answers
    <2> QED BY <2>1, <2>2, StillHeld, GoesOn DEF Uploaded, Judging, NotHashed
  <1>4. CASE ScriptSubmits(x)
    <2>1. Evolves
      BY <1>0, <1>4, ServedEvolves DEF ScriptSubmits
    <2>2. script[x].at = "submit" /\ (Goes(x, "approve") \/ Gone(x))
      BY <1>4 DEF ScriptSubmits, At, Answers
    <2> QED BY <2>1, <2>2, StillHeld, GoesOn DEF Uploaded, Judging, NotHashed
  <1>5. CASE ScriptApproves(x)
    <2>1. Evolves
      BY <1>0, <1>5, ServedEvolves DEF ScriptApproves
    <2>2. script[x].at = "approve" /\ (Goes(x, "publish") \/ Gone(x))
      BY <1>5 DEF ScriptApproves, At, Answers
    <2> QED BY <2>1, <2>2, StillHeld, GoesOn DEF Uploaded, Judging, NotHashed
  <1>6. CASE ScriptPublishes(x)
    <2>1. Evolves
      BY <1>0, <1>6, ServedEvolves DEF ScriptPublishes
    <2> QED BY <1>6, <2>1, GoesOn DEF ScriptPublishes, At, Answers, Uploaded,
       Judging, Running, NotHashed
  <1> QED BY <1>1, <1>2, <1>3, <1>4, <1>5, <1>6

(* The steps of a run between its calls, and its requests for a skill.     *)
RunStep(x) ==
  \/ \E j \in Jobs, p \in Packages : ReadFrontmatter(x, j, p)
  \/ \E p \in Packages : ScanFile(x, p) \/ HashFile(x, p)
  \/ LookAbsent(x) \/ LookFresh(x) \/ LookPublished(x)
  \/ \E s \in Sessions : RequestCreate(x, s)
  \/ TakeAnswer(x) \/ PollScan(x) \/ VerifyVersion(x) \/ VerifyLabel(x) \/ Stop(x)

(* A run that is answered goes on with the skill of the answer.            *)
LEMMA AnswerIsSkill ==
  ASSUME IInv, NEW s \in Sessions, create[s].at = "answered",
         create[s].answer.status = "created"
  PROVE  SkillOf(create[s].answer) \in Skills
  <1>1. AnswerNamesSkill /\ Rows
    BY CreationPromises DEF IInv, CreationInv
  <1> QED BY <1>1 DEF AnswerNamesSkill, Rows, Request, SkillOf

(* The steps of a run that change no release.                              *)
LEMMA RunsGoOn ==
  ASSUME IInv, NEW x \in Scripts, RunStep(x)
  PROVE  RunsPrepared' /\ RunsHold' /\ UNCHANGED <<releases, reported>>
  <1>0. UNCHANGED <<releases, reported>>
    BY DEF RunStep, ReadFrontmatter, ScanFile, HashFile, LookAbsent, LookFresh,
           LookPublished, RequestCreate,
           TakeAnswer, PollScan, VerifyVersion, VerifyLabel, Stop, served
  <1>00. Evolves /\ RunsPrepared /\ DOMAIN script = Scripts
    BY <1>0, Unchanging DEF IInv, RunsPrepared
  <1>1. ASSUME NEW p \in Packages,
               \/ \E j \in Jobs : ReadFrontmatter(x, j, p)
               \/ ScanFile(x, p) \/ HashFile(x, p)
        PROVE  RunsPrepared' /\ RunsHold'
    <2>1. ASSUME NEW j \in Jobs, ReadFrontmatter(x, j, p)
          PROVE  RunsPrepared' /\ RunsHold'
      <3> DEFINE run == [at |-> "read", job |-> j, top |-> p]
      <3>1. Prepared(run) /\ run.at = "read"
        BY <2>1 DEF ReadFrontmatter, Prepared, Reading
      <3>2. script' = [script EXCEPT ![x] = run]
        BY <2>1 DEF ReadFrontmatter
      <3> HIDE DEF run
      <3>3. Holds(x)'
        BY <1>00, <3>1, <3>2 DEF Holds, Uploaded, Judging
      <3> QED BY <1>00, <3>1, <3>2, <3>3, Replaced
    <2>2. CASE ScanFile(x, p)
      <3> DEFINE run == [script[x] EXCEPT !.at = "scanned"]
      <3>1. script[x] \in Reading /\ script[x].top \in Rooted
        BY <1>00, <2>2 DEF ScanFile, At, RunsPrepared, Prepared, NoScript, NotHashed
      <3>2. Prepared(run) /\ run.at = "scanned"
        BY <3>1 DEF Prepared, Reading
      <3>3. script' = [script EXCEPT ![x] = run]
        BY <2>2 DEF ScanFile, Goes
      <3> HIDE DEF run
      <3>4. Holds(x)'
        BY <1>00, <3>2, <3>3 DEF Holds, Uploaded, Judging
      <3> QED BY <1>00, <3>2, <3>3, <3>4, Replaced
    <2>3. CASE HashFile(x, p)
      <3> DEFINE run == [at |-> "look", job |-> script[x].job, sha |-> p,
                         steady |-> p = script[x].top, target |-> script[x].job.skill]
      <3>1. script[x] \in Reading /\ script[x].top \in Rooted
        BY <1>00, <2>3 DEF HashFile, At, RunsPrepared, Prepared, NoScript, NotHashed
      <3>2. Prepared(run) /\ run.at = "look"
        BY <3>1, JobsAssumption DEF Prepared, Reading, NotHashed
      <3>3. script' = [script EXCEPT ![x] = run]
        BY <2>3 DEF HashFile
      <3> HIDE DEF run
      <3>4. Holds(x)'
        BY <1>00, <3>2, <3>3 DEF Holds, Uploaded, Judging
      <3> QED BY <1>00, <3>2, <3>3, <3>4, Replaced
    <2> QED BY <1>1, <2>1, <2>2, <2>3
  <1>2. CASE LookAbsent(x)
    BY <1>0, <1>00, <1>2, GoesOn DEF LookAbsent, At, Uploaded,
       Judging, Running, NotHashed
  <1>3. CASE LookFresh(x)
    BY <1>0, <1>00, <1>3, GoesOn DEF LookFresh, At, Uploaded,
       Judging, Running, NotHashed
  <1>4. CASE LookPublished(x)
    BY <1>0, <1>00, <1>4, GoesOn DEF LookPublished, At, Uploaded,
       Judging, Running, NotHashed
  <1>5. ASSUME NEW s \in Sessions, RequestCreate(x, s)
        PROVE  RunsPrepared' /\ RunsHold'
    <2> DEFINE run == [at |-> "wait", job |-> script[x].job, sha |-> script[x].sha,
                       steady |-> script[x].steady, target |-> script[x].target,
                       session |-> s]
    <2>1. Prepared(run) /\ run.at = "wait"
      BY <1>00, <1>5, Arguments DEF RequestCreate, At, Prepared, Running, NotHashed
    <2>2. script' = [script EXCEPT ![x] = run]
      BY <1>5 DEF RequestCreate
    <2>3. script'[x].at = "wait"
      BY <1>00, <2>2
    <2>4. Holds(x)'
      BY <2>3 DEF Holds, Uploaded, Judging
    <2> HIDE DEF run
    <2> QED BY <1>00, <2>1, <2>2, <2>4, Replaced
  <1>6. CASE TakeAnswer(x)
    <2> DEFINE s == script[x].session
               run == [at |-> "upload", job |-> script[x].job, sha |-> script[x].sha,
                       steady |-> script[x].steady, target |-> SkillOf(create[s].answer)]
    <2>1. s \in Sessions
      BY <1>00, <1>6 DEF TakeAnswer, At, RunsPrepared, Prepared, NoScript, Reading
    <2>2. SkillOf(create[s].answer) \in Skills
      BY <1>6, <2>1, AnswerIsSkill DEF TakeAnswer
    <2>3. Prepared(run) /\ run.at = "upload"
      BY <1>00, <1>6, <2>2, Arguments DEF TakeAnswer, At, Prepared, Running, NotHashed
    <2>4. script' = [script EXCEPT ![x] = run]
      BY <1>6 DEF TakeAnswer
    <2>5. script'[x].at = "upload"
      BY <1>00, <2>4
    <2>6. Holds(x)'
      BY <2>5 DEF Holds, Uploaded, Judging
    <2> HIDE DEF run
    <2> QED BY <1>0, <1>00, <2>3, <2>4, <2>6, Replaced
  <1>7. CASE PollScan(x)
    <2>1. /\ script[x].at = "scan" /\ Goes(x, "submit")
          /\ releases'[Target(x)].signed /\ releases'[Target(x)].status \in Passed
      BY <1>0, <1>7 DEF PollScan, At, Passed
    <2> QED BY <1>0, <1>00, <2>1, StillHeld, GoesOn DEF Uploaded, Judging, NotHashed
  <1>8. CASE VerifyVersion(x)
    BY <1>0, <1>00, <1>8, GoesOn DEF VerifyVersion, At, Uploaded,
       Judging, Running, NotHashed
  <1>9. CASE VerifyLabel(x)
    BY <1>0, <1>00, <1>9, GoesOn DEF VerifyLabel, At, Uploaded,
       Judging, Running, NotHashed
  <1>10. CASE Stop(x)
    BY <1>0, <1>00, <1>10, Ends DEF Stop
  <1> QED BY <1>0, <1>1, <1>2, <1>3, <1>4, <1>5, <1>6, <1>7, <1>8, <1>9, <1>10 DEF RunStep

(* What is reported has just been served.                                  *)
LEMMA ReportKeeps ==
  ASSUME IInv, CreationInv', NEW x \in Scripts, Report(x)
  PROVE  IInv'
  <1>1. RunsPrepared /\ Running(x)
    BY DEF IInv, Report, At, Running, NotHashed
  <1>2. Evolves
    BY Unchanging DEF Report, served
  <1>3. RunsPrepared' /\ RunsHold'
    BY <1>2, Ends DEF Report
  <1> DEFINE new == [release |-> Named(x), sha |-> script[x].sha, steady |-> script[x].steady]
  <1>4. Reportable(new)
    BY <1>1, Arguments DEF Reportable
  <1>5. Serves(new.release, new.sha) /\ reported' = reported \cup {new}
    BY DEF Report
  <1> HIDE DEF new
  <1>6. \A d \in reported' : d \in reported \/ (Reportable(d) /\ Serves(d.release, d.sha))
    BY <1>4, <1>5
  <1> QED BY <1>2, <1>3, <1>6, Keeps

(* The skills are created by the handler of SkillCreation and by it alone. *)
LEMMA CreationStays ==
  ASSUME IInv, [Next]_vars
  PROVE  CreationInv'
  <1>0. CreationInv
    BY DEF IInv
  <1>1. ASSUME NEW x \in Scripts, NEW s \in Sessions, RequestCreate(x, s)
        PROVE  CreationInv'
    <2> DEFINE request == [skill |-> script[x].job.skill, description |-> script[x].job.description]
    <2>1. script[x].job \in Jobs
      BY <1>1, Arguments DEF RequestCreate, At, IInv, Running, NotHashed
    <2>2. request \in Request
      BY <2>1, JobsAssumption DEF Request
    <2>3. Receive(s, request, Key(script[x].job.skill))
      BY <1>1 DEF RequestCreate
    <2> HIDE DEF request
    <2> QED BY <1>0, <2>2, <2>3, ReceiveKeeps
  <1>2. ASSUME NEW x \in Scripts, TakeAnswer(x)
        PROVE  CreationInv'
    <2> DEFINE s == script[x].session
    <2>1. AnswerSent(s)
      BY <1>2 DEF TakeAnswer
    <2>2. s \in Sessions
      BY <1>2 DEF TakeAnswer, At, IInv, RunsPrepared, Prepared, NoScript, Reading
    <2> QED BY <1>0, <2>1, <2>2, AnswerSentKeeps
  <1>3. ASSUME NEW s \in Sessions, OtherCreates(s) \/ Unattended(s) \/ Works(s)
        PROVE  CreationInv'
    <2>1. CreationAction(s)
      BY <1>3 DEF OtherCreates, Unattended, Works, CreationAction
    <2> QED BY <1>0, <2>1, CreationKeeps
  <1>4. CASE UNCHANGED creation
    BY <1>0, <1>4, CreationIdles
  <1>5. ASSUME NEW x \in Scripts, ScriptStep(x)
        PROVE  CreationInv'
    <2>1. CASE \E s \in Sessions : RequestCreate(x, s)
      BY <1>1, <2>1
    <2>2. CASE TakeAnswer(x)
      BY <1>2, <2>2
    <2>3. CASE ~TakeAnswer(x) /\ ~\E s \in Sessions : RequestCreate(x, s)
      <3>1. UNCHANGED creation
        BY <1>5, <2>3 DEF ScriptStep, ReadFrontmatter, ScanFile, HashFile, LookAbsent, LookFresh,
       LookPublished,
           ScriptCreatesUpload, ScriptPuts, ScriptFinalizes, PollScan, ScriptSubmits,
           ScriptApproves, ScriptPublishes, VerifyVersion, VerifyLabel, Report, Stop
      <3> QED BY <1>4, <3>1
    <2> QED BY <2>1, <2>2, <2>3
  <1>6. ASSUME NEW r \in Releases, OtherWork(r)
        PROVE  CreationInv'
    BY <1>4, <1>6 DEF OtherWork
  <1> QED BY <1>3, <1>4, <1>5, <1>6 DEF Next, vars

(* Every step of runs, worker and others keeps the invariant.              *)
LEMMA StepKeeps ==
  ASSUME IInv, [Next]_vars
  PROVE  IInv'
  <1>0. CreationInv' /\ RunsPrepared /\ releases \in [Releases -> Release]
    BY CreationStays DEF IInv
  <1>1. ASSUME NEW x \in Scripts, ScriptStep(x)
        PROVE  IInv'
    <2>1. CASE Report(x)
      BY <1>0, <2>1, ReportKeeps
    <2>2. CASE \/ ScriptCreatesUpload(x) \/ ScriptPuts(x) \/ ScriptFinalizes(x)
               \/ ScriptSubmits(x) \/ ScriptApproves(x) \/ ScriptPublishes(x)
      <3>1. UNCHANGED reported
        BY <2>2 DEF ScriptCreatesUpload, ScriptPuts, ScriptFinalizes, ScriptSubmits,
                    ScriptApproves, ScriptPublishes
      <3> QED BY <1>0, <2>2, <3>1, CallsEvolve, Keeps
    <2>3. CASE RunStep(x)
      BY <1>0, <2>3, RunsGoOn, Unchanging, Keeps
    <2> QED BY <1>1, <2>1, <2>2, <2>3 DEF ScriptStep, RunStep
  <1>2. ASSUME Evolves, UNCHANGED <<script, reported>>
        PROVE  IInv'
    <2>1. RunsPrepared'
      BY <1>0, <1>2 DEF RunsPrepared, Prepared
    <2>2. RunsHold'
      BY <1>2, GoesOnHolding DEF RunsHold
    <2> QED BY <1>0, <1>2, <2>1, <2>2, Keeps
  <1>3. ASSUME NEW s \in Sessions, OtherCreates(s) \/ Unattended(s) \/ Works(s)
        PROVE  IInv'
    <2>1. UNCHANGED <<script, releases, reported>>
      BY <1>3 DEF OtherCreates, Unattended, Works, served
    <2> QED BY <1>2, <2>1, Unchanging
  <1>4. ASSUME NEW r \in Releases, OtherWork(r)
        PROVE  IInv'
    <2>1. Evolves
      BY <1>0, <1>4, ServedEvolves DEF OtherWork
    <2> QED BY <1>2, <1>4, <2>1 DEF OtherWork
  <1>5. CASE UNCHANGED vars
    <2>1. UNCHANGED <<script, releases, reported>>
      BY <1>5 DEF vars
    <2> QED BY <1>2, <2>1, Unchanging
  <1> QED BY <1>1, <1>3, <1>4, <1>5 DEF Next

(* A run holds what it uploaded: the bytes are those it hashed, and from   *)
(* the answer of the scan on they are bytes that passed it.  What it       *)
(* reported stays released with its bytes, rebuilt file or not.            *)
THEOREM ReportedStaysServed == Spec => []IInv
  <1>1. Init => IInv
    <2> SUFFICES ASSUME Init PROVE IInv
      OBVIOUS
    <2>1. CreationInv
      BY CreationStarts DEF Init
    <2>2. RunsPrepared /\ RunsHold
      BY DEF Init, RunsPrepared, Prepared, RunsHold, Holds, Uploaded, Judging, NoScript
    <2>3. releases \in [Releases -> Release]
      BY DEF Init, NoRelease, Release, Statuses
    <2>4. Vetted
      BY DEF Init, NoRelease, Vetted, Passed
    <2> QED BY <2>1, <2>2, <2>3, <2>4 DEF IInv, Init
  <1>2. IInv /\ [Next]_vars => IInv'
    BY StepKeeps
  <1> QED BY <1>1, <1>2, PTL DEF Spec

(* An answer 201 is the row of the skill that was asked for, also when two *)
(* skills share a key.                                                     *)
THEOREM AnswersNameSkills == Spec => []AnswerNamesSkill
  <1>1. IInv => AnswerNamesSkill
    BY CreationPromises DEF IInv
  <1> QED BY <1>1, ReportedStaysServed, PTL

(* Whoever repeats a request whose skill was created is not told that the  *)
(* skill exists already.                                                   *)
THEOREM RetriesAreAnswered == Spec => []RetryIsAnswered
  <1>1. IInv => RetryIsAnswered
    BY CreationPromises DEF IInv
  <1> QED BY <1>1, ReportedStaysServed, PTL

(* What the script approves are the bytes whose digest it names in the     *)
(* evidence; the key has signed that digest and the server's scan has      *)
(* passed those bytes, whatever the script's own reads of the file saw.    *)
THEOREM EvidenceHolds == Spec => []EvidenceIsTrue
  <1>1. IInv => EvidenceIsTrue
    <2> SUFFICES ASSUME IInv, NEW x \in Scripts, script[x].at \in Judging
                 PROVE  /\ releases[Target(x)].stored = script[x].sha
                        /\ releases[Target(x)].signed
                        /\ releases[Target(x)].stored \in Sound
      BY DEF EvidenceIsTrue, Judging
    <2>1. Running(x)
      BY DEF Judging, Running, NotHashed
    <2>2. Target(x) \in Releases
      BY <2>1, Arguments DEF IInv
    <2>3. Holds(x)
      BY DEF IInv, RunsHold
    <2> QED BY <2>2, <2>3 DEF Holds, Judging, Uploaded, IInv, Vetted
  <1> QED BY <1>1, ReportedStaysServed, PTL

(* A package with SKILL.md in the archive's root has no wrapper directory: *)
(* every path is below the root.                                           *)
LEMMA AtTopIsRooted ==
  ASSUME NEW p \in Rooted
  PROVE  p \in Package /\ IsRoot(p, <<>>)
  <1>1. p \in Package
    BY PackagesAssumption DEF Rooted, Package
  <1>2. \E e \in Files(p) : e.path = Append(<<>>, "SKILL.md")
    BY DEF Rooted, AtTop
  <1>3. ASSUME NEW e \in ToSet(p)
        PROVE  Inside(<<>>, e.path)
    <2>1. PICK i \in DOMAIN p : p[i] = e
      BY <1>1, IndexOf
    <2>2. e.path \in Seq(Names)
      BY <1>1, <2>1, EntryFacts
    <2>3. IsPrefix(<<>>, e.path)
      BY <2>2 DEF IsPrefix
    <2> QED BY <2>3 DEF Inside, IsStrictPrefix
  <1> QED BY <1>1, <1>2, <1>3 DEF IsRoot

(* What a run of the script reported as published is served from then on   *)
(* and passed the scan, whoever else works on the skill, its versions and  *)
(* its label; if the file whose layout it looked at is the one it hashed,  *)
(* every client that can extract it installs it.                           *)
THEOREM ReportedInstall == Spec => []ReportedInstalls
  <1>1. IInv => ReportedInstalls
    <2> SUFFICES ASSUME IInv, NEW d \in reported
                 PROVE  LET p == releases[d.release].stored
                        IN /\ Serves(d.release, d.sha) /\ p \in Sound
                           /\ d.steady => p \in Installable
      BY DEF ReportedInstalls
    <2>1. Reportable(d) /\ Serves(d.release, d.sha)
      BY DEF IInv
    <2>2. releases[d.release].stored = d.sha /\ d.sha \in Sound
      BY <2>1 DEF Serves, Reportable, IInv, Vetted, Passed
    <2>3. ASSUME d.steady
          PROVE  d.sha \in Installable
      <3>1. d.sha \in Package /\ IsRoot(d.sha, <<>>)
        BY <2>1, <2>3, AtTopIsRooted DEF Reportable
      <3>2. d.sha \in Packages /\ Accepted(d.sha)
        BY <2>2 DEF Sound
      <3>3. \A folding \in BOOLEAN :
              Extractable(d.sha, folding) => Installs(d.sha, Manifest(d.sha), folding)
        BY <3>1, <3>2, AcceptedInstalls
      <3> QED BY <3>2, <3>3 DEF Installable
    <2> QED BY <2>1, <2>2, <2>3
  <1> QED BY <1>1, ReportedStaysServed, PTL
-----------------------------------------------------------------------------
(* What the variables hold.                                                *)

(* Beside IInv: a run has no other fields than those its place calls for,  *)
(* and namespaces and labels name what there is.                           *)
Exact(run) == run \in {NoScript} \cup Reading \cup Script \/ run.at = "wait"
Labels == [Skills -> Versions \cup {NoVersion}]
Typed ==
  /\ namespaces \subseteq Slugs
  /\ \A x \in Scripts : Exact(script[x])
  /\ label \in Labels

(* A namespace is inserted with a skill that is in it.                     *)
LEMMA NamespacesOfSkills ==
  ASSUME IInv, namespaces \subseteq Slugs, [Next]_vars
  PROVE  namespaces' \subseteq Slugs
  <1>1. ASSUME NEW s \in Sessions, CommitCreation(s)
        PROVE  namespaces' \subseteq Slugs
    <2>1. Working(create[s])
      BY <1>1 DEF CommitCreation, IInv, CreationInv, Shaped, Free, Done, Answered
    <2>2. create[s].request.skill.namespace \in Slugs
      BY <2>1 DEF Working, Request, Slugs
    <2> QED BY <1>1, <2>2 DEF CommitCreation
  <1>2. ASSUME NEW s \in Sessions, OtherCreates(s) \/ Unattended(s) \/ Works(s)
        PROVE  namespaces' \subseteq Slugs
    <2>1. CASE CommitCreation(s)
      BY <1>1, <2>1
    <2>2. CASE ~CommitCreation(s)
      <3>1. UNCHANGED namespaces
        BY <1>2, <2>2 DEF OtherCreates, Receive, Replay, RefuseReuse, Look, Unattended,
           AnswerSent, Works, CreationStep, Insert, SkillExists, NamespaceExists,
           RollBackCreation, tables
      <3> QED BY <3>1
    <2> QED BY <2>1, <2>2
  <1>3. ASSUME NEW x \in Scripts, ScriptStep(x)
        PROVE  UNCHANGED namespaces
    BY <1>3 DEF ScriptStep, ReadFrontmatter, ScanFile, HashFile, LookAbsent, LookFresh,
       LookPublished, RequestCreate,
       Receive, Replay, RefuseReuse, Look, TakeAnswer, AnswerSent, ScriptCreatesUpload,
       ScriptPuts, ScriptFinalizes, PollScan, ScriptSubmits, ScriptApproves,
       ScriptPublishes, VerifyVersion, VerifyLabel, Report, Stop, creation, tables
  <1>4. ASSUME NEW r \in Releases, OtherWork(r)
        PROVE  UNCHANGED namespaces
    BY <1>4 DEF OtherWork, creation
  <1> QED BY <1>2, <1>3, <1>4 DEF Next, vars, creation

(* A label is moved to a version of its skill, or removed.                 *)
LEMMA LabelsOfVersions ==
  ASSUME IInv, label \in Labels, [Next]_vars
  PROVE  label' \in Labels
  <1>1. ASSUME NEW r \in Releases,
               \/ \E labelled \in BOOLEAN : Publish(r, labelled)
               \/ MoveLabel(r) \/ Deprecate(r)
        PROVE  label' \in Labels
    BY <1>1 DEF Publish, MoveLabel, Deprecate, Labels, Releases
  <1>2. ASSUME NEW r \in Releases, OtherWork(r)
        PROVE  label' \in Labels
    <2>1. CASE \/ \E labelled \in BOOLEAN : Publish(r, labelled)
               \/ MoveLabel(r) \/ Deprecate(r)
      BY <1>1, <2>1
    <2>2. CASE UNCHANGED label
      BY <2>2
    <2> QED BY <1>2, <2>1, <2>2 DEF OtherWork, CreateUpload, PutContent, Finalize, Scan,
               Submit, Decide
  <1>3. ASSUME NEW x \in Scripts, ScriptPublishes(x)
        PROVE  label' \in Labels
    <2>1. Target(x) \in Releases
      BY <1>3, Arguments DEF ScriptPublishes, At, IInv, Running, NotHashed
    <2> QED BY <1>1, <1>3, <2>1 DEF ScriptPublishes
  <1>4. ASSUME NEW x \in Scripts, ScriptStep(x), ~ScriptPublishes(x)
        PROVE  UNCHANGED label
    BY <1>4 DEF ScriptStep, ReadFrontmatter, ScanFile, HashFile, LookAbsent, LookFresh,
       LookPublished, RequestCreate,
       TakeAnswer, ScriptCreatesUpload, CreateUpload, ScriptPuts, PutContent,
       ScriptFinalizes, Finalize, PollScan, ScriptSubmits, Submit, ScriptApproves, Decide,
       VerifyVersion, VerifyLabel, Report, Stop, served
  <1>5. ASSUME NEW s \in Sessions, OtherCreates(s) \/ Unattended(s) \/ Works(s)
        PROVE  UNCHANGED label
    BY <1>5 DEF OtherCreates, Unattended, Works, served
  <1> QED BY <1>2, <1>3, <1>4, <1>5 DEF Next, vars, served

(* A run that goes on keeps its fields, and one that ends has none.        *)
Steps == {"look", "create", "upload", "put", "finalize", "scan", "submit", "approve",
          "publish", "verify", "label", "download"}
LEMMA GoesOnExactly ==
  ASSUME RunsPrepared, NEW x \in Scripts, Exact(script[x]), Running(x), ~At(x, "wait"),
         NEW step \in Steps, Goes(x, step) \/ Gone(x)
  PROVE  Exact(script'[x])
  <1>1. CASE Gone(x)
    BY <1>1 DEF Gone, RunsPrepared, Exact
  <1>2. CASE Goes(x, step)
    <2>1. script[x] \in Script
      BY DEF Exact, At, NoScript, Running, NotHashed, Reading
    <2>2. script'[x] = [script[x] EXCEPT !.at = step]
      BY <1>2 DEF Goes, RunsPrepared
    <2>3. script'[x] \in Script
      BY <2>1, <2>2 DEF Script, Steps
    <2> QED BY <2>3 DEF Exact
  <1> QED BY <1>1, <1>2

(* The fields of every run, whichever run makes a step.                    *)
LEMMA RunsExact ==
  ASSUME IInv, \A y \in Scripts : Exact(script[y]), NEW x \in Scripts, ScriptStep(x)
  PROVE  Exact(script'[x])
  <1>0. RunsPrepared /\ Exact(script[x]) /\ DOMAIN script = Scripts
    BY DEF IInv, RunsPrepared
  <1>1. ASSUME NEW p \in Packages,
               \/ \E j \in Jobs : ReadFrontmatter(x, j, p)
               \/ ScanFile(x, p) \/ HashFile(x, p)
        PROVE  Exact(script'[x])
    <2>1. ASSUME NEW j \in Jobs, ReadFrontmatter(x, j, p)
          PROVE  Exact(script'[x])
      <3>1. script'[x] = [at |-> "read", job |-> j, top |-> p]
        BY <1>0, <2>1 DEF ReadFrontmatter
      <3> QED BY <3>1 DEF Exact, Reading
    <2>2. CASE ScanFile(x, p) \/ HashFile(x, p)
      <3>1. script[x] \in Reading
        BY <1>0, <2>2 DEF ScanFile, HashFile, At, RunsPrepared, Prepared, NoScript, NotHashed
      <3>2. CASE ScanFile(x, p)
        <4>1. script'[x] = [script[x] EXCEPT !.at = "scanned"]
          BY <1>0, <3>2 DEF ScanFile, Goes
        <4> QED BY <3>1, <4>1 DEF Exact, Reading
      <3>3. CASE HashFile(x, p)
        <4>1. script'[x] = [at |-> "look", job |-> script[x].job, sha |-> p,
                            steady |-> p = script[x].top, target |-> script[x].job.skill]
          BY <1>0, <3>3 DEF HashFile
        <4> QED BY <3>1, <4>1, JobsAssumption DEF Exact, Reading, Script
      <3> QED BY <2>2, <3>2, <3>3
    <2> QED BY <1>1, <2>1, <2>2
  <1>2. CASE \E s \in Sessions : RequestCreate(x, s)
    BY <1>0, <1>2 DEF RequestCreate, Exact
  <1>3. CASE TakeAnswer(x)
    <2> DEFINE s == script[x].session
    <2>1. s \in Sessions
      BY <1>0, <1>3 DEF TakeAnswer, At, RunsPrepared, Prepared, NoScript, Reading
    <2>2. SkillOf(create[s].answer) \in Skills
      BY <1>3, <2>1, AnswerIsSkill DEF TakeAnswer
    <2>3. /\ script[x].job \in Jobs /\ script[x].sha \in Packages
          /\ script[x].steady \in BOOLEAN
      BY <1>0, <1>3, Arguments DEF TakeAnswer, At, Running, NotHashed
    <2>4. script'[x] = [at |-> "upload", job |-> script[x].job, sha |-> script[x].sha,
                        steady |-> script[x].steady, target |-> SkillOf(create[s].answer)]
      BY <1>0, <1>3 DEF TakeAnswer
    <2>5. script'[x] \in Script
      BY <2>2, <2>3, <2>4 DEF Script
    <2> QED BY <2>5 DEF Exact
  <1>4. CASE Gone(x)
    BY <1>0, <1>4 DEF Gone, Exact
  <1>5. CASE LookAbsent(x) \/ LookFresh(x) \/ LookPublished(x)
    <2>1. Running(x) /\ ~At(x, "wait") /\ \E step \in Steps : Goes(x, step)
      BY <1>5 DEF LookAbsent, LookFresh, LookPublished, At, Steps,
         Running, NotHashed
    <2> QED BY <1>0, <2>1, GoesOnExactly
  <1>6. CASE ScriptCreatesUpload(x) \/ ScriptPuts(x) \/ ScriptFinalizes(x)
    <2>1. /\ Running(x) /\ ~At(x, "wait")
          /\ \E step \in Steps : Goes(x, step) \/ Gone(x)
      BY <1>6 DEF ScriptCreatesUpload, ScriptPuts, ScriptFinalizes, Answers, At, Steps,
         Running, NotHashed
    <2> QED BY <1>0, <2>1, GoesOnExactly
  <1>7. CASE PollScan(x) \/ ScriptSubmits(x) \/ ScriptApproves(x) \/ ScriptPublishes(x)
    <2>1. /\ Running(x) /\ ~At(x, "wait")
          /\ \E step \in Steps : Goes(x, step) \/ Gone(x)
      BY <1>7 DEF PollScan, ScriptSubmits, ScriptApproves, ScriptPublishes, Answers, At, Steps,
         Running, NotHashed
    <2> QED BY <1>0, <2>1, GoesOnExactly
  <1>8. CASE VerifyVersion(x) \/ VerifyLabel(x)
    <2>1. Running(x) /\ ~At(x, "wait") /\ \E step \in Steps : Goes(x, step)
      BY <1>8 DEF VerifyVersion, VerifyLabel, At, Steps,
         Running, NotHashed
    <2> QED BY <1>0, <2>1, GoesOnExactly
  <1> QED BY <1>1, <1>2, <1>3, <1>4, <1>5, <1>6, <1>7, <1>8 DEF ScriptStep, Report, Stop

(* Every step leaves the variables with what they may hold.                *)
LEMMA TypedStays ==
  ASSUME IInv, Typed, [Next]_vars
  PROVE  Typed'
  <1>1. ASSUME NEW x \in Scripts, ScriptStep(x), NEW y \in Scripts
        PROVE  Exact(script'[y])
    <2>1. CASE y = x
      BY <1>1, <2>1, RunsExact DEF Typed
    <2>2. CASE y # x
      <3>1. UNCHANGED script[y]
        BY <1>1, <2>2 DEF ScriptStep, ReadFrontmatter, ScanFile, HashFile, LookAbsent, LookFresh,
       LookPublished,
           RequestCreate, TakeAnswer, ScriptCreatesUpload, ScriptPuts, ScriptFinalizes,
           PollScan, ScriptSubmits, ScriptApproves, ScriptPublishes, VerifyVersion,
           VerifyLabel, Report, Stop, Goes, Gone, Answers, IInv, RunsPrepared
      <3> QED BY <3>1 DEF Typed
    <2> QED BY <2>1, <2>2
  <1>2. ASSUME NEW s \in Sessions, OtherCreates(s) \/ Unattended(s) \/ Works(s)
        PROVE  UNCHANGED script
    BY <1>2 DEF OtherCreates, Unattended, Works
  <1>3. ASSUME NEW r \in Releases, OtherWork(r)
        PROVE  UNCHANGED script
    BY <1>3 DEF OtherWork
  <1>4. \A y \in Scripts : Exact(script'[y])
    BY <1>1, <1>2, <1>3 DEF Next, vars, Typed
  <1> QED BY <1>4, NamespacesOfSkills, LabelsOfVersions DEF Typed

(* The values each variable may take.                                      *)
THEOREM TypeCorrect == Spec => []TypeOK
  <1>1. Init => Typed
    BY DEF Init, CreationInit, Typed, Exact, Labels
  <1>2. IInv /\ Typed /\ [Next]_vars => Typed'
    BY TypedStays
  <1>3. IInv /\ Typed => TypeOK
    <2> SUFFICES ASSUME IInv, Typed PROVE TypeOK
      OBVIOUS
    <2>1. /\ skills \subseteq Request
          /\ \A r \in records : r.key # NoKey /\ r.request \in Request /\ r.body \in skills
      BY DEF IInv, CreationInv, Rows
    <2>2. ASSUME NEW x \in Scripts
          PROVE  \/ script[x] = NoScript
                 \/ script[x] \in Reading \cup Script
                 \/ At(x, "wait") /\ script[x].job \in Jobs /\ script[x].session \in Sessions
      BY DEF IInv, RunsPrepared, Prepared, Typed, Exact, At, NoScript, Reading
    <2>3. reported \subseteq [release : Releases, sha : Packages, steady : BOOLEAN]
      BY DEF IInv, Reportable
    <2> QED BY <2>1, <2>2, <2>3 DEF TypeOK, IInv, Typed, Labels
  <1> QED BY <1>1, <1>2, <1>3, ReportedStaysServed, PTL DEF Spec
-----------------------------------------------------------------------------
(* The handlers here and those of VersionLifecycle keep one promise.       *)

(* A version is open until it is submitted; what is fixed then are its     *)
(* bytes, and whoever judges it judges those.                              *)
Reviewed == {"submitted", "approved", "rejected", "published", "deprecated"}
Stage(r) == IF releases[r].status \in Reviewed THEN releases[r].status ELSE "open"
Frozen(r) == IF releases[r].status \in Reviewed THEN releases[r].stored ELSE NoPackage

ReviewOf(r, verdict, p) == [release |-> r, decision |-> verdict, sha |-> p]
Judged == {r \in Releases : releases[r].status \in Reviewed \ {"submitted"}}
Verdict(r) == IF releases[r].status = "rejected" THEN "rejected" ELSE "approved"

Promised == INSTANCE ReleaseLifecycle WITH
  Versions <- Releases,
  stage    <- [r \in Releases |-> Stage(r)],
  payload  <- [r \in Releases |-> Frozen(r)],
  reviews  <- {ReviewOf(r, Verdict(r), releases[r].stored) : r \in Judged},
  Payloads <- Packages,
  Nothing  <- NoPackage,
  Evidence <- ReviewOf

(* From its upload on a version has bytes.                                 *)
Filled ==
  \A r \in Releases :
    releases[r].status \notin {"none", "created"} => releases[r].stored \in Packages

(* What the handlers do to a release, whoever calls them.                  *)
Handled(r) ==
  \/ \E p \in Packages, signed \in BOOLEAN : CreateUpload(r, p, signed)
  \/ \E p \in Packages : PutContent(r, p)
  \/ Finalize(r) \/ Scan(r) \/ Submit(r)
  \/ \E decision \in {"approved", "rejected"} : Decide(r, decision)
  \/ \E labelled \in BOOLEAN : Publish(r, labelled)
  \/ MoveLabel(r) \/ Deprecate(r)

(* A step is a call of one of the handlers or leaves the releases alone.   *)
LEMMA StepIsCall ==
  ASSUME IInv, [Next]_vars
  PROVE  UNCHANGED releases \/ \E r \in Releases : Handled(r)
  <1>1. ASSUME NEW x \in Scripts, ScriptStep(x)
        PROVE  UNCHANGED releases \/ \E r \in Releases : Handled(r)
    <2>1. CASE \/ ScriptCreatesUpload(x) \/ ScriptPuts(x) \/ ScriptFinalizes(x)
               \/ ScriptSubmits(x) \/ ScriptApproves(x) \/ ScriptPublishes(x)
      <3>1. Target(x) \in Releases /\ script[x].sha \in Packages
        BY <2>1, Arguments DEF IInv, Running, NotHashed, At, ScriptCreatesUpload, ScriptPuts,
           ScriptFinalizes, ScriptSubmits, ScriptApproves, ScriptPublishes
      <3>2. Handled(Target(x))
        BY <2>1, <3>1 DEF Handled, ScriptCreatesUpload, ScriptPuts, ScriptFinalizes,
           ScriptSubmits, ScriptApproves, ScriptPublishes
      <3> QED BY <3>1, <3>2
    <2>2. CASE Report(x)
      BY <2>2 DEF Report, served
    <2>3. CASE RunStep(x)
      BY <2>3, RunsGoOn
    <2> QED BY <1>1, <2>1, <2>2, <2>3 DEF ScriptStep, RunStep
  <1>2. ASSUME NEW s \in Sessions, OtherCreates(s) \/ Unattended(s) \/ Works(s)
        PROVE  UNCHANGED releases
    BY <1>2 DEF OtherCreates, Unattended, Works, served
  <1>3. ASSUME NEW r \in Releases, OtherWork(r)
        PROVE  Handled(r)
    BY <1>3 DEF OtherWork, Handled
  <1> QED BY <1>1, <1>2, <1>3 DEF Next, vars, served

(* What a call makes of a release: another status of an uploaded one, or   *)
(* an upload, or nothing.                                                  *)
Moves ==
  {<<"uploaded", "pending_scan">>,
   <<"pending_scan", "draft">>, <<"pending_scan", "scan_failed">>,
   <<"draft", "submitted">>, <<"submitted", "approved">>, <<"submitted", "rejected">>,
   <<"approved", "published">>, <<"published", "deprecated">>}
LEMMA CallEffect ==
  ASSUME IInv, Filled, NEW r \in Releases, Handled(r)
  PROVE  \/ UNCHANGED releases
         \/ \E to \in Statuses :
              <<releases[r].status, to>> \in Moves /\ Becomes(r, to)
         \/ \E new \in Release :
              /\ releases' = [releases EXCEPT ![r] = new]
              /\ releases[r].status \in {"none", "created", "uploaded"}
              /\ new.status = "created" \/ (new.status = "uploaded" /\ new.stored \in Packages)
  <1>0. releases \in [Releases -> Release]
    BY DEF IInv
  <1>1. ASSUME NEW p \in Packages, NEW signed \in BOOLEAN, CreateUpload(r, p, signed)
        PROVE  \E new \in Release :
              /\ releases' = [releases EXCEPT ![r] = new]
              /\ releases[r].status \in {"none", "created", "uploaded"}
              /\ new.status = "created" \/ (new.status = "uploaded" /\ new.stored \in Packages)
    <2> DEFINE new == [status |-> "created", expected |-> p, stored |-> NoPackage,
                       signed |-> signed]
    <2>1. new \in Release /\ new.status = "created"
      BY DEF Release, Statuses
    <2>2. releases' = [releases EXCEPT ![r] = new] /\ releases[r].status = "none"
      BY <1>1 DEF CreateUpload, Unclaimed
    <2> HIDE DEF new
    <2> QED BY <2>1, <2>2
  <1>2. ASSUME NEW p \in Packages, PutContent(r, p)
        PROVE  \E new \in Release :
              /\ releases' = [releases EXCEPT ![r] = new]
              /\ releases[r].status \in {"none", "created", "uploaded"}
              /\ new.status = "created" \/ (new.status = "uploaded" /\ new.stored \in Packages)
    <2> DEFINE new == [releases[r] EXCEPT !.status = "uploaded", !.stored = p]
    <2>1. new \in Release /\ new.status = "uploaded" /\ new.stored = p
      BY <1>0 DEF Release, Statuses
    <2>2. releases' = [releases EXCEPT ![r] = new] /\ releases[r].status \in {"created", "uploaded"}
      BY <1>2 DEF PutContent
    <2> HIDE DEF new
    <2> QED BY <2>1, <2>2
  <1>3. ASSUME \/ Finalize(r) \/ Scan(r) \/ Submit(r)
               \/ \E decision \in {"approved", "rejected"} : Decide(r, decision)
        PROVE  \/ UNCHANGED releases
               \/ \E to \in Statuses : <<releases[r].status, to>> \in Moves /\ Becomes(r, to)
    BY <1>3 DEF Finalize, Scan, Submit, Decide, Moves, Statuses
  <1>4. ASSUME (\E labelled \in BOOLEAN : Publish(r, labelled)) \/ Deprecate(r)
        PROVE  \E to \in Statuses : <<releases[r].status, to>> \in Moves /\ Becomes(r, to)
    BY <1>4 DEF Publish, Deprecate, Moves, Statuses
  <1>5. CASE MoveLabel(r)
    BY <1>5 DEF MoveLabel
  <1> QED BY <1>1, <1>2, <1>3, <1>4, <1>5 DEF Handled

(* What is seen of one release depends on its row alone.                   *)
LEMMA SeenOf ==
  ASSUME releases \in [Releases -> Release], NEW r \in Releases, NEW new,
         releases' = [releases EXCEPT ![r] = new]
  PROVE  /\ releases'[r] = new
         /\ \A q \in Releases \ {r} : releases'[q] = releases[q]
         /\ \A q \in Releases \ {r} : Stage(q)' = Stage(q) /\ Frozen(q)' = Frozen(q)
  BY DEF Stage, Frozen

(* A version that was not submitted and is not: nothing is seen of it.     *)
LEMMA OpenStays ==
  ASSUME releases \in [Releases -> Release], NEW r \in Releases, NEW new,
         releases' = [releases EXCEPT ![r] = new],
         releases[r].status \notin Reviewed, new.status \notin Reviewed
  PROVE  UNCHANGED Promised!releaseVars
  <1>1. \A q \in Releases : Stage(q)' = Stage(q) /\ Frozen(q)' = Frozen(q)
    BY SeenOf DEF Stage, Frozen
  <1>2. Judged' = Judged /\ \A q \in Judged : releases'[q] = releases[q]
    BY SeenOf DEF Judged
  <1>3. {ReviewOf(q, Verdict(q), releases[q].stored) : q \in Judged}' =
        {ReviewOf(q, Verdict(q), releases[q].stored) : q \in Judged}
    BY <1>2 DEF Verdict
  <1> QED BY <1>1, <1>3 DEF Promised!releaseVars

(* From submission on a step of a release is the operation of that name.   *)
LEMMA ReviewRefines ==
  ASSUME releases \in [Releases -> Release], Filled, NEW r \in Releases, NEW to \in Reviewed,
         <<releases[r].status, to>> \in Moves, Becomes(r, to)
  PROVE  Promised!Next
  <1> DEFINE stages == [q \in Releases |-> Stage(q)]
             bytes == [q \in Releases |-> Frozen(q)]
             reviews == {ReviewOf(q, Verdict(q), releases[q].stored) : q \in Judged}
             new == [releases[r] EXCEPT !.status = to]
  <1>1. /\ releases' = [releases EXCEPT ![r] = new]
        /\ new.status = to /\ new.stored = releases[r].stored
    BY DEF Becomes, Release
  <1> HIDE DEF new
  <1>2. /\ releases'[r].status = to /\ releases'[r].stored = releases[r].stored
        /\ \A q \in Releases \ {r} : releases'[q] = releases[q]
        /\ \A q \in Releases \ {r} : Stage(q)' = Stage(q) /\ Frozen(q)' = Frozen(q)
    BY <1>1, SeenOf
  <1>3. Stage(r)' = to /\ Frozen(r)' = releases[r].stored
    BY <1>2 DEF Stage, Frozen
  <1>4. stages' = [stages EXCEPT ![r] = to]
    BY <1>2, <1>3
  <1>5. bytes' = [bytes EXCEPT ![r] = releases[r].stored]
    BY <1>2, <1>3
  <1>6. CASE to = "submitted"
    <2>1. releases[r].status = "draft" /\ releases[r].stored \in Packages
      BY <1>6 DEF Moves, Filled
    <2>2. Judged' = Judged /\ \A q \in Judged : releases'[q] = releases[q]
      BY <1>2, <1>6, <2>1 DEF Judged, Reviewed
    <2>3. reviews' = reviews
      BY <2>2 DEF Verdict
    <2>4. stages[r] = "open"
      BY <2>1 DEF Stage, Reviewed
    <2>5. Promised!Submit(r, releases[r].stored)
      BY <1>4, <1>5, <1>6, <2>3, <2>4 DEF Promised!Submit
    <2> QED BY <2>1, <2>5 DEF Promised!Next
  <1>7. CASE to # "submitted"
    <2>1. releases[r].status \in Reviewed
      BY <1>7 DEF Moves, Reviewed
    <2>2. stages[r] = releases[r].status /\ bytes[r] = releases[r].stored
      BY <2>1 DEF Stage, Frozen
    <2>3. bytes' = bytes
      BY <1>5, <2>2
    <2>4. CASE to \in {"approved", "rejected"}
      <3>1. releases[r].status = "submitted" /\ r \notin Judged
        BY <2>4 DEF Moves, Judged
      <3>2. /\ Judged' = Judged \cup {r}
            /\ \A q \in Judged : releases'[q] = releases[q]
        BY <1>2, <2>4, <3>1 DEF Judged, Reviewed
      <3>3. Verdict(r)' = to
        BY <1>2, <2>4 DEF Verdict
      <3>4. reviews' = reviews \cup {ReviewOf(r, to, bytes[r])}
        BY <1>2, <2>2, <3>2, <3>3 DEF Verdict
      <3>5. Promised!Decide(r, to)
        BY <1>4, <2>2, <2>3, <3>1, <3>4 DEF Promised!Decide
      <3> QED BY <2>4, <3>5 DEF Promised!Next
    <2>5. CASE to \in {"published", "deprecated"}
      <3>1. r \in Judged /\ releases[r].status \in {"approved", "published"}
        BY <2>5 DEF Moves, Judged, Reviewed
      <3>2. /\ Judged' = Judged
            /\ \A q \in Judged : Verdict(q)' = Verdict(q)
                                  /\ releases'[q].stored = releases[q].stored
        BY <1>2, <2>5, <3>1 DEF Judged, Reviewed, Verdict
      <3>3. reviews' = reviews
        BY <3>2
      <3>4. CASE to = "published"
        <4>1. releases[r].status = "approved" /\ Verdict(r) = "approved"
          BY <3>4 DEF Moves, Verdict
        <4>2. ReviewOf(r, "approved", bytes[r]) \in reviews
          BY <2>2, <3>1, <4>1
        <4>3. Promised!Publish(r)
          BY <1>4, <2>2, <2>3, <3>3, <3>4, <4>1, <4>2 DEF Promised!Publish
        <4> QED BY <4>3 DEF Promised!Next
      <3>5. CASE to = "deprecated"
        <4>1. releases[r].status = "published"
          BY <3>5 DEF Moves
        <4>2. Promised!Deprecate(r)
          BY <1>4, <2>2, <2>3, <3>3, <3>5, <4>1 DEF Promised!Deprecate
        <4> QED BY <4>2 DEF Promised!Next
      <3> QED BY <2>5, <3>4, <3>5
    <2> QED BY <1>7, <2>4, <2>5 DEF Reviewed
  <1> QED BY <1>6, <1>7

(* Every step: an operation of the abstract lifecycle, or nothing seen.    *)
LEMMA StepRefines ==
  ASSUME IInv, Filled, [Next]_vars
  PROVE  Filled' /\ [Promised!Next]_Promised!releaseVars
  <1>0. releases \in [Releases -> Release]
    BY DEF IInv
  <1>1. CASE UNCHANGED releases
    BY <1>1 DEF Filled, Promised!releaseVars, Stage, Frozen, Judged, Verdict
  <1>2. ASSUME NEW r \in Releases, NEW to \in Statuses,
               <<releases[r].status, to>> \in Moves, Becomes(r, to)
        PROVE  Filled' /\ [Promised!Next]_Promised!releaseVars
    <2> DEFINE new == [releases[r] EXCEPT !.status = to]
    <2>1. /\ releases' = [releases EXCEPT ![r] = new]
          /\ new.status = to /\ new.stored = releases[r].stored
      BY <1>0, <1>2 DEF Becomes, Release
    <2> HIDE DEF new
    <2>2. releases[r].status \notin {"none", "created"}
      BY <1>2 DEF Moves
    <2>3. Filled'
      BY <1>0, <2>1, <2>2 DEF Filled
    <2>4. CASE to \in Reviewed
      BY <1>0, <1>2, <2>3, <2>4, ReviewRefines
    <2>5. CASE to \notin Reviewed
      <3>1. releases[r].status \notin Reviewed
        BY <1>2, <2>5 DEF Moves, Reviewed
      <3> QED BY <1>0, <2>1, <2>3, <2>5, <3>1, OpenStays
    <2> QED BY <2>4, <2>5
  <1>3. ASSUME NEW r \in Releases, NEW new \in Release,
               releases' = [releases EXCEPT ![r] = new],
               releases[r].status \in {"none", "created", "uploaded"},
               new.status = "created" \/ (new.status = "uploaded" /\ new.stored \in Packages)
        PROVE  Filled' /\ [Promised!Next]_Promised!releaseVars
    <2>1. Filled'
      BY <1>0, <1>3 DEF Filled
    <2>2. releases[r].status \notin Reviewed /\ new.status \notin Reviewed
      BY <1>3 DEF Reviewed
    <2> QED BY <1>0, <1>3, <2>1, <2>2, OpenStays
  <1> QED BY <1>1, <1>2, <1>3, StepIsCall, CallEffect

(* The handlers as the runs of the script call them implement the abstract *)
(* lifecycle that VersionLifecycle implements with all its interleavings.  *)
THEOREM PublishingRefines == Spec => Promised!Spec
  <1>1. Init => Filled /\ Promised!Init
    BY DEF Init, NoRelease, Filled, Promised!Init, Stage, Frozen, Judged, Reviewed
  <1>2. IInv /\ Filled /\ [Next]_vars => Filled' /\ [Promised!Next]_Promised!releaseVars
    BY StepRefines
  <1> QED BY <1>1, <1>2, ReportedStaysServed, PTL DEF Spec, Promised!Spec
=============================================================================
