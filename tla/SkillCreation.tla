----------------------------- MODULE SkillCreation -----------------------------
(***************************************************************************)
(* POST /skills: the one handler that takes an Idempotency-Key.            *)
(*                                                                         *)
(* One transaction takes an advisory lock on (principal, key), looks the   *)
(* key up, inserts the namespace if there is none, inserts the skill,      *)
(* and remembers its answer under the key.  PostgreSQL makes an INSERT     *)
(* wait for another transaction that has inserted the same unique value    *)
(* and not ended; after the wait it fails if that one committed.           *)
(*                                                                         *)
(* There is one principal (auth.py knows a single token), so a key stands  *)
(* for (principal, key); method and path of every record are the same.     *)
(***************************************************************************)
EXTENDS Sequences

CONSTANTS
  Skills,        \* coordinates [namespace, name]; a slug is the sequence of
                 \* the words between its dashes
  Descriptions,  \* what else is in the body of a request
  Sessions,      \* requests the API works on at one time
  NoKey          \* the request has no Idempotency-Key

VARIABLES
  namespaces, \* slugs in the table namespaces
  skills,     \* rows of the table skills
  records,    \* rows of the table idempotency_records
  create      \* what each request is doing

creation == <<namespaces, skills, records, create>>
tables == <<namespaces, skills, records>>

Slugs == {k.namespace : k \in Skills}
(* The body of a request, the row made from it and the answer's body carry *)
(* the same; request_digest is injective on them.                          *)
Request == [skill : Skills, description : Descriptions]

Free == [at |-> "idle"]
Created(body) == [status |-> "created", body |-> body]
Refused(code) == [status |-> code]
Answered(request, key, answer) ==
  [at |-> "answered", request |-> request, key |-> key, answer |-> answer]

CreationInit ==
  /\ namespaces = {}
  /\ skills = {}
  /\ records = {}
  /\ create = [s \in Sessions |-> Free]

-----------------------------------------------------------------------------
InTransaction(s) == create[s].at \in {"looked", "inserted"}

(* Mutant: no lock.                                                        *)
LockFree_Always(key) == TRUE
LockFree(key) == key = NoKey \/ \A s \in Sessions : InTransaction(s) => create[s].key # key

RecordsOf(key) == {r \in records : r.key = key}

(* Mutant: a record answers every request with its key.                    *)
SameRequest_ByKey(record, request) == TRUE
SameRequest(record, request) == record.request = request

Replay(s, request, key) ==
  /\ create[s] = Free
  /\ LockFree(key)
  /\ \E r \in RecordsOf(key) :
       /\ SameRequest(r, request)
       /\ create' = [create EXCEPT ![s] = Answered(request, key, Created(r.body))]
  /\ UNCHANGED tables

RefuseReuse(s, request, key) ==
  /\ create[s] = Free
  /\ LockFree(key)
  /\ \E r \in RecordsOf(key) : ~SameRequest(r, request)
  /\ create' = [create EXCEPT ![s] = Answered(request, key, Refused("key_reused"))]
  /\ UNCHANGED tables

Look(s, request, key) ==
  /\ create[s] = Free
  /\ LockFree(key)
  /\ RecordsOf(key) = {}
  /\ create' = [create EXCEPT ![s] =
       [at |-> "looked", request |-> request, key |-> key,
        known |-> request.skill.namespace \in namespaces]]
  /\ UNCHANGED tables

Receive(s, request, key) ==
  Replay(s, request, key) \/ RefuseReuse(s, request, key) \/ Look(s, request, key)

Coordinates == {row.skill : row \in skills}

(* Nobody else is about to commit the namespace or the skill that this     *)
(* request inserts.                                                        *)
Unblocked(s) ==
  \A t \in Sessions \ {s} : create[t].at = "inserted" =>
    LET mine == create[s].request.skill
        theirs == create[t].request.skill
    IN /\ theirs # mine
       /\ create[s].known \/ create[t].known \/ theirs.namespace # mine.namespace

Insert(s) ==
  LET k == create[s].request.skill
  IN /\ create[s].at = "looked"
     /\ Unblocked(s)
     /\ create[s].known \/ k.namespace \notin namespaces
     /\ k \notin Coordinates
     /\ create' = [create EXCEPT ![s].at = "inserted"]
     /\ UNCHANGED tables

Fail(s, code) ==
  create' = [create EXCEPT ![s] = Answered(@.request, @.key, Refused(code))]

(* The violated constraint on skills is answered 409 and not remembered;   *)
(* the one on namespaces is caught by nobody.                              *)
SkillExists(s) ==
  /\ create[s].at = "looked"
  /\ Unblocked(s)
  /\ create[s].known \/ create[s].request.skill.namespace \notin namespaces
  /\ create[s].request.skill \in Coordinates
  /\ Fail(s, "skill_already_exists")
  /\ UNCHANGED tables

NamespaceExists(s) ==
  /\ create[s].at = "looked"
  /\ Unblocked(s)
  /\ ~create[s].known /\ create[s].request.skill.namespace \in namespaces
  /\ Fail(s, "server_error")
  /\ UNCHANGED tables

(* Skill, namespace and remembered answer commit together; the key is      *)
(* unique in its table.                                                    *)
CommitCreation(s) ==
  LET request == create[s].request
      key == create[s].key
  IN /\ create[s].at = "inserted"
     /\ RecordsOf(key) = {}
     /\ namespaces' = namespaces \cup {request.skill.namespace}
     /\ skills' = skills \cup {request}
     /\ records' = IF key = NoKey THEN records
                   ELSE records \cup {[key |-> key, request |-> request, body |-> request]}
     /\ create' = [create EXCEPT ![s] = Answered(request, key, Created(request))]

(* Anything else that raises, or the process dies.                         *)
RollBackCreation(s) ==
  /\ InTransaction(s)
  /\ Fail(s, "server_error")
  /\ UNCHANGED tables

(* The answer goes out, whether or not anybody still listens.              *)
AnswerSent(s) ==
  /\ create[s].at = "answered"
  /\ create' = [create EXCEPT ![s] = Free]
  /\ UNCHANGED tables

CreationStep(s) ==
  Insert(s) \/ SkillExists(s) \/ NamespaceExists(s) \/ CommitCreation(s) \/ RollBackCreation(s)

-----------------------------------------------------------------------------
(* An answer 201 is the row of the very skill that was asked for, also     *)
(* when it is replayed from a record and when two skills share one key.    *)
AnswerNamesSkill ==
  \A s \in Sessions :
    create[s].at = "answered" /\ create[s].answer.status = "created" =>
      /\ create[s].answer.body = create[s].request
      /\ create[s].request \in skills

(* A request that repeats one whose skill was created is answered as that  *)
(* one was, never that the skill exists already, not even if it arrives    *)
(* while the first is still at work.                                       *)
RetryIsAnswered ==
  \A s \in Sessions :
    create[s].at = "answered" /\ create[s].answer = Refused("skill_already_exists") =>
      \A r \in RecordsOf(create[s].key) : r.request # create[s].request
=============================================================================
