------------------------------ MODULE ChangeFeed ------------------------------
(***************************************************************************)
(* The change feed that clients follow: transactions that insert events,   *)
(* sync_manifest, and a client that reads it page by page.                 *)
(*                                                                         *)
(* The sequence number of an event is drawn when its row is inserted, the  *)
(* row is seen when its transaction commits, and transactions commit in    *)
(* any order.  sync_manifest answers from two statements, each with a      *)
(* snapshot of its own: the page, then the highest number in the table.    *)
(* An event passes the reader's filter (visibility, owner, agent) or not.  *)
(***************************************************************************)
EXTENDS Naturals, FiniteSets

CONSTANTS
  Txs,        \* transactions in progress at one time
  Limit,      \* the page size the client asks for
  MaxEvents   \* bound: events inserted

ASSUME LimitAssumption == Limit \in Nat \ {0}
ASSUME MaxEventsAssumption == MaxEvents \in Nat

VARIABLES
  drawn,    \* the sequence: numbers drawn so far
  pending,  \* inserted and not committed, by transaction
  table,    \* registry_changes
  cursor,   \* the client: where it continues
  got,      \* the client: events it was given
  page      \* a request that has run its first statement

vars == <<drawn, pending, table, cursor, got, page>>

Event == [sequence : 1..MaxEvents, shown : BOOLEAN]
NoPage == [open |-> FALSE]

Init ==
  /\ drawn = 0
  /\ pending = [t \in Txs |-> {}]
  /\ table = {}
  /\ cursor = 0
  /\ got = {}
  /\ page = NoPage

-----------------------------------------------------------------------------
(* The transactions of publish, deprecate and set_label.                   *)

Insert(t, shown) ==
  /\ drawn < MaxEvents
  /\ drawn' = drawn + 1
  /\ pending' = [pending EXCEPT ![t] = @ \cup {[sequence |-> drawn + 1, shown |-> shown]}]
  /\ UNCHANGED <<table, cursor, got, page>>

Commit(t) ==
  /\ pending[t] # {}
  /\ table' = table \cup pending[t]
  /\ pending' = [pending EXCEPT ![t] = {}]
  /\ UNCHANGED <<drawn, cursor, got, page>>

(* Mutant: a rollback gives its numbers back, so that there are no gaps.   *)
Abort_GivesBack(t) ==
  /\ pending[t] # {}
  /\ pending' = [pending EXCEPT ![t] = {}]
  /\ drawn' = drawn - Cardinality(pending[t])
  /\ UNCHANGED <<table, cursor, got, page>>

(* The numbers a rollback has drawn are never used.                        *)
Abort(t) ==
  /\ pending[t] # {}
  /\ pending' = [pending EXCEPT ![t] = {}]
  /\ UNCHANGED <<drawn, table, cursor, got, page>>

-----------------------------------------------------------------------------
(* sync_manifest and the client.                                           *)

(* Mutant: the page starts at the cursor.                                  *)
Ahead_Inclusive == {e \in table : e.shown /\ e.sequence >= cursor}
Ahead == {e \in table : e.shown /\ e.sequence > cursor}

(* The first n rows in the order of their numbers.                         *)
Below(e, events) == {f \in events : f.sequence < e.sequence}
Lowest(events, n) == {e \in events : Cardinality(Below(e, events)) < n}

(* Mutant: as many rows are fetched as are returned.                       *)
Fetched_Limit(events) == Lowest(events, Limit)

(* One row more than the page holds tells whether there is more.           *)
Fetched(events) == Lowest(events, Limit + 1)

ReadPage ==
  /\ page = NoPage
  /\ page' = [open  |-> TRUE,
              items |-> Lowest(Fetched(Ahead), Limit),
              more  |-> Cardinality(Fetched(Ahead)) > Limit,
              then  |-> table]
  /\ UNCHANGED <<drawn, pending, table, cursor, got>>

Highest(events) ==
  CHOOSE n \in {e.sequence : e \in events} : \A e \in events : e.sequence <= n
HighWatermark == IF table = {} THEN 0 ELSE Highest(table)

(* The client continues after the last item while there is more, at the    *)
(* watermark otherwise.  An answer without events may carry a watermark    *)
(* that is ahead, for it counts what the reader may not see as well.       *)
Answer ==
  /\ page # NoPage
  /\ got' = got \cup page.items
  /\ cursor' = IF page.more THEN Highest(page.items) ELSE HighWatermark
  /\ page' = NoPage
  /\ UNCHANGED <<drawn, pending, table>>

(* The answer is lost and the client asks again.                           *)
LoseAnswer ==
  /\ page # NoPage
  /\ page' = NoPage
  /\ UNCHANGED <<drawn, pending, table, cursor, got>>

Next ==
  \/ \E t \in Txs :
       \/ \E shown \in BOOLEAN : Insert(t, shown)
       \/ Commit(t) \/ Abort(t)
  \/ ReadPage \/ Answer \/ LoseAnswer

Spec == Init /\ [][Next]_vars

-----------------------------------------------------------------------------
(* The values each variable may take; no number is drawn twice.            *)
TypeOK ==
  /\ drawn \in 0..MaxEvents
  /\ pending \in [Txs -> SUBSET Event]
  /\ table \subseteq Event
  /\ cursor \in 0..drawn
  /\ got \subseteq table
  /\ page # NoPage =>
       /\ page.items \subseteq page.then /\ Cardinality(page.items) <= Limit
       /\ page.more \in BOOLEAN
       /\ page.then \subseteq table
  /\ \A e, f \in table : e.sequence = f.sequence => e = f

(* No answer skips what was in the table when its page was read: whatever  *)
(* the reader may see between the old cursor and the new one is delivered; *)
(* only what commits later, with a number drawn earlier, can be missed.    *)
NothingSkipped ==
  [][cursor' # cursor =>
       \A e \in page.then :
         e.shown /\ cursor < e.sequence /\ e.sequence <= cursor' => e \in got']_vars

(* No event is delivered twice, although answers get lost and asked for    *)
(* again, and events commit out of the order of their numbers.             *)
DeliveredOnce ==
  [][got' # got => \A i \in page.items : i \notin got]_vars
=============================================================================
