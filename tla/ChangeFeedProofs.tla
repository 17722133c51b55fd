---------------------------- MODULE ChangeFeedProofs ----------------------------
(***************************************************************************)
(* The change feed for every number of transactions and events and every   *)
(* page size: an answer skips nothing that was in the table when its page  *)
(* was read, and nothing is delivered twice.                               *)
(***************************************************************************)
EXTENDS ChangeFeed, FiniteSetTheorems, WellFoundedInduction, TLAPS

-----------------------------------------------------------------------------
(* Sets of events: finite, with a lowest and a highest number.             *)

(* There are finitely many events, for their numbers are bounded.          *)
LEMMA EventsFinite ==
  ASSUME NEW events \in SUBSET Event
  PROVE  IsFiniteSet(events)
  <1> DEFINE N == MaxEvents + MaxEvents
             f == [i \in 1..N |->
                     IF i <= MaxEvents THEN [sequence |-> i, shown |-> TRUE]
                     ELSE [sequence |-> i - MaxEvents, shown |-> FALSE]]
  <1>1. N \in Nat
    BY MaxEventsAssumption
  <1>2. f \in [1..N -> Event]
    BY MaxEventsAssumption DEF Event
  <1>3. ASSUME NEW e \in Event
        PROVE  \E i \in 1..N : f[i] = e
    <2>1. CASE e.shown
      <3>1. e = [sequence |-> e.sequence, shown |-> TRUE] /\ e.sequence \in 1..MaxEvents
        BY <2>1 DEF Event
      <3>2. e.sequence \in 1..N /\ f[e.sequence] = e
        BY <3>1, MaxEventsAssumption
      <3> QED BY <3>2
    <2>2. CASE ~e.shown
      <3>1. e = [sequence |-> e.sequence, shown |-> FALSE] /\ e.sequence \in 1..MaxEvents
        BY <2>2 DEF Event
      <3>2. e.sequence + MaxEvents \in 1..N /\ f[e.sequence + MaxEvents] = e
        BY <3>1, MaxEventsAssumption
      <3> QED BY <3>2
    <2> QED BY <2>1, <2>2
  <1> HIDE DEF N, f
  <1>4. f \in Surjection(1..N, Event)
    BY <1>2, <1>3 DEF Surjection
  <1>5. IsFiniteSet(1..N)
    BY <1>1, FS_Interval
  <1>6. IsFiniteSet(Event)
    BY <1>4, <1>5, FS_Surjection
  <1> QED BY <1>6, FS_Subset

(* The least of a set of numbers.                                          *)
LEMMA LeastExists ==
  ASSUME NEW T \in SUBSET Nat, T # {}
  PROVE  \E n \in T : \A m \in T : n <= m
  <1>1. PICK n \in T : \A m \in T : <<m, n>> \notin OpToRel(<, Nat)
    BY NatLessThanWellFounded, WFMin, Zenon
  <1>2. \A m \in Nat, k \in Nat : m < k => <<m, k>> \in OpToRel(<, Nat)
    BY Zenon DEF OpToRel
  <1>3. \A m \in T : ~(m < n)
    BY <1>1, <1>2, Zenon
  <1> QED BY <1>3

(* Of events there is one with the lowest number.                          *)
LEMMA LowestExists ==
  ASSUME NEW events \in SUBSET Event, events # {}
  PROVE  \E e \in events : \A f \in events : e.sequence <= f.sequence
  <1> DEFINE T == {e.sequence : e \in events}
  <1>1. T \in SUBSET Nat /\ T # {}
    BY DEF Event
  <1>2. \A f \in events : f.sequence \in T
    OBVIOUS
  <1>3. \A n \in T : \E e \in events : n = e.sequence
    OBVIOUS
  <1> HIDE DEF T
  <1>4. PICK n \in T : \A m \in T : n <= m
    BY <1>1, LeastExists
  <1> QED BY <1>2, <1>3, <1>4

(* And one with the highest.                                               *)
LEMMA HighestExists ==
  ASSUME NEW events \in SUBSET Event, events # {}
  PROVE  /\ \E e \in events : e.sequence = Highest(events)
         /\ \A f \in events : f.sequence <= Highest(events)
  <1> DEFINE T == {MaxEvents - e.sequence : e \in events}
  <1>1. T \in SUBSET Nat /\ T # {}
    BY MaxEventsAssumption DEF Event
  <1>2. /\ \A f \in events : MaxEvents - f.sequence \in T
        /\ \A n \in T : \E e \in events : n = MaxEvents - e.sequence
    OBVIOUS
  <1> HIDE DEF T
  <1>3. PICK n \in T : \A m \in T : n <= m
    BY <1>1, LeastExists
  <1>4. PICK e \in events : n = MaxEvents - e.sequence
    BY <1>2
  <1>5. \A f \in events : f.sequence <= e.sequence
    BY <1>2, <1>3, <1>4, MaxEventsAssumption DEF Event
  <1>6. \E k \in {f.sequence : f \in events} : \A f \in events : f.sequence <= k
    BY <1>5
  <1>7. /\ Highest(events) \in {f.sequence : f \in events}
        /\ \A f \in events : f.sequence <= Highest(events)
    BY <1>6 DEF Highest
  <1> QED BY <1>7

-----------------------------------------------------------------------------
(* The first n of a set of rows.                                           *)

(* Whoever is below one of the first n is one of them.                     *)
LEMMA LowestIsClosed ==
  ASSUME NEW events \in SUBSET Event, NEW n \in Nat,
         NEW e \in Lowest(events, n), NEW f \in events, f.sequence <= e.sequence
  PROVE  f \in Lowest(events, n)
  <1>1. e \in events /\ Cardinality(Below(e, events)) < n
    BY DEF Lowest
  <1>2. Below(f, events) \subseteq Below(e, events)
    BY <1>1 DEF Below, Event
  <1>3. IsFiniteSet(Below(e, events)) /\ IsFiniteSet(Below(f, events))
    BY EventsFinite DEF Below
  <1>4. Cardinality(Below(f, events)) <= Cardinality(Below(e, events))
    BY <1>2, <1>3, FS_Subset
  <1>5. /\ Cardinality(Below(f, events)) \in Nat
        /\ Cardinality(Below(e, events)) \in Nat
    BY <1>3, FS_CardinalityType
  <1> QED BY <1>1, <1>4, <1>5 DEF Lowest

(* Fewer than n are all there are.                                         *)
LEMMA FewAreAll ==
  ASSUME NEW events \in SUBSET Event, NEW n \in Nat,
         Cardinality(Lowest(events, n)) < n
  PROVE  Lowest(events, n) = events
  <1> SUFFICES ASSUME events \ Lowest(events, n) # {} PROVE FALSE
    BY DEF Lowest
  <1>1. PICK e \in events \ Lowest(events, n) :
          \A f \in events \ Lowest(events, n) : e.sequence <= f.sequence
    BY LowestExists
  <1>2. Below(e, events) \subseteq Lowest(events, n)
    BY <1>1 DEF Below, Event
  <1>3. Lowest(events, n) \in SUBSET Event /\ Below(e, events) \in SUBSET Event
    BY DEF Lowest, Below
  <1>4. IsFiniteSet(Lowest(events, n)) /\ IsFiniteSet(Below(e, events))
    BY <1>3, EventsFinite
  <1>5. Cardinality(Below(e, events)) <= Cardinality(Lowest(events, n))
    BY <1>2, <1>4, FS_Subset
  <1>6. /\ Cardinality(Below(e, events)) \in Nat
        /\ Cardinality(Lowest(events, n)) \in Nat
    BY <1>4, FS_CardinalityType
  <1> QED BY <1>1, <1>5, <1>6 DEF Lowest

(* No more than n, if their numbers differ.                                *)
LEMMA LowestAreFew ==
  ASSUME NEW events \in SUBSET Event, NEW n \in Nat,
         \A e, f \in events : e.sequence = f.sequence => e = f
  PROVE  Cardinality(Lowest(events, n)) <= n
  <1> DEFINE rows == Lowest(events, n)
  <1>0. /\ rows \in SUBSET Event /\ rows \subseteq events
        /\ \A e \in rows : Cardinality(Below(e, events)) < n
    BY DEF Lowest
  <1> SUFFICES Cardinality(rows) <= n
    OBVIOUS
  <1> HIDE DEF rows
  <1>1. CASE rows = {}
    BY <1>1, FS_EmptySet
  <1>2. CASE rows # {}
    <2>1. PICK e \in rows : e.sequence = Highest(rows)
      BY <1>0, <1>2, HighestExists
    <2>2. \A f \in rows : f.sequence <= e.sequence
      BY <1>0, <1>2, <2>1, HighestExists
    <2>3. Cardinality(Below(e, events)) < n /\ e \in events
      BY <1>0, <2>1
    <2>4. rows \subseteq Below(e, events) \cup {e}
      BY <1>0, <2>2, <2>3 DEF Below, Event
    <2>5. Below(e, events) \in SUBSET Event
      BY DEF Below
    <2>6. IsFiniteSet(Below(e, events)) /\ Cardinality(Below(e, events)) \in Nat
      BY <2>5, EventsFinite, FS_CardinalityType
    <2>7. e \notin Below(e, events)
      BY <2>3 DEF Below, Event
    <2>8. /\ IsFiniteSet(Below(e, events) \cup {e})
          /\ Cardinality(Below(e, events) \cup {e}) = Cardinality(Below(e, events)) + 1
      BY <2>6, <2>7, FS_AddElement
    <2>9. Cardinality(rows) <= Cardinality(Below(e, events)) + 1
      BY <2>4, <2>8, FS_Subset
    <2>10. Cardinality(rows) \in Nat
      BY <1>0, EventsFinite, FS_CardinalityType
    <2> QED BY <2>3, <2>6, <2>9, <2>10
  <1> QED BY <1>1, <1>2
(* A page: the rows up to some number, and all of them unless there is     *)
(* more.                                                                   *)
PageOf(events) == Lowest(Fetched(events), Limit)
IsMore(events) == Cardinality(Fetched(events)) > Limit
LEMMA PageHolds ==
  ASSUME NEW events \in SUBSET Event,
         \A e, f \in events : e.sequence = f.sequence => e = f
  PROVE  /\ PageOf(events) \subseteq events /\ Cardinality(PageOf(events)) <= Limit
         /\ \A e \in events, i \in PageOf(events) :
              e.sequence <= i.sequence => e \in PageOf(events)
         /\ IsMore(events) => PageOf(events) # {}
         /\ ~IsMore(events) => PageOf(events) = events
  <1> DEFINE rows == Fetched(events)
             items == PageOf(events)
  <1>1. Limit \in Nat /\ Limit > 0 /\ Limit + 1 \in Nat
    BY LimitAssumption
  <1>2. /\ rows = Lowest(events, Limit + 1) /\ items = Lowest(rows, Limit)
        /\ IsMore(events) <=> Cardinality(rows) > Limit
    BY DEF Fetched, PageOf, IsMore
  <1> HIDE DEF rows, items
  <1>3. rows \subseteq events /\ items \subseteq rows
    BY <1>2 DEF Lowest
  <1>4. IsFiniteSet(rows) /\ Cardinality(rows) \in Nat
    BY <1>3, EventsFinite, FS_CardinalityType
  <1>5. IsFiniteSet(items) /\ Cardinality(items) \in Nat
    BY <1>3, EventsFinite, FS_CardinalityType
  <1>6. Cardinality(items) <= Limit
    <2>1. rows \in SUBSET Event /\ \A e, f \in rows : e.sequence = f.sequence => e = f
      BY <1>3
    <2> QED BY <1>1, <1>2, <2>1, LowestAreFew
  <1>7. ASSUME NEW e \in events, NEW i \in items, e.sequence <= i.sequence
        PROVE  e \in items
    <2>1. i \in Lowest(events, Limit + 1)
      BY <1>2, <1>3
    <2>2. e \in rows
      BY <1>1, <1>2, <1>7, <2>1, LowestIsClosed
    <2>3. rows \in SUBSET Event /\ i \in Lowest(rows, Limit)
      BY <1>2, <1>3
    <2> QED BY <1>1, <1>2, <1>7, <2>2, <2>3, LowestIsClosed
  <1>8. ASSUME Cardinality(rows) > Limit
        PROVE  items # {}
    <2>1. ASSUME items = {} PROVE FALSE
      <3>1. Cardinality(Lowest(rows, Limit)) < Limit
        BY <1>1, <1>2, <2>1, FS_EmptySet
      <3>2. rows \in SUBSET Event
        BY <1>3
      <3>3. rows = {}
        BY <1>1, <1>2, <2>1, <3>1, <3>2, FewAreAll
      <3> QED BY <1>1, <1>8, <3>3, FS_EmptySet
    <2> QED BY <2>1
  <1>9. ASSUME ~(Cardinality(rows) > Limit)
        PROVE  items = events
    <2>1. Cardinality(rows) < Limit + 1
      BY <1>1, <1>4, <1>9
    <2>2. rows = events
      BY <1>1, <1>2, <2>1, FewAreAll
    <2>3. CASE Cardinality(items) < Limit
      BY <1>1, <1>2, <2>2, <2>3, FewAreAll
    <2>4. CASE Cardinality(items) = Limit
      <3>1. Cardinality(items) <= Cardinality(rows)
        BY <1>3, <1>4, FS_Subset
      <3>2. Cardinality(items) = Cardinality(rows)
        BY <1>1, <1>4, <1>9, <2>4, <3>1
      <3> QED BY <1>3, <1>4, <2>2, <3>2, FS_Subset
    <2> QED BY <1>1, <1>5, <1>6, <2>3, <2>4
  <1> QED BY <1>2, <1>3, <1>6, <1>7, <1>8, <1>9 DEF items

-----------------------------------------------------------------------------
(* The invariant.                                                          *)

(* The events there are, committed or not: no two have the same number,    *)
(* and the next number is higher than all of theirs.                       *)
Inserted == table \cup UNION {pending[t] : t \in Txs}
Numbered ==
  /\ drawn \in 0..MaxEvents
  /\ pending \in [Txs -> SUBSET Event]
  /\ table \subseteq Event
  /\ \A e \in Inserted : e.sequence <= drawn
  /\ \A e, f \in Inserted : e.sequence = f.sequence => e = f

(* The client has nothing from beyond its cursor.                          *)
Follows ==
  /\ cursor \in 0..drawn
  /\ got \subseteq table
  /\ \A e \in got : e.sequence <= cursor

(* A page under way holds what comes next after the cursor, and all of it  *)
(* unless there is more.                                                   *)
IsAhead(e) == e.shown /\ e.sequence > cursor
Reads ==
  page # NoPage =>
    /\ page = [open |-> TRUE, items |-> page.items, more |-> page.more, then |-> page.then]
    /\ page.then \subseteq table /\ page.more \in BOOLEAN
    /\ page.items \subseteq {e \in page.then : IsAhead(e)} /\ Cardinality(page.items) <= Limit
    /\ page.more => page.items # {}
    /\ \A e \in page.then : IsAhead(e) =>
         e \in page.items \/ (page.more /\ \A i \in page.items : i.sequence < e.sequence)

(* The inductive invariant.                                                *)
IInv == Numbered /\ Follows /\ Reads

(* What a page holds goes on being so when only the tables grow.           *)
LEMMA ReadsOn ==
  ASSUME Reads, UNCHANGED <<cursor, page>>, table \subseteq table'
  PROVE  Reads'
  BY DEF Reads, IsAhead

(* A transaction that inserts, commits or gives up.                        *)
LEMMA TransactionKeeps ==
  ASSUME IInv, NEW t \in Txs,
         (\E shown \in BOOLEAN : Insert(t, shown)) \/ Commit(t) \/ Abort(t)
  PROVE  IInv'
  <1>0. /\ drawn \in Nat /\ drawn <= MaxEvents /\ MaxEvents \in Nat
        /\ pending \in [Txs -> SUBSET Event] /\ table \subseteq Event
        /\ cursor \in Nat /\ cursor <= drawn
    BY MaxEventsAssumption DEF IInv, Numbered, Follows
  <1>1. ASSUME NEW shown \in BOOLEAN, Insert(t, shown)
        PROVE  IInv'
    <2> DEFINE new == [sequence |-> drawn + 1, shown |-> shown]
    <2>1. new \in Event /\ new.sequence = drawn + 1 /\ drawn' = drawn + 1
          /\ drawn' \in 0..MaxEvents
      BY <1>0, <1>1 DEF Insert, Event
    <2>2. /\ pending' = [pending EXCEPT ![t] = pending[t] \cup {new}]
          /\ UNCHANGED <<table, cursor, got, page>>
      BY <1>1 DEF Insert
    <2> HIDE DEF new
    <2>3. pending' \in [Txs -> SUBSET Event]
      BY <1>0, <2>1, <2>2
    <2>4. Inserted' \subseteq Inserted \cup {new}
      BY <1>0, <2>2 DEF Inserted
    <2>5. \A e \in Inserted : e.sequence \in Nat /\ e.sequence <= drawn
      BY <1>0 DEF IInv, Numbered, Inserted, Event
    <2>6. \A e \in Inserted' : e.sequence <= drawn'
      BY <1>0, <2>1, <2>4, <2>5
    <2>7. \A e, f \in Inserted' : e.sequence = f.sequence => e = f
      BY <1>0, <2>1, <2>4, <2>5 DEF IInv, Numbered
    <2>8. Numbered'
      BY <1>0, <2>1, <2>2, <2>3, <2>6, <2>7 DEF Numbered
    <2>9. Follows'
      BY <1>0, <2>1, <2>2 DEF IInv, Follows
    <2> QED BY <2>2, <2>8, <2>9, ReadsOn DEF IInv
  <1>2. ASSUME Commit(t) \/ Abort(t)
        PROVE  IInv'
    <2>1. /\ pending' = [pending EXCEPT ![t] = {}]
          /\ table \subseteq table' /\ table' \subseteq table \cup pending[t]
          /\ UNCHANGED <<drawn, cursor, got, page>>
      BY <1>2 DEF Commit, Abort
    <2>2. pending' \in [Txs -> SUBSET Event] /\ table' \subseteq Event
      BY <1>0, <2>1
    <2>3. Inserted' \subseteq Inserted
      BY <1>0, <2>1 DEF Inserted
    <2>4. Numbered'
      BY <2>1, <2>2, <2>3 DEF IInv, Numbered
    <2>5. Follows'
      BY <2>1 DEF IInv, Follows
    <2> QED BY <2>1, <2>4, <2>5, ReadsOn DEF IInv
  <1> QED BY <1>1, <1>2

(* A request that reads its page.                                          *)
LEMMA ReadPageKeeps ==
  ASSUME IInv, ReadPage
  PROVE  IInv'
  <1>1. Ahead \in SUBSET Event /\ Ahead \subseteq table
    BY DEF IInv, Numbered, Ahead
  <1>2. \A e, f \in Ahead : e.sequence = f.sequence => e = f
    BY <1>1 DEF IInv, Numbered, Inserted
  <1>3. page' = [open |-> TRUE, items |-> PageOf(Ahead), more |-> IsMore(Ahead), then |-> table]
    BY DEF ReadPage, PageOf, IsMore
  <1>4. /\ PageOf(Ahead) \subseteq Ahead /\ Cardinality(PageOf(Ahead)) <= Limit
        /\ \A e \in Ahead, i \in PageOf(Ahead) : e.sequence <= i.sequence => e \in PageOf(Ahead)
        /\ IsMore(Ahead) => PageOf(Ahead) # {}
        /\ ~IsMore(Ahead) => PageOf(Ahead) = Ahead
    BY <1>1, <1>2, PageHolds
  <1>5. /\ page'.items = PageOf(Ahead) /\ page'.more = IsMore(Ahead) /\ page'.then = table
        /\ UNCHANGED <<drawn, pending, table, cursor, got>>
    BY <1>3 DEF ReadPage
  <1>6. \A e \in table : e \in Ahead <=> IsAhead(e)
    BY DEF Ahead, IsAhead
  <1>7. IsMore(Ahead) \in BOOLEAN
    BY DEF IsMore
  <1>8. ASSUME NEW e \in table, IsAhead(e), e \notin PageOf(Ahead)
        PROVE  IsMore(Ahead) /\ \A i \in PageOf(Ahead) : i.sequence < e.sequence
    <2>1. e \in Ahead
      BY <1>6, <1>8
    <2>2. \A i \in PageOf(Ahead) : ~(e.sequence <= i.sequence)
      BY <1>4, <1>8, <2>1
    <2>3. \A i \in PageOf(Ahead) : i.sequence < e.sequence
      BY <1>1, <1>4, <2>1, <2>2 DEF Event
    <2> QED BY <1>4, <1>8, <2>1, <2>3
  <1>9. Reads'
    BY <1>1, <1>3, <1>4, <1>5, <1>6, <1>7, <1>8 DEF Reads, IsAhead
  <1>10. Numbered' /\ Follows'
    BY <1>5 DEF IInv, Numbered, Follows, Inserted
  <1> QED BY <1>9, <1>10 DEF IInv

(* Where the client goes on: after the last item, or above all there is.   *)
LEMMA GoesOnAfter ==
  ASSUME IInv, Answer
  PROVE  /\ cursor' \in 0..drawn
         /\ page.more => \E i \in page.items : i.sequence = cursor'
         /\ page.more => \A i \in page.items : i.sequence <= cursor'
         /\ ~page.more => \A e \in table : e.sequence <= cursor'
  <1>1. /\ table \in SUBSET Event /\ page.items \in SUBSET Event /\ page.items \subseteq table
        /\ page.more => page.items # {}
        /\ \A e \in table : e.sequence <= drawn /\ e.sequence \in Nat
        /\ drawn \in Nat
    BY MaxEventsAssumption DEF IInv, Numbered, Reads, Answer, Inserted, Event
  <1>2. CASE page.more
    <2>1. cursor' = Highest(page.items)
      BY <1>2 DEF Answer
    <2>2. /\ \E i \in page.items : i.sequence = cursor'
          /\ \A i \in page.items : i.sequence <= cursor'
      BY <1>1, <1>2, <2>1, HighestExists
    <2> QED BY <1>1, <1>2, <2>2
  <1>3. CASE ~page.more /\ table = {}
    BY <1>1, <1>3 DEF Answer, HighWatermark
  <1>4. CASE ~page.more /\ table # {}
    <2>1. cursor' = Highest(table)
      BY <1>4 DEF Answer, HighWatermark
    <2>2. /\ \E e \in table : e.sequence = cursor'
          /\ \A e \in table : e.sequence <= cursor'
      BY <1>1, <1>4, <2>1, HighestExists
    <2> QED BY <1>1, <1>4, <2>2
  <1> QED BY <1>2, <1>3, <1>4

(* An answer that arrives.                                                 *)
LEMMA AnswerKeeps ==
  ASSUME IInv, Answer
  PROVE  IInv'
  <1>1. /\ UNCHANGED <<drawn, pending, table>>
        /\ got' = got \cup page.items /\ page' = NoPage /\ page # NoPage
    BY DEF Answer
  <1>2. /\ got' \subseteq table' /\ page.items \subseteq table /\ got \subseteq table
    BY <1>1 DEF IInv, Follows, Reads
  <1>3. \A e \in table : e.sequence \in Nat
    BY DEF IInv, Numbered, Event
  <1>4. cursor' \in 0..drawn' /\ cursor' \in Nat /\ cursor \in Nat
    BY <1>1, GoesOnAfter DEF IInv, Follows
  <1>5. \A e \in got' : e.sequence <= cursor'
    <2>1. CASE ~page.more
      BY <1>1, <1>2, <2>1, GoesOnAfter
    <2>2. CASE page.more
      <3>1. PICK i \in page.items : i.sequence = cursor'
        BY <2>2, GoesOnAfter
      <3>2. cursor < cursor'
        BY <1>1, <1>2, <1>3, <1>4, <3>1 DEF IInv, Reads, IsAhead
      <3>3. \A e \in got : e.sequence <= cursor'
        BY <1>2, <1>3, <1>4, <3>2 DEF IInv, Follows
      <3> QED BY <1>1, <2>2, <3>3, GoesOnAfter
    <2> QED BY <2>1, <2>2
  <1>6. Numbered'
    BY <1>1 DEF IInv, Numbered, Inserted
  <1> QED BY <1>1, <1>2, <1>4, <1>5, <1>6 DEF IInv, Follows, Reads

(* Every step keeps the invariant.                                         *)
LEMMA StepKeeps ==
  ASSUME IInv, [Next]_vars
  PROVE  IInv'
  <1>1. CASE UNCHANGED vars
    BY <1>1 DEF vars, IInv, Numbered, Follows, Reads, IsAhead, Inserted
  <1>2. CASE LoseAnswer
    BY <1>2 DEF LoseAnswer, IInv, Numbered, Follows, Reads, Inserted
  <1> QED BY <1>1, <1>2, TransactionKeeps, ReadPageKeeps, AnswerKeeps DEF Next

(* Numbers are unique, the client has nothing from beyond its cursor, and  *)
(* a page under way is complete up to its end.                             *)
THEOREM Invariance == Spec => []IInv
  <1>1. Init => IInv
    BY MaxEventsAssumption DEF Init, IInv, Numbered, Follows, Reads, Inserted
  <1>2. IInv /\ [Next]_vars => IInv'
    BY StepKeeps
  <1> QED BY <1>1, <1>2, PTL DEF Spec

(* The values each variable may take; no number is used twice.             *)
THEOREM TypeCorrect == Spec => []TypeOK
  <1>1. IInv => TypeOK
    BY DEF IInv, Numbered, Follows, Reads, Inserted, TypeOK
  <1> QED BY <1>1, Invariance, PTL

(* Whatever the reader may see between the old cursor and the new one was  *)
(* delivered, if it was in the table when the page was read.               *)
THEOREM NothingIsSkipped == Spec => NothingSkipped
  <1> DEFINE Complete ==
        cursor' # cursor =>
          \A e \in page.then :
            e.shown /\ cursor < e.sequence /\ e.sequence <= cursor' => e \in got'
  <1>1. IInv /\ [Next]_vars => [Complete]_vars
    <2> SUFFICES ASSUME IInv, Answer, NEW e \in page.then,
                        e.shown, cursor < e.sequence, e.sequence <= cursor'
                 PROVE  e \in page.items
      BY DEF Next, Insert, Commit, Abort, ReadPage, LoseAnswer, Answer, vars
    <2>1. /\ page # NoPage /\ cursor \in Nat /\ cursor' \in Nat /\ page.then \subseteq Event
      BY GoesOnAfter DEF Answer, IInv, Numbered, Follows, Reads
    <2>2. e.sequence \in Nat
      BY <2>1 DEF Event
    <2>3. IsAhead(e)
      BY <2>1, <2>2 DEF IsAhead
    <2>4. CASE page.more
      <3>1. PICK i \in page.items : i.sequence = cursor'
        BY <2>4, GoesOnAfter
      <3>2. ~(i.sequence < e.sequence)
        BY <2>1, <2>2, <3>1
      <3> QED BY <2>1, <2>3, <3>2 DEF IInv, Reads
    <2>5. CASE ~page.more
      BY <2>1, <2>3, <2>5 DEF IInv, Reads
    <2> QED BY <2>4, <2>5
  <1> QED BY <1>1, Invariance, PTL DEF Spec, NothingSkipped

(* Nothing is delivered twice, although answers get lost and asked for     *)
(* again.                                                                  *)
THEOREM DeliveredOnlyOnce == Spec => DeliveredOnce
  <1> DEFINE Fresh == got' # got => \A i \in page.items : i \notin got
  <1>1. IInv /\ [Next]_vars => [Fresh]_vars
    <2> SUFFICES ASSUME IInv, Answer, NEW i \in page.items, i \in got
                 PROVE  FALSE
      BY DEF Next, Insert, Commit, Abort, ReadPage, LoseAnswer, Answer, vars
    <2>1. i.sequence > cursor
      BY DEF Answer, IInv, Reads, IsAhead
    <2>2. i.sequence <= cursor /\ cursor \in Nat
      BY DEF IInv, Follows
    <2>3. i.sequence \in Nat
      BY DEF IInv, Follows, Numbered, Event
    <2> QED BY <2>1, <2>2, <2>3
  <1> QED BY <1>1, Invariance, PTL DEF Spec, DeliveredOnce
=============================================================================
