--------------------------- MODULE NoteStore_proofs ---------------------------
(***************************************************************************)
(* Facts about the note store's operators: what Greatest returns, that the *)
(* writes keep a store a store, and what they do to revisions, to the feed *)
(* and to the pin order. They hold for every number of notes and every     *)
(* length of the retained feed.                                            *)
(***************************************************************************)
EXTENDS NoteStore, TLAPS, WellFoundedInduction

(* A non-empty set of naturals has a least element. *)
LEMMA LeastOfNats ==
  ASSUME NEW T, T \subseteq Nat, T # {}
  PROVE  \E x \in T : \A y \in T : x <= y
<1> DEFINE R == OpToRel(<, Nat)
<1>1. IsWellFoundedOn(R, Nat)
  BY NatLessThanWellFounded
<1>2. \A x, y \in T : <<y, x>> \in R <=> y < x
  BY DEF OpToRel
<1> HIDE DEF R
<1>3. PICK x \in T : \A y \in T : ~(<<y, x>> \in R)
  BY <1>1, WFMin
<1>4. \A y \in T : ~(y < x)
  BY <1>2, <1>3
<1> QED BY <1>4

(* A non-empty set of naturals with a bound has a greatest element. *)
LEMMA GreatestOfBounded ==
  ASSUME NEW S, S \subseteq Nat, S # {}, NEW b \in Nat, \A s \in S : s <= b
  PROVE  \E x \in S : \A y \in S : y <= x
<1> DEFINE T == {b - s : s \in S}
<1>1. T \subseteq Nat
  OBVIOUS
<1>0. T # {}
  OBVIOUS
<1>2. PICK t \in T : \A y \in T : t <= y
  <2> HIDE DEF T
  <2> QED BY <1>1, <1>0, LeastOfNats
<1>3. PICK x \in S : t = b - x
  BY <1>2
<1>4. \A y \in S : b - x <= b - y
  BY <1>2, <1>3
<1> QED BY <1>3, <1>4

(* COALESCE(MAX(...), 0) of a bounded set of naturals is a bound within the  *)
(* same limit, and it is reached unless it is 0.                             *)
LEMMA GreatestBounds ==
  ASSUME NEW S, S \subseteq Nat, NEW b \in Nat, \A s \in S : s <= b
  PROVE  /\ Greatest(S) \in Nat
         /\ Greatest(S) <= b
         /\ \A s \in S : s <= Greatest(S)
         /\ S # {} => Greatest(S) \in S
<1>1. CASE S = {}
  BY <1>1 DEF Greatest
<1>2. CASE S # {}
  <2>1. \E m \in S : \A k \in S : k <= m
    BY <1>2, GreatestOfBounded
  <2>2. Greatest(S) \in S /\ \A k \in S : k <= Greatest(S)
    BY <1>2, <2>1 DEF Greatest
  <2> QED BY <2>2
<1> QED BY <1>1, <1>2

-----------------------------------------------------------------------------
(* Every number in a store is reached by counting change rows, so it is at   *)
(* most the number of the newest one. The maxima that the queries take exist *)
(* for this reason.                                                          *)
Counted(db) ==
  /\ db \in Store
  /\ \A n \in Notes : db.rows[n].revision <= db.newest /\ db.rows[n].pinOrder <= db.newest
  /\ \A c \in db.changes : c.sequence <= db.newest /\ c.revision <= db.newest

(* A revision number is only used once per note as long as the newest        *)
(* retained one is known: no retained change is newer than the row.          *)
RevisionsBelowRow(db) ==
  \A c \in db.changes : c.revision <= CurrentRevision(db, c.note)

(* The retained changes have distinct places in the feed. *)
SequencesDistinct(db) ==
  \A c, d \in db.changes : c.sequence = d.sequence => c = d

LEMMA EmptyStoreCounted == Counted(EmptyStore)
BY DEF Counted, EmptyStore, Store, Row, NoRow

(* The revision a check or a write starts from is a natural. *)
LEMMA CurrentRevisionCounted ==
  ASSUME NEW db, Counted(db), NEW n \in Notes
  PROVE  /\ CurrentRevision(db, n) \in Nat
         /\ CurrentRevision(db, n) <= db.newest
         /\ Live(db, n) => CurrentRevision(db, n) = db.rows[n].revision
         /\ ~Live(db, n) => /\ CurrentRevision(db, n) = RetainedRevision(db, n)
                            /\ \A c \in ChangesOf(db, n) : c.revision <= RetainedRevision(db, n)
<1> DEFINE S == {c.revision : c \in ChangesOf(db, n)}
<1>1. db.rows[n].revision \in Nat /\ db.newest \in Nat /\ db.rows[n].revision <= db.newest
  BY DEF Counted, Store, Row
<1>2. S \subseteq Nat /\ \A s \in S : s <= db.newest
  BY DEF Counted, Store, Change, ChangesOf
<1>3. /\ Greatest(S) \in Nat
      /\ Greatest(S) <= db.newest
      /\ \A s \in S : s <= Greatest(S)
  <2> HIDE DEF S
  <2> QED BY <1>1, <1>2, GreatestBounds
<1> QED BY <1>1, <1>3 DEF CurrentRevision, RetainedRevision, Live

(* The next pin order is a new one. *)
LEMMA NextPinOrderIsNew ==
  ASSUME NEW db, Counted(db)
  PROVE  /\ NextPinOrder(db) \in Nat \ {0}
         /\ NextPinOrder(db) <= db.newest + 1
         /\ \A n \in Notes : db.rows[n].pinOrder < NextPinOrder(db)
<1> DEFINE S == {db.rows[n].pinOrder : n \in Notes}
<1>1. db.newest \in Nat /\ \A n \in Notes : db.rows[n].pinOrder \in Nat
  BY DEF Counted, Store, Row
<1>2. S \subseteq Nat /\ \A s \in S : s <= db.newest
  BY <1>1 DEF Counted
<1>3. /\ Greatest(S) \in Nat
      /\ Greatest(S) <= db.newest
      /\ \A s \in S : s <= Greatest(S)
  <2> HIDE DEF S
  <2> QED BY <1>1, <1>2, GreatestBounds
<1>4. NextPinOrder(db) = Greatest(S) + 1
  BY DEF NextPinOrder
<1> HIDE DEF S
<1>5. \A n \in Notes : db.rows[n].pinOrder \in S
  BY DEF S
<1> QED BY <1>1, <1>3, <1>4, <1>5

(* A write keeps a store a store and its numbers counted. *)
LEMMA WriteCounted ==
  ASSUME NEW db, Counted(db), NEW n \in Notes, NEW row \in Row, NEW revision \in Nat \ {0},
         NEW deleted \in BOOLEAN,
         row.revision <= db.newest + 1, row.pinOrder <= db.newest + 1, revision <= db.newest + 1
  PROVE  Counted(Write(db, n, row, revision, deleted))
<1> DEFINE change == [sequence |-> db.newest + 1, note |-> n,
                      revision |-> revision, deleted |-> deleted]
           new    == Write(db, n, row, revision, deleted)
<1>1. db.newest \in Nat /\ db.rows \in [Notes -> Row] /\ db.changes \subseteq Change
  BY DEF Counted, Store
<1>2. change \in Change
  BY <1>1 DEF Change
<1>3. /\ new.rows = [db.rows EXCEPT ![n] = row]
      /\ new.changes \subseteq db.changes \cup {change}
      /\ new.newest = db.newest + 1
      /\ new = [rows |-> new.rows, changes |-> new.changes, newest |-> new.newest]
  BY DEF Write, Compacted
<1> HIDE DEF new, change
<1>4. new \in Store
  BY <1>1, <1>2, <1>3 DEF Store
<1>5. \A m \in Notes : new.rows[m].revision <= new.newest /\ new.rows[m].pinOrder <= new.newest
  <2> TAKE m \in Notes
  <2>1. CASE m = n
    BY <2>1, <1>1, <1>3
  <2>2. CASE m # n
    BY <2>2, <1>1, <1>3 DEF Counted, Row
  <2> QED BY <2>1, <2>2
<1>6. \A c \in new.changes : c.sequence <= new.newest /\ c.revision <= new.newest
  <2> TAKE c \in new.changes
  <2>1. CASE c = change
    BY <2>1, <1>1, <1>3 DEF change
  <2>2. CASE c \in db.changes
    BY <2>2, <1>1, <1>3 DEF Counted, Change
  <2> QED BY <2>1, <2>2, <1>3
<1>7. Counted(new)
  BY <1>4, <1>5, <1>6 DEF Counted
<1> QED BY <1>7 DEF new

-----------------------------------------------------------------------------
(* The three writes of the API, each from a note in the state it requires. *)
LEMMA UpsertCounted ==
  ASSUME NEW db, Counted(db), NEW n \in Notes, NEW pinOrder \in Nat, pinOrder <= db.newest + 1
  PROVE  Counted(Upsert(db, n, pinOrder))
<1> DEFINE revision == CurrentRevision(db, n) + 1
<1>1. db.newest \in Nat /\ revision \in Nat \ {0} /\ revision <= db.newest + 1
  BY CurrentRevisionCounted DEF Counted, Store
<1>2. [revision |-> revision, pinOrder |-> pinOrder] \in Row
  BY <1>1 DEF Row
<1>3. Upsert(db, n, pinOrder)
        = Write(db, n, [revision |-> revision, pinOrder |-> pinOrder], revision, FALSE)
  BY DEF Upsert
<1> HIDE DEF revision
<1> QED BY <1>1, <1>2, <1>3, WriteCounted

LEMMA DeleteCounted ==
  ASSUME NEW db, Counted(db), NEW n \in Notes
  PROVE  Counted(Delete(db, n))
<1> DEFINE revision == db.rows[n].revision + 1
<1>1. db.newest \in Nat /\ revision \in Nat \ {0} /\ revision <= db.newest + 1
  BY DEF Counted, Store, Row
<1>2. NoRow \in Row /\ NoRow.revision = 0 /\ NoRow.pinOrder = 0
  BY DEF Row, NoRow
<1>3. Delete(db, n) = Write(db, n, NoRow, revision, TRUE)
  BY DEF Delete
<1> HIDE DEF revision
<1>4. NoRow.revision <= db.newest + 1 /\ NoRow.pinOrder <= db.newest + 1
  BY <1>1, <1>2
<1> QED BY <1>1, <1>2, <1>3, <1>4, WriteCounted

LEMMA PinCounted ==
  ASSUME NEW db, Counted(db), NEW n \in Notes, NEW pinned
  PROVE  Counted(Pin(db, n, pinned))
<1> DEFINE revision == db.rows[n].revision + 1
           order    == IF pinned THEN NextPinOrder(db) ELSE 0
<1>1. db.newest \in Nat /\ revision \in Nat \ {0} /\ revision <= db.newest + 1
  BY DEF Counted, Store, Row
<1>2. order \in Nat /\ order <= db.newest + 1
  BY <1>1, NextPinOrderIsNew
<1>3. [revision |-> revision, pinOrder |-> order] \in Row
  BY <1>1, <1>2 DEF Row
<1>4. Pin(db, n, pinned)
        = Write(db, n, [revision |-> revision, pinOrder |-> order], revision, FALSE)
  BY DEF Pin
<1> HIDE DEF revision, order
<1> QED BY <1>1, <1>2, <1>3, <1>4, WriteCounted

-----------------------------------------------------------------------------
(* The feed: what a reader may rely on, with what keeps it so. *)
FeedInv(db) ==
  /\ Counted(db)
  /\ SequencesDistinct(db)
  /\ RevisionsBelowRow(db)
  /\ FeedDescribesRows(db)
  /\ FeedRevisionsGrow(db)

LEMMA EmptyStoreFeed == FeedInv(EmptyStore)
BY EmptyStoreCounted
   DEF FeedInv, EmptyStore, SequencesDistinct, RevisionsBelowRow, FeedDescribesRows,
       FeedRevisionsGrow, ChangesOf

(* A write of the next revision keeps the feed in step with the rows,        *)
(* however many old changes it compacts away.                                *)
LEMMA WriteKeepsFeed ==
  ASSUME NEW db, FeedInv(db), NEW n \in Notes, NEW row \in Row, NEW deleted \in BOOLEAN,
         NEW revision, revision = CurrentRevision(db, n) + 1,
         Counted(Write(db, n, row, revision, deleted)),
         deleted => row.revision = 0, ~deleted => row.revision = revision
  PROVE  FeedInv(Write(db, n, row, revision, deleted))
<1> DEFINE change == [sequence |-> db.newest + 1, note |-> n,
                      revision |-> revision, deleted |-> deleted]
           new    == Write(db, n, row, revision, deleted)
<1>1. /\ Counted(db) /\ Counted(new)
      /\ db.newest \in Nat /\ db.rows \in [Notes -> Row] /\ db.changes \subseteq Change
      /\ \A c \in db.changes : c.sequence <= db.newest
  BY DEF FeedInv, Counted, Store
<1>0. /\ new.rows = [db.rows EXCEPT ![n] = row]
      /\ new.newest = db.newest + 1
      /\ new.changes = Compacted(db.changes \cup {change}, db.newest + 1)
  BY DEF Write
<1>3. change.sequence = db.newest + 1 /\ change.note = n /\ change.revision = revision
      /\ change.deleted = deleted
  OBVIOUS
<1> HIDE DEF new, change
<1>2. /\ new.rows = [db.rows EXCEPT ![n] = row]
      /\ new.newest = db.newest + 1
      /\ \A c \in new.changes :
           c \in db.changes \cup {change} /\ c.sequence > db.newest + 1 - MaxSyncChanges
      /\ \A c \in db.changes \cup {change} :
           c.sequence > db.newest + 1 - MaxSyncChanges => c \in new.changes
  <2>1. \A c \in db.changes \cup {change} : c.sequence \in Nat
    BY <1>1, <1>3 DEF Change
  <2> QED BY <1>0, <1>1, <2>1, MaxSyncChangesAssumption DEF Compacted
<1>4. CurrentRevision(db, n) \in Nat /\ revision \in Nat \ {0}
  BY <1>1, CurrentRevisionCounted
<1>5. change \in new.changes
  BY <1>1, <1>2, <1>3, MaxSyncChangesAssumption
<1>6. \A c \in new.changes : c = change \/ (c \in db.changes /\ c \in Change /\ c.sequence <= db.newest)
  BY <1>1, <1>2
<1>7. /\ new.rows[n] = row
      /\ \A m \in Notes \ {n} : new.rows[m] = db.rows[m]
  BY <1>1, <1>2
<1>8. SequencesDistinct(new)
  BY <1>1, <1>3, <1>6 DEF SequencesDistinct, FeedInv, Change
<1>9. RevisionsBelowRow(new)
  <2> SUFFICES ASSUME NEW c \in new.changes
               PROVE  c.revision <= CurrentRevision(new, c.note)
    BY DEF RevisionsBelowRow
  <2>1. c.note \in Notes
    BY <1>3, <1>6 DEF Change
  <2>2. CASE ~Live(new, c.note)
    BY <2>1, <2>2, <1>1, CurrentRevisionCounted DEF ChangesOf
  <2>3. CASE Live(new, c.note) /\ c.note # n
    <3>1. c \in db.changes /\ c.revision <= CurrentRevision(db, c.note)
      BY <2>3, <1>3, <1>6 DEF FeedInv, RevisionsBelowRow
    <3>2. CurrentRevision(new, c.note) = CurrentRevision(db, c.note)
      BY <2>1, <2>3, <1>7 DEF CurrentRevision, Live
    <3> QED BY <3>1, <3>2
  <2>4. CASE Live(new, c.note) /\ c.note = n
    <3>1. CurrentRevision(new, n) = revision
      BY <2>4, <1>7, <1>4 DEF CurrentRevision, Live
    <3>2. CASE c = change
      BY <3>1, <3>2, <2>4, <1>3, <1>4
    <3>3. CASE c \in db.changes /\ c \in Change
      <4>1. c.revision <= CurrentRevision(db, n) /\ c.revision \in Nat
        BY <3>3, <2>4 DEF FeedInv, RevisionsBelowRow, Change
      <4> QED BY <4>1, <3>1, <2>4, <1>4
    <3> QED BY <3>2, <3>3, <1>6
  <2> QED BY <2>2, <2>3, <2>4
<1>10. FeedDescribesRows(new)
  <2> SUFFICES ASSUME NEW m \in Notes, NEW c \in ChangesOf(new, m),
                      \A d \in ChangesOf(new, m) : d.sequence <= c.sequence
               PROVE  /\ c.deleted <=> ~Live(new, m)
                      /\ Live(new, m) => c.revision = new.rows[m].revision
    BY DEF FeedDescribesRows
  <2>1. c \in new.changes /\ c.note = m
    BY DEF ChangesOf
  <2>2. CASE m = n
    <3>1. change \in ChangesOf(new, m)
      BY <2>2, <1>3, <1>5 DEF ChangesOf
    <3>2. c = change
      BY <3>1, <2>1, <1>1, <1>3, <1>6 DEF Change
    <3>3. row.revision \in Nat /\ row = new.rows[m]
      BY <2>2, <1>7 DEF Row
    <3> QED BY <3>2, <3>3, <1>3, <1>4, <2>2 DEF Live
  <2>3. CASE m # n
    <3>1. c \in db.changes /\ c \in Change /\ c \in ChangesOf(db, m)
      BY <2>1, <2>3, <1>3, <1>6 DEF ChangesOf
    <3>2. ASSUME NEW d \in ChangesOf(db, m)
          PROVE  d.sequence <= c.sequence
      <4>1. d \in db.changes /\ d.note = m /\ d.sequence \in Nat
        BY <1>1 DEF ChangesOf, Change
      <4>2. CASE d.sequence > db.newest + 1 - MaxSyncChanges
        BY <4>1, <4>2, <1>2 DEF ChangesOf
      <4>3. CASE ~(d.sequence > db.newest + 1 - MaxSyncChanges)
        <5>1. c.sequence > db.newest + 1 - MaxSyncChanges /\ c.sequence \in Nat
          BY <2>1, <3>1, <1>2 DEF Change
        <5> QED BY <5>1, <4>1, <4>3, <1>1, MaxSyncChangesAssumption
      <4> QED BY <4>2, <4>3
    <3>3. /\ c.deleted <=> ~Live(db, m)
          /\ Live(db, m) => c.revision = db.rows[m].revision
      BY <3>1, <3>2 DEF FeedInv, FeedDescribesRows
    <3> QED BY <3>3, <2>3, <1>7 DEF Live
  <2> QED BY <2>2, <2>3
<1>11. FeedRevisionsGrow(new)
  <2> SUFFICES ASSUME NEW c \in new.changes, NEW d \in new.changes,
                      c.note = d.note, c.sequence < d.sequence
               PROVE  c.revision < d.revision
    BY DEF FeedRevisionsGrow
  <2>1. CASE c = change
    <3>1. d \in db.changes => d.sequence \in Nat /\ d.sequence <= db.newest
      BY <1>1 DEF Change
    <3> QED BY <2>1, <3>1, <1>1, <1>3, <1>6
  <2>2. CASE c \in db.changes /\ d \in db.changes
    BY <2>2 DEF FeedInv, FeedRevisionsGrow
  <2>3. CASE c \in db.changes /\ d = change
    <3>1. c.revision <= CurrentRevision(db, n) /\ c.revision \in Nat
      BY <2>3, <1>1, <1>3 DEF FeedInv, RevisionsBelowRow, Change
    <3> QED BY <3>1, <2>3, <1>3, <1>4
  <2> QED BY <2>1, <2>2, <2>3, <1>6
<1>12. FeedInv(new)
  BY <1>1, <1>8, <1>9, <1>10, <1>11 DEF FeedInv
<1> QED BY <1>12 DEF new

LEMMA UpsertKeepsFeed ==
  ASSUME NEW db, FeedInv(db), NEW n \in Notes, NEW pinOrder \in Nat, pinOrder <= db.newest + 1
  PROVE  FeedInv(Upsert(db, n, pinOrder))
<1> DEFINE revision == CurrentRevision(db, n) + 1
           row      == [revision |-> revision, pinOrder |-> pinOrder]
<1>1. Counted(db) /\ Counted(Upsert(db, n, pinOrder))
  BY UpsertCounted DEF FeedInv
<1>2. revision \in Nat
  BY <1>1, CurrentRevisionCounted
<1>3. row \in Row /\ row.revision = revision
  BY <1>2 DEF Row
<1>4. Upsert(db, n, pinOrder) = Write(db, n, row, revision, FALSE)
  BY DEF Upsert
<1>5. revision = CurrentRevision(db, n) + 1
  OBVIOUS
<1> HIDE DEF revision, row
<1> QED BY <1>1, <1>3, <1>4, <1>5, WriteKeepsFeed

LEMMA DeleteKeepsFeed ==
  ASSUME NEW db, FeedInv(db), NEW n \in Notes, Live(db, n)
  PROVE  FeedInv(Delete(db, n))
<1> DEFINE revision == db.rows[n].revision + 1
<1>1. Counted(db) /\ Counted(Delete(db, n))
  BY DeleteCounted DEF FeedInv
<1>2. revision = CurrentRevision(db, n) + 1
  BY DEF CurrentRevision
<1>3. NoRow \in Row /\ NoRow.revision = 0
  BY DEF Row, NoRow
<1>4. Delete(db, n) = Write(db, n, NoRow, revision, TRUE)
  BY DEF Delete
<1> HIDE DEF revision
<1> QED BY <1>1, <1>2, <1>3, <1>4, WriteKeepsFeed

LEMMA PinKeepsFeed ==
  ASSUME NEW db, FeedInv(db), NEW n \in Notes, NEW pinned, Live(db, n)
  PROVE  FeedInv(Pin(db, n, pinned))
<1> DEFINE revision == db.rows[n].revision + 1
           row      == [revision |-> revision,
                        pinOrder |-> IF pinned THEN NextPinOrder(db) ELSE 0]
<1>1. Counted(db) /\ Counted(Pin(db, n, pinned))
  BY PinCounted DEF FeedInv
<1>2. revision = CurrentRevision(db, n) + 1
  BY DEF CurrentRevision
<1>3. row \in Row /\ row.revision = revision
  BY <1>1, <1>2, CurrentRevisionCounted, NextPinOrderIsNew DEF Row
<1>4. Pin(db, n, pinned) = Write(db, n, row, revision, FALSE)
  BY DEF Pin
<1> HIDE DEF revision, row
<1> QED BY <1>1, <1>2, <1>3, <1>4, WriteKeepsFeed

(* A write that keeps the note's place in the pin order, gives it up or      *)
(* takes the next one leaves all places distinct.                            *)
LEMMA WriteKeepsPinOrder ==
  ASSUME NEW db, Counted(db), PinOrdersDistinct(db), NEW n \in Notes, NEW row, NEW revision,
         NEW deleted, row.pinOrder \in {0, db.rows[n].pinOrder, NextPinOrder(db)}
  PROVE  PinOrdersDistinct(Write(db, n, row, revision, deleted))
<1> DEFINE new == Write(db, n, row, revision, deleted)
<1>1. db.rows \in [Notes -> Row] /\ new.rows = [db.rows EXCEPT ![n] = row]
  BY DEF Counted, Store, Write
<1> HIDE DEF new
<1>2. /\ new.rows[n] = row
      /\ \A m \in Notes \ {n} : new.rows[m] = db.rows[m]
  BY <1>1
<1>3. \A m \in Notes : db.rows[m].pinOrder \in Nat /\ db.rows[m].pinOrder < NextPinOrder(db)
  BY <1>1, NextPinOrderIsNew DEF Row
<1>4. NextPinOrder(db) \in Nat \ {0}
  BY NextPinOrderIsNew
<1>5. ASSUME NEW m \in Notes, m # n, row.pinOrder > 0
      PROVE  row.pinOrder # db.rows[m].pinOrder
  <2>1. CASE row.pinOrder = db.rows[n].pinOrder
    BY <1>5, <2>1 DEF PinOrdersDistinct
  <2>2. CASE row.pinOrder = NextPinOrder(db)
    BY <2>2, <1>3, <1>4
  <2> QED BY <1>5, <2>1, <2>2
<1>6. PinOrdersDistinct(new)
  <2> SUFFICES ASSUME NEW l \in Notes, NEW m \in Notes, l # m, new.rows[l].pinOrder > 0
               PROVE  new.rows[l].pinOrder # new.rows[m].pinOrder
    BY DEF PinOrdersDistinct
  <2>1. CASE l = n
    BY <2>1, <1>2, <1>5
  <2>2. CASE m = n
    BY <2>2, <1>2, <1>3, <1>5
  <2>3. CASE l # n /\ m # n
    BY <2>3, <1>2 DEF PinOrdersDistinct
  <2> QED BY <2>1, <2>2, <2>3
<1> QED BY <1>6 DEF new

-----------------------------------------------------------------------------
(* As long as nothing has been compacted away, a write raises the current    *)
(* revision of its note past every earlier one and leaves the others alone.  *)
LEMMA WriteRaisesRevision ==
  ASSUME NEW db, FeedInv(db), NEW n \in Notes, NEW row \in Row, NEW deleted \in BOOLEAN,
         NEW revision, revision = CurrentRevision(db, n) + 1,
         Counted(Write(db, n, row, revision, deleted)),
         deleted => row.revision = 0, ~deleted => row.revision = revision,
         db.newest + 1 <= MaxSyncChanges
  PROVE  /\ revision <= CurrentRevision(Write(db, n, row, revision, deleted), n)
         /\ \A m \in Notes \ {n} :
              CurrentRevision(Write(db, n, row, revision, deleted), m) = CurrentRevision(db, m)
<1> DEFINE change == [sequence |-> db.newest + 1, note |-> n,
                      revision |-> revision, deleted |-> deleted]
           new    == Write(db, n, row, revision, deleted)
<1>1. /\ Counted(db) /\ Counted(new)
      /\ db.newest \in Nat /\ db.rows \in [Notes -> Row] /\ db.changes \subseteq Change
  BY DEF FeedInv, Counted, Store
<1>2. /\ new.rows = [db.rows EXCEPT ![n] = row]
      /\ new.changes = Compacted(db.changes \cup {change}, db.newest + 1)
  BY DEF Write
<1>3. change.sequence = db.newest + 1 /\ change.note = n /\ change.revision = revision
  OBVIOUS
<1> HIDE DEF new, change
<1>4. new.changes = db.changes \cup {change}
  <2>1. \A c \in db.changes \cup {change} : c.sequence \in Nat \ {0}
    BY <1>1, <1>3 DEF Change
  <2> QED BY <1>1, <1>2, <2>1, MaxSyncChangesAssumption DEF Compacted
<1>5. revision \in Nat \ {0}
  BY <1>1, CurrentRevisionCounted
<1>6. revision <= CurrentRevision(new, n)
  <2>1. CASE Live(new, n)
    BY <2>1, <1>1, <1>2, <1>5 DEF CurrentRevision, Live, Row
  <2>2. CASE ~Live(new, n)
    <3>1. change \in ChangesOf(new, n)
      BY <1>3, <1>4 DEF ChangesOf
    <3> QED BY <2>2, <3>1, <1>1, <1>3, CurrentRevisionCounted
  <2> QED BY <2>1, <2>2
<1>7. ASSUME NEW m \in Notes \ {n}
      PROVE  CurrentRevision(new, m) = CurrentRevision(db, m)
  <2>1. new.rows[m] = db.rows[m]
    BY <1>1, <1>2
  <2>2. ChangesOf(new, m) = ChangesOf(db, m)
    BY <1>3, <1>4 DEF ChangesOf
  <2> QED BY <2>1, <2>2 DEF CurrentRevision, RetainedRevision, Live
<1> QED BY <1>6, <1>7 DEF new
=============================================================================
