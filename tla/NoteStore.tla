------------------------------ MODULE NoteStore ------------------------------
(***************************************************************************)
(* The notes table and its change feed, as the transactions of             *)
(* internal/store/queries.go read and write them.                          *)
(*                                                                         *)
(* A store is a record                                                     *)
(*   rows    - one row per note identifier; revision 0 stands for "no row" *)
(*   changes - the retained rows of sync_changes                           *)
(*   newest  - the AUTOINCREMENT counter behind sync_changes.sequence      *)
(*                                                                         *)
(* The operators below return the store a transaction leaves behind.       *)
(* Titles, tags, filenames and the search index follow the row and are     *)
(* left out.                                                               *)
(***************************************************************************)
EXTENDS Integers, FiniteSets

CONSTANTS
  Notes,           \* note identifiers
  MaxSyncChanges   \* how many change rows are retained (100000 in the code)

ASSUME MaxSyncChangesAssumption == MaxSyncChanges \in Nat \ {0}

Row    == [revision : Nat, pinOrder : Nat]     \* pinOrder 0: not pinned
Change == [sequence : Nat \ {0}, note : Notes, revision : Nat \ {0}, deleted : BOOLEAN]
Store  == [rows : [Notes -> Row], changes : SUBSET Change, newest : Nat]

NoRow == [revision |-> 0, pinOrder |-> 0]

EmptyStore == [rows |-> [n \in Notes |-> NoRow], changes |-> {}, newest |-> 0]

-----------------------------------------------------------------------------
(* COALESCE(MAX(...), 0) *)
Greatest(S) == IF S = {} THEN 0 ELSE CHOOSE m \in S : \A k \in S : k <= m

Live(db, n) == db.rows[n].revision > 0

ChangesOf(db, n) == {c \in db.changes : c.note = n}

\* Mutated: tombstones are not looked up.
RetainedRevision_Dropped(db, n) == 0

RetainedRevision(db, n) == Greatest({c.revision : c \in ChangesOf(db, n)})

(* The live revision, or the newest tombstone revision still retained. *)
CurrentRevision(db, n) ==
  IF Live(db, n) THEN db.rows[n].revision ELSE RetainedRevision(db, n)

(* A row must carry the expected revision. Without a row the only check      *)
(* that succeeds is "expected 0, and no tombstone is retained".              *)
RevisionConflict(db, n, expected) ==
  IF Live(db, n)
  THEN db.rows[n].revision # expected
  ELSE expected # 0 \/ CurrentRevision(db, n) # 0

\* Mutated: the maximum is taken over the wrong rows.
NextPinOrder_WrongRows(db) ==
  Greatest({db.rows[n].pinOrder : n \in {m \in Notes : db.rows[m].pinOrder = 0}}) + 1

NextPinOrder(db) == Greatest({db.rows[n].pinOrder : n \in Notes}) + 1

-----------------------------------------------------------------------------
(* DELETE FROM sync_changes WHERE sequence <= newest - maxSyncChanges *)
Compacted(changes, newest) ==
  {c \in changes : c.sequence > newest - MaxSyncChanges}

(* Every write to a note appends one change row and compacts the feed. *)
Write(db, n, row, revision, deleted) ==
  LET change == [sequence |-> db.newest + 1, note |-> n,
                 revision |-> revision, deleted |-> deleted]
  IN  [rows    |-> [db.rows EXCEPT ![n] = row],
       changes |-> Compacted(db.changes \cup {change}, db.newest + 1),
       newest  |-> db.newest + 1]

(* An insert continues from the newest retained tombstone revision, an       *)
(* update from the row; the pin of an existing row is kept.                  *)
Upsert(db, n, pinOrder) ==
  LET revision == CurrentRevision(db, n) + 1
  IN  Write(db, n, [revision |-> revision, pinOrder |-> pinOrder], revision, FALSE)

\* Mutated: the tombstone repeats the last live revision.
Delete_SameRevision(db, n) == Write(db, n, NoRow, db.rows[n].revision, TRUE)

Delete(db, n) == Write(db, n, NoRow, db.rows[n].revision + 1, TRUE)

Pin(db, n, pinned) ==
  LET revision == db.rows[n].revision + 1
      order    == IF pinned THEN NextPinOrder(db) ELSE 0
  IN  Write(db, n, [revision |-> revision, pinOrder |-> order], revision, FALSE)

-----------------------------------------------------------------------------
(* The newest retained change of a note describes its row: a live note's     *)
(* last change carries the row's revision, a deleted note's last change is   *)
(* the tombstone. Readers of the feed end up with the rows for this reason.  *)
FeedDescribesRows(db) ==
  \A n \in Notes : \A c \in ChangesOf(db, n) :
    (\A d \in ChangesOf(db, n) : d.sequence <= c.sequence)
      => /\ c.deleted <=> ~Live(db, n)
         /\ Live(db, n) => c.revision = db.rows[n].revision

(* Along the feed a note's revisions only grow. *)
FeedRevisionsGrow(db) ==
  \A c, d \in db.changes :
    c.note = d.note /\ c.sequence < d.sequence => c.revision < d.revision

(* No two pinned notes share a place in the pin order. *)
PinOrdersDistinct(db) ==
  \A m, n \in Notes :
    m # n /\ db.rows[m].pinOrder > 0 => db.rows[m].pinOrder # db.rows[n].pinOrder

=============================================================================
