-------------------------- MODULE ChangePull_proofs --------------------------
(***************************************************************************)
(* The cursor of the change feed never runs ahead of the cache, and the    *)
(* cache never goes back, for every page size, every retention and every   *)
(* set of notes; an answer stored late for a note opened by its address is *)
(* the one exception, and stays with that note.                            *)
(***************************************************************************)
EXTENDS ChangePull, NoteStore_proofs, SequenceTheorems, FiniteSetTheorems

HistoryEntry == [note : Notes, deleted : BOOLEAN]

(* The server: the retained changes are the newest ones and are told as they *)
(* were made, and a note's state is what its last change left.               *)
Retained ==
  /\ \A c \in db.changes :
       /\ c.sequence \in 1 .. Len(history)
       /\ history[c.sequence] = [note |-> c.note, deleted |-> c.deleted]
  /\ \A s \in 1 .. Len(history) :
       (\E c \in db.changes : c.sequence = s) \/ \A c \in db.changes : s < c.sequence

StoredIsLast == \A n \in Notes : Reflects(Stored(n), n, Len(history))

ServerInv ==
  /\ FeedInv(db)
  /\ history \in Seq(HistoryEntry)
  /\ Len(history) = db.newest
  /\ db.newest <= MaxWrites
  /\ Retained
  /\ StoredIsLast

(* The browser, without the pull in progress.                                *)
BrowserTyped ==
  /\ local \in [Notes -> Version]
  /\ cursor \in 0 .. Len(history)
  /\ guards \in [Notes -> Guards]
  /\ base \in [Notes -> Nat]
  /\ dirty \in Notes \cup {None}
  /\ restore \in Restore
  /\ budget \in [edits : 0 .. MaxEdits, failures : 0 .. MaxFailures,
                 restores : 0 .. MaxRestores]
  /\ passedOver \subseteq Notes /\ restored \subseteq Notes

(* A page is a contiguous part of what was retained, up to its end.          *)
PageFits ==
  At("changes") =>
    /\ pull.next \in cursor .. Len(history)
    /\ \A c \in pull.page :
         /\ c.sequence \in cursor + 1 .. pull.next
         /\ history[c.sequence] = [note |-> c.note, deleted |-> c.deleted]
    /\ \A s \in cursor + 1 .. pull.next :
         (\E c \in pull.page : c.sequence = s) \/ \A c \in pull.page : s < c.sequence

(* What was downloaded for this step of the cursor is new enough for it.     *)
FreshEnough ==
  At("changes") \/ At("snapshot") =>
    \A n \in pull.fresh : Reflects(pull.fetched[n], n, pull.next)

(* A snapshot has a baseline, and lacks only notes that were gone by then.   *)
SnapshotFits ==
  /\ At("reset") \/ At("snapshot") => pull.next \in cursor .. Len(history)
  /\ At("snapshot") =>
       /\ \A n \in Notes \ pull.listed : Reflects(Missing, n, pull.next)
       /\ \A n \in Notes : n \in pull.fresh <=> pull.fetched[n] # Missing

PullInv ==
  /\ pull \in Pull
  /\ At("feed") \/ At("rows") \/ At("changes") => pull.since = cursor
  /\ At("feed") \/ At("rows") => pull.fresh = {}
  /\ pull.todo # {} => At("changes") \/ At("snapshot")
  /\ PageFits
  /\ FreshEnough
  /\ SnapshotFits

(* The cursor does not run ahead of the cache, of a guarded note either: its *)
(* guard may go at any time. A note in conflict with a deletion was gone.    *)
Kept ==
  \A n \in Notes \ passedOver :
    /\ Covered(n)
    /\ guards[n] = "deleted" => Reflects(Missing, n, cursor)

(* An answer that no cursor has overtaken is new enough to be stored.        *)
RestoreInv ==
  /\ restore.pc # "idle" => restore.note \in Notes
  /\ restore.pc = "got" /\ ~restore.passed => Reflects(restore.got, restore.note, cursor)

Inv == ServerInv /\ BrowserTyped /\ PullInv /\ RestoreInv /\ Kept

-----------------------------------------------------------------------------
LEMMA InitInv == Init => Inv
<1> SUFFICES ASSUME Init PROVE Inv
  OBVIOUS
<1>1. ServerInv
  <2>1. FeedInv(db)
    BY EmptyStoreFeed DEF Init
  <2>2. history \in Seq(HistoryEntry) /\ Len(history) = 0 /\ db.newest = 0 /\ db.changes = {}
    BY DEF Init, EmptyStore
  <2>3. \A n \in Notes : ~Live(db, n)
    BY DEF Init, EmptyStore, NoRow, Live
  <2>4. StoredIsLast
    BY <2>2, <2>3 DEF StoredIsLast, Reflects, LeftBy, Stored
  <2> QED BY <2>1, <2>2, <2>4, PullAssumption DEF ServerInv, Retained
<1>2. BrowserTyped
  BY PullAssumption DEF Init, BrowserTyped, Version, Missing, Guards, Restore, NoRestore
<1>3. PullInv
  BY DEF Init, PullInv, Pull, NoPull, Version, Missing, PageFits, FreshEnough, SnapshotFits, At
<1>4. Kept
  BY DEF Init, Kept, Covered, Reflects, LeftBy
<1>5. RestoreInv
  BY DEF Init, RestoreInv, NoRestore
<1> QED BY <1>1, <1>2, <1>3, <1>4, <1>5 DEF Inv

-----------------------------------------------------------------------------
(* Reflecting a change survives later writes. *)
LEMMA ReflectsLater ==
  ASSUME history \in Seq(HistoryEntry), NEW entry \in HistoryEntry,
         history' = Append(history, entry), NEW v, NEW n \in Notes,
         NEW k \in 0 .. Len(history), Reflects(v, n, k)
  PROVE  \E c \in 0 .. Len(history') :
           /\ IF c = 0 THEN v = Missing
              ELSE history'[c].note = n /\ IF history'[c].deleted THEN v = Missing ELSE v.at = c
           /\ \A i \in c + 1 .. k : history'[i].note # n
<1>1. PICK c \in 0 .. Len(history) :
        LeftBy(v, n, c) /\ \A i \in c + 1 .. k : history[i].note # n
  BY DEF Reflects
<1>2. /\ Len(history) \in Nat /\ Len(history') = Len(history) + 1
      /\ \A i \in 1 .. Len(history) : history'[i] = history[i]
  BY AppendProperties, LenProperties
<1>3. c \in 0 .. Len(history')
  BY <1>2
<1>4. \A i \in c + 1 .. k : history'[i].note # n
  BY <1>1, <1>2
<1>5. IF c = 0 THEN v = Missing
      ELSE history'[c].note = n /\ IF history'[c].deleted THEN v = Missing ELSE v.at = c
  BY <1>1, <1>2 DEF LeftBy
<1> QED BY <1>3, <1>4, <1>5

(* The newest state reflects everything before it. *)
LEMMA ReflectsEarlier ==
  ASSUME NEW v, NEW n, NEW k, Reflects(v, n, Len(history)), k \in 0 .. Len(history),
         Len(history) \in Nat
  PROVE  Reflects(v, n, k)
<1>1. PICK c \in 0 .. Len(history) :
        LeftBy(v, n, c) /\ \A i \in c + 1 .. Len(history) : history[i].note # n
  BY DEF Reflects
<1>2. \A i \in c + 1 .. k : history[i].note # n
  BY <1>1
<1> QED BY <1>1, <1>2 DEF Reflects

(* Passing changes of other notes changes nothing for this one. *)
LEMMA ReflectsAdvanced ==
  ASSUME NEW v, NEW n, NEW j \in Nat, NEW k \in Nat, Reflects(v, n, j),
         \A i \in j + 1 .. k : history[i].note # n, Len(history) \in Nat
  PROVE  Reflects(v, n, k)
<1>1. PICK c \in 0 .. Len(history) :
        LeftBy(v, n, c) /\ \A i \in c + 1 .. j : history[i].note # n
  BY DEF Reflects
<1>2. \A i \in c + 1 .. k : history[i].note # n
  <2> TAKE i \in c + 1 .. k
  <2>1. i \in c + 1 .. j \/ i \in j + 1 .. k
    OBVIOUS
  <2> QED BY <1>1, <2>1
<1> QED BY <1>1, <1>2 DEF Reflects

LEMMA StoredReflects ==
  ASSUME ServerInv, NEW n \in Notes, NEW k \in 0 .. Len(history)
  PROVE  Reflects(Stored(n), n, k)
<1>1. Len(history) \in Nat
  BY DEF ServerInv, FeedInv, Counted, Store
<1>2. Reflects(Stored(n), n, Len(history))
  BY DEF ServerInv, StoredIsLast
<1> QED BY <1>1, <1>2, ReflectsEarlier

LEMMA LastChangeBounds ==
  ASSUME Len(history) \in Nat, NEW n
  PROVE  LastChange(n) \in 0 .. Len(history)
<1> DEFINE S == {i \in 1 .. Len(history) : history[i].note = n}
<1>1. S \subseteq Nat /\ \A s \in S : s <= Len(history)
  OBVIOUS
<1>2. Greatest(S) \in Nat /\ Greatest(S) <= Len(history)
  BY <1>1, GreatestBounds
<1> QED BY <1>2 DEF LastChange

LEMMA StoredTyped ==
  ASSUME ServerInv, NEW n \in Notes
  PROVE  Stored(n) \in Version /\ (Live(db, n) <=> Stored(n) # Missing)
<1>1. db.rows[n].revision \in Nat /\ Len(history) \in Nat
  BY DEF ServerInv, FeedInv, Counted, Store, Row
<1>2. LastChange(n) \in Nat
  BY <1>1, LastChangeBounds
<1>3. Missing \in Version
  BY DEF Missing, Version
<1>4. CASE Live(db, n)
  <2>1. Stored(n) = [revision |-> db.rows[n].revision, at |-> LastChange(n)]
    BY <1>4 DEF Stored
  <2>2. db.rows[n].revision # 0
    BY <1>1, <1>4 DEF Live
  <2> QED BY <1>1, <1>2, <1>4, <2>1, <2>2 DEF Version, Missing
<1>5. CASE ~Live(db, n)
  BY <1>3, <1>5 DEF Stored
<1> QED BY <1>4, <1>5

-----------------------------------------------------------------------------
LEMMA InCompacted ==
  ASSUME NEW changes, NEW newest, NEW c
  PROVE  c \in Compacted(changes, newest)
           <=> c \in changes /\ c.sequence > newest - MaxSyncChanges
BY Zenon DEF Compacted

(* The server's side of a write. *)
LEMMA WriteKeepsRetained ==
  ASSUME ServerInv, NEW n \in Notes, NEW row, NEW revision, NEW deleted,
         db' = Write(db, n, row, revision, deleted),
         history' = Append(history, [note |-> n, deleted |-> deleted]), deleted \in BOOLEAN
  PROVE  Retained'
<1> DEFINE change == [sequence |-> db.newest + 1, note |-> n,
                      revision |-> revision, deleted |-> deleted]
           entry  == [note |-> n, deleted |-> deleted]
           last   == Len(history)
<1>1. /\ last = db.newest /\ last \in Nat /\ history \in Seq(HistoryEntry) /\ Retained
      /\ \A c \in db.changes : c.sequence \in Nat
  BY DEF ServerInv, FeedInv, Counted, Store, Change
<1>2. \A c : c \in db'.changes <=>
              c \in db.changes \cup {change} /\ c.sequence > last + 1 - MaxSyncChanges
  <2> DEFINE changes == db.changes \cup {change}
             newest  == db.newest + 1
  <2>1. db'.changes = Compacted(changes, newest)
    BY DEF Write
  <2>2. newest - MaxSyncChanges = last + 1 - MaxSyncChanges
    BY <1>1, MaxSyncChangesAssumption
  <2> TAKE c
  <2>3. c \in changes <=> c \in db.changes \cup {change}
    OBVIOUS
  <2> HIDE DEF changes, newest, last, change
  <2>4. c \in Compacted(changes, newest)
          <=> c \in changes /\ c.sequence > newest - MaxSyncChanges
    BY InCompacted
  <2>5. c \in db'.changes <=> c \in changes /\ c.sequence > newest - MaxSyncChanges
    BY <2>1, <2>4
  <2>6. c \in db'.changes <=> c \in changes /\ c.sequence > last + 1 - MaxSyncChanges
    BY <2>2, <2>5, Zenon
  <2> QED BY <2>3, <2>6, Zenon
<1>3. entry \in HistoryEntry
  BY DEF HistoryEntry
<1>4. /\ Len(history') = last + 1
      /\ \A i \in 1 .. last : history'[i] = history[i]
      /\ history'[last + 1] = entry
  BY <1>1, <1>3, AppendProperties
<1>5. change.sequence = last + 1 /\ change.note = n /\ change.deleted = deleted
  BY <1>1
<1> HIDE DEF change
<1>6. ASSUME NEW c \in db'.changes
      PROVE  /\ c.sequence \in 1 .. last + 1
             /\ history'[c.sequence] = [note |-> c.note, deleted |-> c.deleted]
  <2>1. CASE c \in db.changes
    <3>1. c.sequence \in 1 .. last /\ history[c.sequence] = [note |-> c.note, deleted |-> c.deleted]
      BY <1>1, <2>1 DEF Retained
    <3> QED BY <1>1, <1>4, <3>1
  <2>2. CASE c = change
    BY <1>1, <1>4, <1>5, <2>2
  <2> QED BY <1>2, <2>1, <2>2
<1>7. ASSUME NEW s \in 1 .. last + 1
      PROVE  (\E c \in db'.changes : c.sequence = s) \/ \A c \in db'.changes : s < c.sequence
  <2>1. CASE s = last + 1
    <3>1. change \in db'.changes
      BY <1>1, <1>2, <1>5, MaxSyncChangesAssumption
    <3> QED BY <1>5, <2>1, <3>1
  <2>2. CASE s \in 1 .. last /\ \E c \in db.changes : c.sequence = s
    <3>1. PICK c \in db.changes : c.sequence = s
      BY <2>2
    <3>2. CASE s > last + 1 - MaxSyncChanges
      <4>1. c \in db'.changes
        BY <1>2, <3>1, <3>2
      <4> QED BY <3>1, <4>1
    <3>3. CASE ~(s > last + 1 - MaxSyncChanges)
      <4>1. \A d \in db'.changes : d.sequence > last + 1 - MaxSyncChanges /\ d.sequence \in Nat
        <5> TAKE d \in db'.changes
        <5>1. d.sequence > last + 1 - MaxSyncChanges
          BY <1>2
        <5>2. d.sequence \in 1 .. last + 1
          BY <1>6
        <5> QED BY <1>1, <5>1, <5>2
      <4> QED BY <1>1, <3>3, <4>1, MaxSyncChangesAssumption
    <3> QED BY <3>2, <3>3
  <2>3. CASE s \in 1 .. last /\ ~ \E c \in db.changes : c.sequence = s
    <3>1. \A c \in db.changes : s < c.sequence
      BY <1>1, <2>3 DEF Retained
    <3>2. \A c \in db'.changes : s < c.sequence
      BY <1>1, <1>2, <1>5, <2>3, <3>1
    <3> QED BY <3>2
  <2> QED BY <1>1, <2>1, <2>2, <2>3
<1> QED BY <1>4, <1>6, <1>7 DEF Retained

LEMMA WriteKeepsStored ==
  ASSUME ServerInv, NEW n \in Notes, NEW row \in Row, NEW revision, NEW deleted \in BOOLEAN,
         db' = Write(db, n, row, revision, deleted), deleted <=> row.revision = 0,
         history' = Append(history, [note |-> n, deleted |-> deleted])
  PROVE  StoredIsLast'
<1> DEFINE entry == [note |-> n, deleted |-> deleted]
           last  == Len(history)
<1>1. /\ last \in Nat /\ history \in Seq(HistoryEntry)
      /\ db.rows \in [Notes -> Row] /\ db'.rows = [db.rows EXCEPT ![n] = row]
  BY DEF ServerInv, FeedInv, Counted, Store, Write
<1>2. entry \in HistoryEntry
  BY DEF HistoryEntry
<1>3. /\ Len(history') = last + 1
      /\ \A i \in 1 .. last : history'[i] = history[i]
      /\ history'[last + 1] = entry
  BY <1>1, <1>2, AppendProperties
<1>4. ASSUME NEW m \in Notes, m # n
      PROVE  Reflects(Stored(m), m, Len(history))'
  <2>1. db'.rows[m] = db.rows[m]
    BY <1>1, <1>4
  <2>2. {i \in 1 .. Len(history') : history'[i].note = m} = {i \in 1 .. last : history[i].note = m}
    BY <1>1, <1>3, <1>4
  <2>3. Stored(m)' = Stored(m)
    BY <2>1, <2>2 DEF Stored, Live, LastChange
  <2>4. Reflects(Stored(m), m, last)
    BY DEF ServerInv, StoredIsLast
  <2>5. PICK c \in 0 .. Len(history') :
          /\ IF c = 0 THEN Stored(m) = Missing
             ELSE history'[c].note = m
                  /\ IF history'[c].deleted THEN Stored(m) = Missing ELSE Stored(m).at = c
          /\ \A i \in c + 1 .. last : history'[i].note # m
    BY <1>1, <1>2, <2>4, ReflectsLater
  <2>6. \A i \in c + 1 .. Len(history') : history'[i].note # m
    BY <1>1, <1>3, <1>4, <2>5
  <2>7. LeftBy(Stored(m), m, c)'
    BY <2>3, <2>5 DEF LeftBy
  <2> QED BY <2>6, <2>7 DEF Reflects
<1>5. Reflects(Stored(n), n, Len(history))'
  <2>1. db'.rows[n] = row
    BY <1>1
  <2>2. Len(history') \in 1 .. Len(history') /\ Len(history') + 1 > Len(history')
    BY <1>1, <1>3
  <2>3. CASE deleted
    <3>1. Stored(n)' = Missing
      BY <2>1, <2>3 DEF Stored, Live
    <3>2. LeftBy(Stored(n), n, Len(history))'
      BY <1>1, <1>3, <2>3, <3>1 DEF LeftBy
    <3> QED BY <1>1, <2>2, <3>2 DEF Reflects
  <2>4. CASE ~deleted
    <3>1. row.revision > 0
      BY <2>4 DEF Row
    <3>2. Stored(n)'.at = LastChange(n)'
      BY <2>1, <3>1 DEF Stored, Live
    <3>3. LastChange(n)' = last + 1
      <4> DEFINE S == {i \in 1 .. Len(history') : history'[i].note = n}
      <4>1. S \subseteq Nat /\ (\A s \in S : s <= last + 1) /\ last + 1 \in S
        BY <1>1, <1>3
      <4>2. Greatest(S) \in Nat /\ Greatest(S) <= last + 1 /\ \A s \in S : s <= Greatest(S)
        BY <1>1, <4>1, GreatestBounds
      <4> HIDE DEF S
      <4>3. Greatest(S) = last + 1
        BY <1>1, <4>1, <4>2
      <4> QED BY <4>3 DEF LastChange, S
    <3>4. LeftBy(Stored(n), n, Len(history))'
      BY <1>1, <1>3, <2>4, <3>2, <3>3 DEF LeftBy
    <3> QED BY <1>1, <2>2, <3>4 DEF Reflects
  <2> QED BY <2>3, <2>4
<1>6. \A m \in Notes : Reflects(Stored(m), m, Len(history))'
  BY <1>4, <1>5
<1> QED BY <1>6 DEF StoredIsLast

LEMMA ServerWrites ==
  ASSUME ServerInv, NEW n \in Notes, RemoteSave(n) \/ RemoteDelete(n) \/ PushApplied(n)
  PROVE  ServerInv' /\ \E entry \in HistoryEntry : history' = Append(history, entry)
<1>1. FeedInv(db) /\ Counted(db) /\ history \in Seq(HistoryEntry) /\ Len(history) = db.newest
  BY DEF ServerInv, FeedInv
<1>2. \E row \in Row, deleted \in BOOLEAN :
        /\ db' = Write(db, n, row, CurrentRevision(db, n) + 1, deleted)
        /\ deleted <=> row.revision = 0
        /\ history' = Append(history, [note |-> n, deleted |-> deleted])
        /\ FeedInv(db')
  <2>1. CurrentRevision(db, n) \in Nat
    BY <1>1, CurrentRevisionCounted
  <2>2. CASE RemoteSave(n) \/ PushApplied(n)
    <3> DEFINE row == [revision |-> CurrentRevision(db, n) + 1, pinOrder |-> 0]
    <3>1. row \in Row /\ row.revision # 0
      BY <2>1 DEF Row
    <3>2. /\ db' = Upsert(db, n, 0)
          /\ history' = Append(history, [note |-> n, deleted |-> FALSE])
      BY <2>2 DEF RemoteSave, PushApplied, Record
    <3>3. db' = Write(db, n, row, CurrentRevision(db, n) + 1, FALSE)
      BY <3>2 DEF Upsert
    <3>4. FeedInv(db')
      <4>1. 0 <= db.newest + 1
        BY <1>1 DEF Counted, Store
      <4> QED BY <1>1, <3>2, <4>1, UpsertKeepsFeed
    <3> HIDE DEF row
    <3> QED BY <3>1, <3>2, <3>3, <3>4
  <2>3. CASE RemoteDelete(n)
    <3>1. /\ db' = Delete(db, n) /\ Live(db, n)
          /\ history' = Append(history, [note |-> n, deleted |-> TRUE])
      BY <2>3 DEF RemoteDelete, Record
    <3>2. db' = Write(db, n, NoRow, CurrentRevision(db, n) + 1, TRUE)
      BY <3>1 DEF Delete, CurrentRevision
    <3>3. FeedInv(db')
      BY <1>1, <3>1, DeleteKeepsFeed
    <3>4. NoRow \in Row /\ NoRow.revision = 0
      BY DEF NoRow, Row
    <3> QED BY <3>1, <3>2, <3>3, <3>4
  <2> QED BY <2>2, <2>3
<1>3. PICK row \in Row, deleted \in BOOLEAN :
        /\ db' = Write(db, n, row, CurrentRevision(db, n) + 1, deleted)
        /\ deleted <=> row.revision = 0
        /\ history' = Append(history, [note |-> n, deleted |-> deleted])
        /\ FeedInv(db')
  BY <1>2
<1>4. [note |-> n, deleted |-> deleted] \in HistoryEntry
  BY DEF HistoryEntry
<1>5. history' \in Seq(HistoryEntry) /\ Len(history') = Len(history) + 1
  BY <1>1, <1>3, <1>4, AppendProperties
<1>6. db'.newest = db.newest + 1 /\ db'.newest <= MaxWrites
  <2>1. db'.newest = db.newest + 1
    BY <1>3 DEF Write
  <2>2. db.newest \in Nat /\ db.newest < MaxWrites
    BY <1>1 DEF Counted, Store, RemoteSave, RemoteDelete, PushApplied, Record
  <2> QED BY <2>1, <2>2, PullAssumption
<1>7. Retained' /\ StoredIsLast'
  BY <1>3, WriteKeepsRetained, WriteKeepsStored
<1> QED BY <1>1, <1>3, <1>4, <1>5, <1>6, <1>7 DEF ServerInv

-----------------------------------------------------------------------------
(* Steps that leave the server and the cursor alone. *)
LEMMA QuietServer ==
  ASSUME ServerInv, UNCHANGED server
  PROVE  ServerInv'
<1>1. db' = db /\ history' = history
  BY DEF server
<1>2. Retained'
  BY <1>1 DEF ServerInv, Retained
<1>3. StoredIsLast'
  <2>1. \A n \in Notes : Stored(n)' = Stored(n)
    BY <1>1 DEF Stored, Live, LastChange
  <2> SUFFICES ASSUME NEW n \in Notes PROVE Reflects(Stored(n), n, Len(history))'
    BY DEF StoredIsLast
  <2>2. Reflects(Stored(n), n, Len(history))
    BY DEF ServerInv, StoredIsLast
  <2> QED BY <1>1, <2>1, <2>2 DEF Reflects, LeftBy
<1> QED BY <1>1, <1>2, <1>3 DEF ServerInv

LEMMA NoPullInv ==
  ASSUME pull' = NoPull
  PROVE  PullInv'
<1>1. NoPull \in Pull
  BY DEF NoPull, Pull, Version, Missing
<1>2. pull'.pc = "idle" /\ pull'.todo = {}
  BY DEF NoPull
<1> QED BY <1>1, <1>2 DEF PullInv, PageFits, FreshEnough, SnapshotFits, At

LEMMA QuietPull ==
  ASSUME PullInv, UNCHANGED <<history, cursor, pull>>
  PROVE  PullInv'
<1>1. history' = history /\ cursor' = cursor /\ pull' = pull
  OBVIOUS
<1>2. PageFits'
  BY <1>1 DEF PullInv, PageFits, At
<1>3. FreshEnough'
  BY <1>1 DEF PullInv, FreshEnough, At, Reflects, LeftBy
<1>4. SnapshotFits'
  BY <1>1 DEF PullInv, SnapshotFits, At, Reflects, LeftBy
<1> QED BY <1>1, <1>2, <1>3, <1>4 DEF PullInv, At

(* A note keeps its place if its cached version does, or is made new enough. *)
LEMMA QuietKept ==
  ASSUME Kept, UNCHANGED <<history, cursor>>,
         \A n \in Notes \ passedOver' :
           \/ /\ n \notin passedOver
              /\ local'[n] = local[n] /\ (guards'[n] = "deleted" => guards[n] = "deleted")
           \/ /\ Reflects(local'[n], n, cursor)
              /\ guards'[n] = "deleted" => Reflects(Missing, n, cursor)
  PROVE  Kept'
<1> SUFFICES ASSUME NEW n \in Notes \ passedOver'
             PROVE  /\ Covered(n)'
                    /\ guards'[n] = "deleted" => Reflects(Missing, n, cursor)'
  BY DEF Kept
<1>1. history' = history /\ cursor' = cursor
  OBVIOUS
<1>2. /\ Reflects(local'[n], n, cursor)
      /\ guards'[n] = "deleted" => Reflects(Missing, n, cursor)
  BY DEF Kept, Covered
<1> QED BY <1>1, <1>2 DEF Covered, Reflects, LeftBy

LEMMA MissingTyped == Missing \in Version
BY DEF Missing, Version

LEMMA NoRestoreTyped == NoRestore \in Restore
BY MissingTyped DEF NoRestore, Restore

(* An answer under way stays typed, whatever overtakes it. *)
LEMMA OvertakeTyped ==
  ASSUME restore \in Restore, NEW stored, NEW passed, Overtake(stored, passed)
  PROVE  /\ restore' \in Restore
         /\ restore'.pc = restore.pc /\ restore'.note = restore.note
         /\ restore'.got = restore.got
         /\ restore.pc = "got" =>
              /\ restore'.stored <=> restore.stored \/ restore.note \in stored
              /\ restore'.passed <=> restore.passed \/ restore.note \in passed
<1>1. CASE restore.pc # "got"
  BY <1>1 DEF Overtake
<1>2. CASE restore.pc = "got"
  <2>1. PICK s, p : /\ s = (restore.stored \/ restore.note \in stored)
                    /\ p = (restore.passed \/ restore.note \in passed)
    OBVIOUS
  <2>2. s \in BOOLEAN /\ p \in BOOLEAN
    BY <2>1
  <2>3. restore' = [restore EXCEPT !.stored = s, !.passed = p]
    BY <1>2, <2>1 DEF Overtake
  <2>4. /\ restore' \in Restore
        /\ restore'.pc = restore.pc /\ restore'.note = restore.note
        /\ restore'.got = restore.got
        /\ restore'.stored = s /\ restore'.passed = p
    BY <2>2, <2>3 DEF Restore
  <2> QED BY <2>1, <2>4
<1> QED BY <1>1, <1>2

LEMMA QuietRestore ==
  ASSUME RestoreInv, UNCHANGED <<history, cursor, restore>>
  PROVE  RestoreInv'
BY DEF RestoreInv, Reflects, LeftBy

(* A write to the server, or a push, leaves an answer as new as it was. *)
LEMMA RestoreKept ==
  ASSUME Inv, UNCHANGED cursor,
         history' = history \/ \E entry \in HistoryEntry : history' = Append(history, entry),
         UNCHANGED restore \/ \E stored : Overtake(stored, {})
  PROVE  RestoreInv' /\ restore' \in Restore
<1>1. /\ restore' \in Restore
      /\ restore'.pc = restore.pc /\ restore'.note = restore.note
      /\ restore'.got = restore.got
      /\ restore.pc = "got" => (restore'.passed <=> restore.passed)
  <2>1. restore \in Restore
    BY DEF Inv, BrowserTyped
  <2>2. CASE UNCHANGED restore
    BY <2>1, <2>2
  <2>3. CASE \E stored : Overtake(stored, {})
    BY <2>1, <2>3, OvertakeTyped
  <2> QED BY <2>2, <2>3
<1>2. CASE restore.pc = "got" /\ ~restore.passed
  <2>1. /\ restore.note \in Notes /\ Reflects(restore.got, restore.note, cursor)
        /\ history \in Seq(HistoryEntry) /\ cursor \in 0 .. Len(history)
    BY <1>2 DEF Inv, RestoreInv, ServerInv, BrowserTyped
  <2>2. Reflects(restore.got, restore.note, cursor)'
    <3>1. CASE history' = history
      BY <1>1, <2>1, <3>1 DEF Reflects, LeftBy
    <3>2. CASE \E entry \in HistoryEntry : history' = Append(history, entry)
      <4>1. PICK c \in 0 .. Len(history') :
              /\ IF c = 0 THEN restore.got = Missing
                 ELSE history'[c].note = restore.note
                      /\ IF history'[c].deleted THEN restore.got = Missing
                                                ELSE restore.got.at = c
              /\ \A i \in c + 1 .. cursor : history'[i].note # restore.note
        BY <2>1, <3>2, ReflectsLater
      <4> QED BY <1>1, <4>1 DEF Reflects, LeftBy
    <3> QED BY <3>1, <3>2
  <2> QED BY <1>1, <2>1, <2>2 DEF RestoreInv
<1>3. CASE ~(restore.pc = "got" /\ ~restore.passed)
  BY <1>1, <1>3 DEF Inv, RestoreInv
<1> QED BY <1>1, <1>2, <1>3

(* What the user does, and what a failure does. *)
LEMMA UserSteps ==
  ASSUME Inv,
         \/ \E n \in Notes : Type(n) \/ SaveResolution(n) \/ KeepCopy(n)
         \/ SaveEdit \/ Undo \/ Fail
  PROVE  Inv'
<1>1. UNCHANGED <<db, history, local, cursor, passedOver, restore, restored>>
  BY DEF Type, SaveResolution, KeepCopy, SaveEdit, Undo, Fail, server, store, address
<1>2. pull' = pull \/ pull' = NoPull
  BY DEF Type, SaveResolution, KeepCopy, SaveEdit, Undo, Fail
<1>3. \A n \in Notes : guards'[n] \in Guards /\ (guards'[n] = "deleted" => guards[n] = "deleted")
  BY DEF Inv, BrowserTyped, Guards, Type, SaveResolution, KeepCopy, SaveEdit, Undo, Fail
<1>4. ServerInv'
  BY <1>1, QuietServer DEF Inv, server
<1>5. PullInv'
  BY <1>1, <1>2, QuietPull, NoPullInv DEF Inv
<1>6. Kept'
  BY <1>1, <1>3, QuietKept DEF Inv
<1>7. BrowserTyped'
  <2>1. guards' \in [Notes -> Guards]
    BY DEF Inv, BrowserTyped, Guards, Type, SaveResolution, KeepCopy, SaveEdit, Undo, Fail
  <2>2. dirty' \in Notes \cup {None}
    BY DEF Inv, BrowserTyped, Type, SaveResolution, KeepCopy, SaveEdit, Undo, Fail
  <2>3. budget' \in [edits : 0 .. MaxEdits, failures : 0 .. MaxFailures,
                     restores : 0 .. MaxRestores]
    <3>1. CASE UNCHANGED budget
      BY <3>1 DEF Inv, BrowserTyped
    <3>2. CASE \E n \in Notes : Type(n)
      <4>1. budget.edits \in 0 .. MaxEdits /\ budget.edits > 0 /\ MaxEdits \in Nat
        BY <3>2, PullAssumption DEF Inv, BrowserTyped, Type
      <4>2. budget.edits - 1 \in 0 .. MaxEdits
        BY <4>1
      <4>3. budget' = [budget EXCEPT !.edits = @ - 1]
        BY <3>2 DEF Type
      <4> QED BY <4>2, <4>3 DEF Inv, BrowserTyped
    <3>3. CASE Fail
      BY <3>3, PullAssumption DEF Inv, BrowserTyped, Fail
    <3> QED BY <3>1, <3>2, <3>3 DEF SaveResolution, KeepCopy, SaveEdit, Undo
  <2>4. base' \in [Notes -> Nat]
    <3>1. base \in [Notes -> Nat] /\ local \in [Notes -> Version] /\ dirty \in Notes \cup {None}
      BY DEF Inv, BrowserTyped
    <3>2. CASE SaveEdit
      <4>1. dirty # None => local[dirty].revision \in Nat
        BY <3>1 DEF Version
      <4> QED BY <3>1, <3>2, <4>1 DEF SaveEdit
    <3>3. CASE \E n \in Notes : KeepCopy(n)
      BY <3>1, <3>3 DEF KeepCopy
    <3>4. CASE UNCHANGED base
      BY <3>1, <3>4
    <3> QED BY <3>2, <3>3, <3>4 DEF Type, SaveResolution, Undo, Fail
  <2> QED BY <1>1, <2>1, <2>2, <2>3, <2>4 DEF Inv, BrowserTyped
<1>8. RestoreInv'
  BY <1>1, QuietRestore DEF Inv
<1> QED BY <1>4, <1>5, <1>6, <1>7, <1>8 DEF Inv

LEMMA LeaveDeletedStep ==
  ASSUME Inv, NEW n \in Notes, LeaveDeleted(n)
  PROVE  Inv'
<1>1. /\ UNCHANGED <<db, history, cursor, pull, base, dirty, budget, passedOver, restore, restored>>
      /\ guards[n] = "deleted"
      /\ guards' = [guards EXCEPT ![n] = "none"] /\ local' = [local EXCEPT ![n] = Missing]
  BY DEF LeaveDeleted, server, address
<1>2. BrowserTyped'
  BY <1>1, MissingTyped DEF Inv, BrowserTyped, Guards
<1>3. Kept'
  <2>1. \A m \in Notes : /\ m # n => local'[m] = local[m] /\ guards'[m] = guards[m]
                         /\ m = n => local'[m] = Missing /\ guards'[m] = "none"
    BY <1>1 DEF Inv, BrowserTyped
  <2>2. n \notin passedOver => Reflects(Missing, n, cursor)
    BY <1>1 DEF Inv, Kept
  <2> QED BY <1>1, <2>1, <2>2, QuietKept DEF Inv
<1> QED BY <1>1, <1>2, <1>3, QuietServer, QuietPull, QuietRestore DEF Inv, server

(* A push that is refused: the version of the server is fetched. *)
LEMMA PushRefusedStep ==
  ASSUME Inv, NEW n \in Notes, PushConflicts(n) \/ PushFindsDeletion(n)
  PROVE  Inv'
<1>1. UNCHANGED <<db, history, cursor, pull, budget, restored>>
  BY DEF PushConflicts, PushFindsDeletion, server, store, address
<1>0. RestoreInv' /\ restore' \in Restore /\ base' \in [Notes -> Nat]
  <2>1. UNCHANGED restore \/ \E stored : Overtake(stored, {})
    BY DEF PushConflicts, PushFindsDeletion, address
  <2>2. base' \in [Notes -> Nat]
    <3>1. base \in [Notes -> Nat] /\ db.rows[n].revision \in Nat
      BY DEF Inv, BrowserTyped, ServerInv, FeedInv, Counted, Store, Row
    <3> QED BY <3>1 DEF PushConflicts, PushFindsDeletion
  <2> QED BY <1>1, <2>1, <2>2, RestoreKept
<1>2. cursor \in 0 .. Len(history) /\ Reflects(Stored(n), n, cursor) /\ Stored(n) \in Version
  BY StoredReflects, StoredTyped DEF Inv, BrowserTyped
<1>3. CASE PushConflicts(n)
  <2>1. PICK guard \in {"queued", "edited"} : guards' = [guards EXCEPT ![n] = guard]
    BY <1>3 DEF PushConflicts
  <2>2. /\ local' = [local EXCEPT ![n] = Stored(n)]
        /\ passedOver' = passedOver \ {n}
        /\ dirty' \in {dirty, None}
    BY <1>3 DEF PushConflicts
  <2>3. BrowserTyped'
    BY <1>0, <1>1, <1>2, <2>1, <2>2 DEF Inv, BrowserTyped, Guards
  <2>4. \A m \in Notes : /\ m # n => local'[m] = local[m] /\ guards'[m] = guards[m]
                         /\ m = n => local'[m] = Stored(n) /\ guards'[m] # "deleted"
    BY <2>1, <2>2 DEF Inv, BrowserTyped
  <2>5. Kept'
    BY <1>1, <1>2, <2>2, <2>4, QuietKept DEF Inv
  <2> QED BY <1>0, <1>1, <2>3, <2>5, QuietServer, QuietPull DEF Inv, server
<1>4. CASE PushFindsDeletion(n)
  <2>1. /\ guards' = [guards EXCEPT ![n] = "deleted"]
        /\ UNCHANGED <<local, passedOver>> /\ dirty' \in {dirty, None}
        /\ Stored(n) = Missing
    BY <1>4 DEF PushFindsDeletion, store, Stored
  <2>2. BrowserTyped'
    BY <1>0, <1>1, <2>1 DEF Inv, BrowserTyped, Guards
  <2>3. \A m \in Notes : m # n => guards'[m] = guards[m]
    BY <2>1 DEF Inv, BrowserTyped
  <2>4. \A m \in Notes \ passedOver :
          /\ Reflects(local'[m], m, cursor)
          /\ guards'[m] = "deleted" => Reflects(Missing, m, cursor)
    BY <1>2, <2>1, <2>3 DEF Inv, Kept, Covered
  <2>5. Kept'
    BY <1>1, <2>1, <2>4, QuietKept DEF Inv
  <2> QED BY <1>0, <1>1, <2>2, <2>5, QuietServer, QuietPull DEF Inv, server
<1> QED BY <1>3, <1>4

-----------------------------------------------------------------------------
(* Steps that write to the server. *)
LEMMA WriteKeepsPull ==
  ASSUME Inv, NEW entry \in HistoryEntry, history' = Append(history, entry),
         UNCHANGED <<cursor, pull>>
  PROVE  PullInv'
<1>1. /\ history \in Seq(HistoryEntry) /\ cursor \in 0 .. Len(history) /\ Len(history) \in Nat
      /\ Len(history') = Len(history) + 1
      /\ \A i \in 1 .. Len(history) : history'[i] = history[i]
  BY AppendProperties, LenProperties DEF Inv, ServerInv, BrowserTyped
<1>2. pull' = pull /\ cursor' = cursor
  OBVIOUS
<1>3. pull \in Pull
  BY DEF Inv, PullInv
<1>4. At("changes") \/ At("reset") \/ At("snapshot") => pull.next \in cursor .. Len(history)
  BY DEF Inv, PullInv, PageFits, SnapshotFits
<1>5. PageFits'
  <2> SUFFICES ASSUME At("changes")
               PROVE  /\ pull.next \in cursor .. Len(history')
                      /\ \A c \in pull.page :
                           /\ c.sequence \in cursor + 1 .. pull.next
                           /\ history'[c.sequence] = [note |-> c.note, deleted |-> c.deleted]
                      /\ \A s \in cursor + 1 .. pull.next :
                           (\E c \in pull.page : c.sequence = s)
                             \/ \A c \in pull.page : s < c.sequence
    BY <1>2 DEF PageFits, At
  <2>1. PageFits
    BY DEF Inv, PullInv
  <2>2. \A c \in pull.page : c.sequence \in 1 .. Len(history)
    <3>1. cursor \in Nat /\ Len(history) \in Nat /\ pull.next \in cursor .. Len(history)
      BY <1>1, <1>4
    <3>2. cursor + 1 .. pull.next \subseteq 1 .. Len(history)
      BY <3>1
    <3> QED BY <2>1, <3>2 DEF PageFits
  <2> QED BY <1>1, <2>1, <2>2 DEF PageFits
<1>6. FreshEnough'
  <2> SUFFICES ASSUME At("changes") \/ At("snapshot"), NEW n \in pull.fresh
               PROVE  Reflects(pull.fetched[n], n, pull.next)'
    BY <1>2 DEF FreshEnough, At
  <2>1. Reflects(pull.fetched[n], n, pull.next) /\ n \in Notes
    BY <1>3 DEF Inv, PullInv, FreshEnough, Pull
  <2>2. pull.next \in 0 .. Len(history)
    BY <1>1, <1>4
  <2>3. PICK c \in 0 .. Len(history') :
          /\ IF c = 0 THEN pull.fetched[n] = Missing
             ELSE history'[c].note = n
                  /\ IF history'[c].deleted THEN pull.fetched[n] = Missing
                                            ELSE pull.fetched[n].at = c
          /\ \A i \in c + 1 .. pull.next : history'[i].note # n
    BY <1>1, <2>1, <2>2, ReflectsLater
  <2> QED BY <1>2, <2>3 DEF Reflects, LeftBy
<1>7. SnapshotFits'
  <2>1. At("reset") \/ At("snapshot") => pull.next \in cursor .. Len(history')
    BY <1>1, <1>4
  <2>2. ASSUME At("snapshot"), NEW n \in Notes \ pull.listed
        PROVE  Reflects(Missing, n, pull.next)'
    <3>1. Reflects(Missing, n, pull.next)
      BY <2>2 DEF Inv, PullInv, SnapshotFits
    <3>2. pull.next \in 0 .. Len(history)
      BY <1>1, <1>4, <2>2
    <3>3. PICK c \in 0 .. Len(history') :
            /\ IF c = 0 THEN Missing = Missing
               ELSE history'[c].note = n
                    /\ IF history'[c].deleted THEN Missing = Missing ELSE Missing.at = c
            /\ \A i \in c + 1 .. pull.next : history'[i].note # n
      BY <1>1, <3>1, <3>2, ReflectsLater
    <3> QED BY <1>2, <3>3 DEF Reflects, LeftBy
  <2>3. At("snapshot") => \A n \in Notes : n \in pull.fresh <=> pull.fetched[n] # Missing
    BY DEF Inv, PullInv, SnapshotFits
  <2> QED BY <1>2, <2>1, <2>2, <2>3 DEF SnapshotFits, At
<1> QED BY <1>2, <1>3, <1>5, <1>6, <1>7 DEF Inv, PullInv, At

LEMMA WriteKeepsKept ==
  ASSUME Inv, NEW entry \in HistoryEntry, history' = Append(history, entry), UNCHANGED cursor,
         NEW n \in Notes \ passedOver, local'[n] = local[n],
         guards'[n] = "deleted" => guards[n] = "deleted"
  PROVE  /\ Covered(n)'
         /\ guards'[n] = "deleted" => Reflects(Missing, n, cursor)'
<1>1. history \in Seq(HistoryEntry) /\ cursor \in 0 .. Len(history)
  BY DEF Inv, ServerInv, BrowserTyped
<1>2. /\ Reflects(local[n], n, cursor)
      /\ guards[n] = "deleted" => Reflects(Missing, n, cursor)
  BY DEF Inv, Kept, Covered
<1>3. Covered(n)'
  <2>1. PICK c \in 0 .. Len(history') :
          /\ IF c = 0 THEN local[n] = Missing
             ELSE history'[c].note = n
                  /\ IF history'[c].deleted THEN local[n] = Missing ELSE local[n].at = c
          /\ \A i \in c + 1 .. cursor : history'[i].note # n
    BY <1>1, <1>2, ReflectsLater
  <2> QED BY <2>1 DEF Covered, Reflects, LeftBy
<1>4. ASSUME guards[n] = "deleted"
      PROVE  Reflects(Missing, n, cursor)'
  <2>1. PICK c \in 0 .. Len(history') :
          /\ IF c = 0 THEN Missing = Missing
             ELSE history'[c].note = n
                  /\ IF history'[c].deleted THEN Missing = Missing ELSE Missing.at = c
          /\ \A i \in c + 1 .. cursor : history'[i].note # n
    BY <1>1, <1>2, <1>4, ReflectsLater
  <2> QED BY <2>1 DEF Reflects, LeftBy
<1> QED BY <1>3, <1>4

LEMMA RemoteSteps ==
  ASSUME Inv, NEW n \in Notes, RemoteSave(n) \/ RemoteDelete(n)
  PROVE  Inv'
<1>1. UNCHANGED <<local, cursor, guards, base, dirty, pull, budget, passedOver, restore, restored>>
  BY DEF RemoteSave, RemoteDelete, user, store, address
<1>2. ServerInv'
  BY ServerWrites DEF Inv
<1>3. PICK entry \in HistoryEntry : history' = Append(history, entry)
  BY ServerWrites DEF Inv
<1>4. PullInv'
  BY <1>1, <1>3, WriteKeepsPull
<1>5. Kept'
  <2> SUFFICES ASSUME NEW m \in Notes \ passedOver
               PROVE  /\ Covered(m)'
                      /\ guards'[m] = "deleted" => Reflects(Missing, m, cursor)'
    BY <1>1 DEF Kept
  <2> QED BY <1>1, <1>3, WriteKeepsKept
<1>6. BrowserTyped'
  <2>1. history \in Seq(HistoryEntry) /\ cursor \in 0 .. Len(history)
    BY DEF Inv, ServerInv, BrowserTyped
  <2>2. cursor' \in 0 .. Len(history')
    BY <1>1, <1>3, <2>1, AppendProperties, LenProperties
  <2> QED BY <1>1, <2>2 DEF Inv, BrowserTyped
<1>7. RestoreInv'
  BY <1>1, <1>3, RestoreKept
<1> QED BY <1>2, <1>4, <1>5, <1>6, <1>7 DEF Inv

LEMMA PushAppliedStep ==
  ASSUME Inv, NEW n \in Notes, PushApplied(n)
  PROVE  Inv'
<1>1. /\ UNCHANGED <<cursor, dirty, pull, budget, restored>> /\ Overtake({n}, {})
      /\ base' = [base EXCEPT ![n] = 0]
      /\ local' = [local EXCEPT ![n] = Stored(n)'] /\ guards' = [guards EXCEPT ![n] = "none"]
      /\ passedOver' = passedOver \ {n}
  BY DEF PushApplied
<1>2. ServerInv'
  BY ServerWrites DEF Inv
<1>3. PICK entry \in HistoryEntry : history' = Append(history, entry)
  BY ServerWrites DEF Inv
<1>4. PullInv'
  BY <1>1, <1>3, WriteKeepsPull
<1>5. cursor' \in 0 .. Len(history') /\ Len(history') \in Nat
  <2>1. history \in Seq(HistoryEntry) /\ cursor \in 0 .. Len(history)
    BY DEF Inv, ServerInv, BrowserTyped
  <2> QED BY <1>1, <1>3, <2>1, AppendProperties, LenProperties
<1>6. Reflects(Stored(n), n, cursor)' /\ Stored(n)' \in Version
  <2>1. Reflects(Stored(n), n, Len(history))'
    BY <1>2 DEF ServerInv, StoredIsLast
  <2>2. PICK c \in 0 .. Len(history') :
          LeftBy(Stored(n), n, c)' /\ \A i \in c + 1 .. Len(history') : history'[i].note # n
    BY <2>1 DEF Reflects
  <2>3. \A i \in c + 1 .. cursor' : history'[i].note # n
    BY <1>5, <2>2
  <2>4. Reflects(Stored(n), n, cursor)'
    BY <2>2, <2>3 DEF Reflects
  <2>5. Stored(n)' \in Version
    <3>1. db'.rows[n].revision \in Nat
      BY <1>2 DEF ServerInv, FeedInv, Counted, Store, Row
    <3>2. LastChange(n)' \in Nat
      <4> DEFINE S == {i \in 1 .. Len(history') : history'[i].note = n}
      <4>1. S \subseteq Nat /\ \A s \in S : s <= Len(history')
        BY <1>5
      <4>2. Greatest(S) \in Nat
        BY <1>5, <4>1, GreatestBounds
      <4> QED BY <4>2 DEF LastChange
    <3> QED BY <3>1, <3>2, MissingTyped DEF Stored, Version
  <2> QED BY <1>2, <2>4, <2>5
<1>7. Kept'
  <2> SUFFICES ASSUME NEW m \in Notes \ passedOver'
               PROVE  /\ Covered(m)'
                      /\ guards'[m] = "deleted" => Reflects(Missing, m, cursor)'
    BY DEF Kept
  <2>1. CASE m = n
    <3>1. local'[m] = Stored(n)' /\ guards'[m] = "none"
      BY <1>1, <2>1 DEF Inv, BrowserTyped
    <3> QED BY <1>6, <2>1, <3>1 DEF Covered, Reflects, LeftBy
  <2>2. CASE m # n
    <3>1. m \notin passedOver /\ local'[m] = local[m] /\ guards'[m] = guards[m]
      BY <1>1, <2>2 DEF Inv, BrowserTyped
    <3> QED BY <1>1, <1>3, <3>1, WriteKeepsKept
  <2> QED BY <2>1, <2>2
<1>9. RestoreInv' /\ restore' \in Restore
  BY <1>1, <1>3, RestoreKept
<1>8. BrowserTyped'
  BY <1>1, <1>5, <1>6, <1>9 DEF Inv, BrowserTyped, Guards
<1> QED BY <1>2, <1>4, <1>7, <1>8, <1>9 DEF Inv

-----------------------------------------------------------------------------
(* The pull: requests. *)
LEMMA ListedFits ==
  ASSUME Inv, NEW known, NEW next \in cursor .. Len(history),
         pull' = [Listed(known) EXCEPT !.next = next], UNCHANGED <<db, history, cursor>>
  PROVE  PullInv'
<1> DEFINE live == {n \in Notes : Live(db, n)}
<1>1. /\ Len(history) \in Nat /\ cursor \in Nat /\ next \in 0 .. Len(history) /\ next \in Nat
      /\ history' = history /\ cursor' = cursor
  BY DEF Inv, BrowserTyped, ServerInv, FeedInv, Counted, Store
<1>2. /\ pull' \in Pull
      /\ pull'.pc = "snapshot" /\ pull'.next = next /\ pull'.fresh = {} /\ pull'.listed = live
      /\ \A n \in Notes : pull'.fetched[n] = Missing
  <2>1. NoPull \in Pull
    BY MissingTyped DEF NoPull, Pull
  <2> DEFINE todo == live \ (Guarded \cup known)
  <2>2. todo \subseteq Notes /\ live \subseteq Notes /\ Guarded \subseteq Notes
    BY DEF Guarded
  <2>3. pull' = [NoPull EXCEPT !.pc = "snapshot", !.listed = live, !.held = Guarded,
                               !.todo = todo, !.next = next]
    BY DEF Listed
  <2> HIDE DEF todo, live
  <2>4. pull' \in Pull
    BY <1>1, <2>1, <2>2, <2>3 DEF Pull
  <2>5. /\ pull'.pc = "snapshot" /\ pull'.next = next /\ pull'.listed = live
        /\ pull'.fresh = NoPull.fresh /\ pull'.fetched = NoPull.fetched
    BY <2>1, <2>3 DEF Pull
  <2>6. NoPull.fresh = {} /\ \A n \in Notes : NoPull.fetched[n] = Missing
    BY DEF NoPull
  <2> QED BY <2>4, <2>5, <2>6
<1>3. ASSUME NEW n \in Notes \ live
      PROVE  Reflects(Missing, n, next)
  <2>1. Stored(n) = Missing
    BY DEF Stored
  <2>2. Reflects(Stored(n), n, next)
    BY <1>1, StoredReflects DEF Inv
  <2> QED BY <2>1, <2>2
<1> HIDE DEF live
<1>4. SnapshotFits'
  BY <1>1, <1>2, <1>3 DEF SnapshotFits, At, Reflects, LeftBy
<1> QED BY <1>2, <1>4 DEF PullInv, PageFits, FreshEnough, At

LEMMA StartSteps ==
  ASSUME Inv, StartPull \/ StartReconcile \/ ResetList
  PROVE  PullInv'
<1>1. UNCHANGED <<db, history, cursor>> /\ cursor \in 0 .. Len(history) /\ Len(history) \in Nat
  BY DEF StartPull, StartReconcile, ResetList, server, store, Inv, BrowserTyped, ServerInv,
         FeedInv, Counted, Store
<1>2. CASE StartPull
  <2>1. /\ pull' = [NoPull EXCEPT !.pc = "feed", !.since = cursor, !.held = Guarded]
        /\ Guarded \subseteq Notes /\ NoPull \in Pull /\ cursor \in Nat
    BY <1>1, <1>2, MissingTyped DEF StartPull, Guarded, NoPull, Pull
  <2>2. pull' \in Pull /\ pull'.pc = "feed" /\ pull'.since = cursor /\ pull'.fresh = {}
        /\ pull'.todo = {}
    BY <2>1 DEF Pull, NoPull
  <2> QED BY <1>1, <2>2 DEF PullInv, PageFits, FreshEnough, SnapshotFits, At
<1>3. CASE StartReconcile
  BY <1>1, <1>3, ListedFits DEF StartReconcile
<1>4. CASE ResetList
  <2>1. pull.next \in cursor .. Len(history)
    BY <1>4 DEF ResetList, Inv, PullInv, SnapshotFits
  <2> QED BY <1>1, <1>4, <2>1, ListedFits DEF ResetList
<1> QED BY <1>2, <1>3, <1>4

LEMMA DownloadStep ==
  ASSUME Inv, NEW n \in Notes, Download(n)
  PROVE  PullInv'
<1>1. /\ UNCHANGED <<db, history, cursor>>
      /\ At("changes") \/ (At("snapshot") /\ Live(db, n))
      /\ pull' = [pull EXCEPT !.todo = @ \ {n}, !.fetched[n] = Stored(n), !.fresh = @ \cup {n}]
  <2>1. At("changes") \/ At("snapshot")
    BY DEF Download, Inv, PullInv
  <2> QED BY <2>1 DEF Download, server, store
<1>2. /\ history' = history /\ cursor' = cursor /\ pull \in Pull
      /\ Stored(n) \in Version /\ (At("snapshot") => Stored(n) # Missing)
  BY <1>1, StoredTyped DEF Inv, PullInv, At
<1>3. /\ pull' \in Pull
      /\ pull'.pc = pull.pc /\ pull'.since = pull.since /\ pull'.next = pull.next
      /\ pull'.page = pull.page /\ pull'.listed = pull.listed
      /\ pull'.fresh = pull.fresh \cup {n}
      /\ pull'.fetched = [pull.fetched EXCEPT ![n] = Stored(n)]
  BY <1>1, <1>2 DEF Pull
<1>4. /\ pull'.fetched[n] = Stored(n)
      /\ \A m \in Notes \ {n} : pull'.fetched[m] = pull.fetched[m]
  BY <1>2, <1>3 DEF Pull
<1>5. Reflects(Stored(n), n, pull.next)
  <2>1. pull.next \in cursor .. Len(history)
    BY <1>1 DEF Inv, PullInv, PageFits, SnapshotFits
  <2>2. cursor \in 0 .. Len(history)
    BY DEF Inv, BrowserTyped
  <2>3. pull.next \in 0 .. Len(history)
    BY <2>1, <2>2
  <2> QED BY <2>3, StoredReflects DEF Inv
<1>6. PageFits'
  BY <1>2, <1>3 DEF Inv, PullInv, PageFits, At
<1>7. FreshEnough'
  <2> SUFFICES ASSUME At("changes") \/ At("snapshot"), NEW m \in pull'.fresh
               PROVE  Reflects(pull.fetched[m], m, pull.next)'
    BY <1>3 DEF FreshEnough, At
  <2>1. CASE m = n
    BY <1>2, <1>3, <1>4, <1>5, <2>1 DEF Reflects, LeftBy
  <2>2. CASE m # n
    <3>1. m \in pull.fresh /\ m \in Notes
      BY <1>2, <1>3, <2>2 DEF Pull
    <3>2. Reflects(pull.fetched[m], m, pull.next)
      BY <3>1 DEF Inv, PullInv, FreshEnough
    <3> QED BY <1>2, <1>3, <1>4, <2>2, <3>1, <3>2 DEF Reflects, LeftBy
  <2> QED BY <2>1, <2>2
<1>8. SnapshotFits'
  <2>1. SnapshotFits
    BY DEF Inv, PullInv
  <2>2. At("snapshot") => \A m \in Notes : m \in pull'.fresh <=> pull'.fetched[m] # Missing
    BY <1>2, <1>3, <1>4, <2>1 DEF SnapshotFits
  <2> QED BY <1>2, <1>3, <2>1, <2>2 DEF SnapshotFits, At, Reflects, LeftBy
<1> QED BY <1>1, <1>2, <1>3, <1>6, <1>7, <1>8 DEF Inv, PullInv, At

(* The feed still reaches back, or it ends at the newest change. *)
LEMMA FeedBoundsStep ==
  ASSUME Inv, FeedBounds
  PROVE  PullInv'
<1> DEFINE sequences == {c.sequence : c \in db.changes}
<1>1. /\ UNCHANGED <<db, history, cursor>> /\ At("feed") /\ pull \in Pull
      /\ pull.since = cursor /\ pull.fresh = {} /\ pull.todo = {}
  BY DEF FeedBounds, server, store, Inv, PullInv, At
<1>2. cursor \in 0 .. Len(history) /\ Len(history) \in Nat
  BY DEF Inv, BrowserTyped, ServerInv, FeedInv, Counted, Store
<1>3. ResetRequired => Greatest(sequences) = Len(history)
  <2> SUFFICES ASSUME db.changes # {} PROVE Greatest(sequences) = Len(history)
    BY DEF ResetRequired
  <2>1. \A c \in db.changes : c.sequence \in 1 .. Len(history)
    BY DEF Inv, ServerInv, Retained
  <2>2. \E c \in db.changes : c.sequence = Len(history)
    <3>1. Len(history) \in 1 .. Len(history)
      BY <1>2, <2>1
    <3>2. ~ \A c \in db.changes : Len(history) < c.sequence
      BY <1>2, <2>1
    <3> QED BY <3>1, <3>2 DEF Inv, ServerInv, Retained
  <2>3. sequences \subseteq Nat /\ (\A s \in sequences : s <= Len(history)) /\ Len(history) \in sequences
    BY <1>2, <2>1, <2>2
  <2>4. /\ Greatest(sequences) \in Nat /\ Greatest(sequences) <= Len(history)
        /\ \A s \in sequences : s <= Greatest(sequences)
    BY <1>2, <2>3, GreatestBounds
  <2> HIDE DEF sequences
  <2> QED BY <1>2, <2>3, <2>4
<1>4. CASE ResetRequired
  <2>1. pull' = [pull EXCEPT !.pc = "reset", !.next = Greatest(sequences)]
    BY <1>4 DEF FeedBounds
  <2> HIDE DEF sequences
  <2>2. /\ pull' \in Pull /\ pull'.pc = "reset" /\ pull'.next = Len(history)
        /\ pull'.todo = {}
    BY <1>1, <1>2, <1>3, <1>4, <2>1 DEF Pull
  <2> QED BY <1>1, <1>2, <2>2 DEF PullInv, PageFits, FreshEnough, SnapshotFits, At
<1>5. CASE ~ResetRequired
  <2>1. pull' = [pull EXCEPT !.pc = "rows"]
    BY <1>5 DEF FeedBounds
  <2>2. /\ pull' \in Pull /\ pull'.pc = "rows" /\ pull'.since = cursor /\ pull'.fresh = {}
        /\ pull'.todo = {}
    BY <1>1, <2>1 DEF Pull
  <2> QED BY <1>1, <2>2 DEF PullInv, PageFits, FreshEnough, SnapshotFits, At
<1> QED BY <1>4, <1>5

LEMMA ChangesFinite ==
  ASSUME ServerInv, NEW S \in SUBSET db.changes
  PROVE  IsFiniteSet(S)
<1> DEFINE f == [c \in S |-> c.sequence]
<1>1. Len(history) \in Nat
  BY DEF ServerInv, FeedInv, Counted, Store
<1>2. \A c \in S : c.sequence \in 1 .. Len(history)
  BY DEF ServerInv, Retained
<1>3. \A c, d \in S : c.sequence = d.sequence => c = d
  BY DEF ServerInv, FeedInv, SequencesDistinct
<1>4. f \in Injection(S, 1 .. Len(history))
  BY <1>2, <1>3 DEF Injection, IsInjective
<1>5. IsFiniteSet(1 .. Len(history))
  BY <1>1, FS_Interval
<1> HIDE DEF f
<1> QED BY <1>4, <1>5, FS_Injection

(* The page takes the oldest changes above the cursor, without a gap. *)
LEMMA FeedRowsStep ==
  ASSUME Inv, FeedRows
  PROVE  PullInv'
<1> DEFINE above == {c \in db.changes : c.sequence > pull.since}
           before(c) == {d \in above : d.sequence < c.sequence}
           page  == {c \in above : Cardinality(before(c)) < PageLimit}
           ends  == {pull.since} \cup {c.sequence : c \in page}
           next  == Greatest(ends)
           todo  == {c.note : c \in {d \in page : ~d.deleted}}
                      \ (pull.held \cup {n \in Notes : pull.fetched[n] # Missing})
<1>1. /\ UNCHANGED <<db, history, cursor>> /\ At("rows") /\ pull \in Pull
      /\ pull.since = cursor /\ pull.fresh = {}
      /\ pull' = [pull EXCEPT !.pc = "changes", !.page = page, !.more = (page # above),
                              !.next = next, !.todo = todo]
  BY DEF FeedRows, server, store, Inv, PullInv, At
<1>2. /\ cursor \in 0 .. Len(history) /\ Len(history) \in Nat /\ db.changes \subseteq Change
      /\ \A c \in db.changes : /\ c.sequence \in 1 .. Len(history)
                               /\ history[c.sequence] = [note |-> c.note, deleted |-> c.deleted]
  BY DEF Inv, BrowserTyped, ServerInv, FeedInv, Counted, Store, Retained
<1>3. page \subseteq above /\ above \subseteq db.changes
  OBVIOUS
<1>4. \A c \in above : c.sequence \in cursor + 1 .. Len(history)
  <2> TAKE c \in above
  <2>1. c.sequence > cursor
    BY <1>1
  <2>2. c.sequence \in 1 .. Len(history)
    BY <1>2
  <2> QED BY <1>2, <2>1, <2>2
<1>5. /\ next \in cursor .. Len(history)
      /\ \A c \in page : c.sequence <= next
      /\ next = cursor \/ \E d \in page : d.sequence = next
  <2>1. ends \subseteq Nat /\ (\A s \in ends : s <= Len(history)) /\ cursor \in ends
    <3> HIDE DEF above, page
    <3>1. \A c \in page : c.sequence \in cursor + 1 .. Len(history)
      BY <1>3, <1>4
    <3>2. ends \subseteq {cursor} \cup (cursor + 1 .. Len(history)) /\ cursor \in ends
      BY <1>1, <3>1
    <3> HIDE DEF ends
    <3> QED BY <1>2, <3>2
  <2>2. next \in Nat /\ next <= Len(history) /\ (\A s \in ends : s <= next) /\ next \in ends
    <3> HIDE DEF ends
    <3> QED BY <1>2, <2>1, GreatestBounds
  <2> HIDE DEF next
  <2>3. next \in cursor .. Len(history)
    BY <1>2, <2>1, <2>2
  <2>4. \A c \in page : c.sequence \in ends
    OBVIOUS
  <2>5. next = cursor \/ \E d \in page : d.sequence = next
    BY <1>1, <2>2
  <2> QED BY <2>2, <2>3, <2>4, <2>5
<1>6. ASSUME NEW s \in cursor + 1 .. next
      PROVE  (\E c \in page : c.sequence = s) \/ \A c \in page : s < c.sequence
  <2>1. s \in 1 .. Len(history) /\ s > cursor /\ s <= next /\ next # cursor
    <3> HIDE DEF next
    <3> QED BY <1>2, <1>5
  <2>2. CASE \A c \in db.changes : s < c.sequence
    BY <1>3, <2>2
  <2>3. CASE \E c \in db.changes : c.sequence = s
    <3>1. PICK c \in above : c.sequence = s
      BY <1>1, <2>1, <2>3
    <3>2. PICK d \in page : d.sequence = next
      BY <1>5, <2>1
    <3> HIDE DEF next
    <3>3. before(c) \subseteq before(d)
      <4> SUFFICES ASSUME NEW e \in above, e.sequence < c.sequence PROVE e.sequence < d.sequence
        OBVIOUS
      <4> QED BY <1>2, <1>3, <1>4, <2>1, <3>1, <3>2
    <3>4. IsFiniteSet(before(d)) /\ IsFiniteSet(before(c))
      BY ChangesFinite DEF Inv
    <3>5. /\ Cardinality(before(c)) <= Cardinality(before(d))
          /\ Cardinality(before(c)) \in Nat /\ Cardinality(before(d)) \in Nat
      <4> HIDE DEF before
      <4> QED BY <3>3, <3>4, FS_Subset, FS_CardinalityType
    <3>6. Cardinality(before(d)) < PageLimit
      OBVIOUS
    <3>7. Cardinality(before(c)) < PageLimit
      <4> HIDE DEF before
      <4> QED BY <3>5, <3>6, PullAssumption
    <3>8. c \in page
      BY <3>7
    <3> QED BY <3>1, <3>8
  <2> QED BY <2>1, <2>2, <2>3 DEF Inv, ServerInv, Retained
<1>7. page \in SUBSET Change /\ todo \in SUBSET Notes /\ (page # above) \in BOOLEAN /\ next \in Nat
  <2>1. next \in Nat
    <3> HIDE DEF next
    <3> QED BY <1>2, <1>5
  <2>2. page \in SUBSET Change
    BY <1>2, <1>3
  <2>3. todo \in SUBSET Notes
    <3> HIDE DEF page
    <3> QED BY <2>2 DEF Change
  <2> QED BY <2>1, <2>2, <2>3
<1> DEFINE more == page # above
<1> HIDE DEF page, next, todo, more
<1>8. /\ pull' \in Pull /\ pull'.pc = "changes" /\ pull'.since = cursor /\ pull'.fresh = {}
      /\ pull'.next = next /\ pull'.page = page
  BY <1>1, <1>7 DEF Pull, more
<1>9. PageFits'
  BY <1>1, <1>2, <1>3, <1>4, <1>5, <1>6, <1>8 DEF PageFits
<1> QED BY <1>1, <1>8, <1>9 DEF PullInv, FreshEnough, SnapshotFits, At

-----------------------------------------------------------------------------
(* The pull: transactions. A note that is not settled is passed over, or no  *)
(* change of it has been passed.                                             *)
LEMMA AdvanceKept ==
  ASSUME Inv, NEW next \in cursor .. Len(history), NEW stored, NEW settled,
         Advance(next, stored, settled),
         UNCHANGED <<history, guards>>,
         \A n \in Notes \ settled :
           local'[n] = local[n] \/ \E s \in cursor + 1 .. next : history[s].note = n,
         \A n \in Notes \cap settled : guards[n] # "deleted" /\ Reflects(local'[n], n, next)
  PROVE  /\ Kept' /\ cursor' \in 0 .. Len(history') /\ passedOver' \subseteq Notes
         /\ RestoreInv' /\ restore' \in Restore
<1> DEFINE passed == {history[s].note : s \in cursor + 1 .. next}
<1>1. /\ cursor' = next /\ history' = history /\ guards' = guards
      /\ passedOver' = (passedOver \cup {history[s].note : s \in cursor + 1 .. next}) \ settled
      /\ Overtake(stored, passed)
  BY DEF Advance
<1>2. /\ cursor \in 0 .. Len(history) /\ Len(history) \in Nat /\ passedOver \subseteq Notes
      /\ history \in Seq(HistoryEntry)
  BY DEF Inv, BrowserTyped, ServerInv, FeedInv, Counted, Store
<1>3. next \in Nat /\ cursor \in Nat /\ next <= Len(history) /\ cursor <= next
  BY <1>2
<1>4. \A s \in cursor + 1 .. next : history[s].note \in Notes
  <2>1. \A s \in 1 .. Len(history) : history[s] \in HistoryEntry
    BY <1>2, ElementOfSeq
  <2>2. cursor + 1 .. next \subseteq 1 .. Len(history)
    BY <1>2, <1>3
  <2> QED BY <2>1, <2>2 DEF HistoryEntry
<1>5. Kept'
  <2> SUFFICES ASSUME NEW n \in Notes \ passedOver'
               PROVE  /\ Covered(n)'
                      /\ guards'[n] = "deleted" => Reflects(Missing, n, cursor)'
    BY DEF Kept
  <2>1. CASE n \in settled
    BY <1>1, <2>1 DEF Covered, Reflects, LeftBy
  <2>2. CASE n \notin settled
    <3>1. n \notin passedOver /\ \A s \in cursor + 1 .. next : history[s].note # n
      BY <1>1, <2>2
    <3>2. /\ Reflects(local[n], n, cursor)
          /\ guards[n] = "deleted" => Reflects(Missing, n, cursor)
      BY <3>1 DEF Inv, Kept, Covered
    <3>3. /\ Reflects(local[n], n, next)
          /\ guards[n] = "deleted" => Reflects(Missing, n, next)
      BY <1>2, <1>3, <3>1, <3>2, ReflectsAdvanced
    <3> QED BY <1>1, <2>2, <3>3 DEF Covered, Reflects, LeftBy
  <2> QED BY <2>1, <2>2
<1>6. RestoreInv' /\ restore' \in Restore
  <2>1. /\ restore' \in Restore
        /\ restore'.pc = restore.pc /\ restore'.note = restore.note
        /\ restore'.got = restore.got
        /\ restore.pc = "got" => (restore'.passed <=> restore.passed \/ restore.note \in passed)
    <3> HIDE DEF passed
    <3> QED BY <1>1, OvertakeTyped DEF Inv, BrowserTyped
  <2>2. CASE restore.pc = "got" /\ ~restore'.passed
    <3>1. /\ restore.note \in Notes /\ Reflects(restore.got, restore.note, cursor)
          /\ \A s \in cursor + 1 .. next : history[s].note # restore.note
      BY <2>1, <2>2 DEF Inv, RestoreInv
    <3>2. Reflects(restore.got, restore.note, next)
      BY <1>2, <1>3, <3>1, ReflectsAdvanced
    <3> QED BY <1>1, <2>1, <3>1, <3>2 DEF RestoreInv, Reflects, LeftBy
  <2>3. CASE ~(restore.pc = "got" /\ ~restore'.passed)
    BY <2>1, <2>3 DEF Inv, RestoreInv
  <2> QED BY <2>1, <2>2, <2>3
<1> QED BY <1>1, <1>2, <1>3, <1>4, <1>5, <1>6

LEMMA ApplyPageStep ==
  ASSUME Inv, ApplyPage
  PROVE  Inv'
<1> DEFINE touched == {c.note : c \in pull.page} \ Untouchable
           removed == {c.note : c \in {d \in pull.page : d.deleted /\
                         \A e \in pull.page : e.note = d.note => e.sequence <= d.sequence}}
           settled == touched \cap (removed \cup pull.fresh)
<1>1. /\ UNCHANGED <<db, history, guards, base, dirty, budget, restored>>
      /\ At("changes") /\ pull.todo = {} /\ pull \in Pull
      /\ local' = [n \in Notes |-> IF n \notin touched THEN local[n]
                                   ELSE IF n \in removed THEN Missing ELSE pull.fetched[n]]
      /\ Advance(pull.next, touched, settled)
      /\ pull' = IF pull.more
                 THEN [pull EXCEPT !.pc = "feed", !.since = pull.next, !.page = {},
                                   !.fresh = {}, !.more = FALSE]
                 ELSE NoPull
  BY DEF ApplyPage, server, user, Inv, PullInv
<1>2. PageFits /\ FreshEnough /\ pull.next \in cursor .. Len(history)
  BY <1>1 DEF Inv, PullInv, PageFits
<1>3. Guarded \cap touched = {}
  BY DEF Untouchable
<1>4. ASSUME NEW n \in Notes \cap settled
      PROVE  guards[n] # "deleted" /\ Reflects(local'[n], n, pull.next)
  <2>1. guards[n] # "deleted"
    BY <1>3, <1>4 DEF Guarded
  <2>2. CASE n \in removed
    <3>1. PICK d \in pull.page : /\ d.deleted /\ d.note = n
                                 /\ \A e \in pull.page : e.note = n => e.sequence <= d.sequence
      BY <2>2
    <3>2. /\ cursor \in Nat /\ Len(history) \in Nat /\ pull.next \in Nat
          /\ cursor <= pull.next /\ pull.next <= Len(history)
      BY <1>2 DEF Inv, BrowserTyped, ServerInv, FeedInv, Counted, Store
    <3>3. /\ d.sequence \in cursor + 1 .. pull.next
          /\ history[d.sequence] = [note |-> d.note, deleted |-> d.deleted]
      BY <1>1, <1>2 DEF PageFits
    <3>4. LeftBy(Missing, n, d.sequence) /\ d.sequence \in 0 .. Len(history)
      BY <3>1, <3>2, <3>3 DEF LeftBy
    <3>5. ASSUME NEW i \in d.sequence + 1 .. pull.next, history[i].note = n
          PROVE  FALSE
      <4>1. i \in cursor + 1 .. pull.next /\ d.sequence < i
        BY <3>2, <3>3
      <4>2. PICK c \in pull.page : c.sequence = i
        <5>1. ~ \A c \in pull.page : i < c.sequence
          BY <3>2, <3>3, <4>1
        <5> QED BY <1>1, <1>2, <4>1, <5>1 DEF PageFits
      <4>3. c.note = n
        <5>1. history[c.sequence] = [note |-> c.note, deleted |-> c.deleted]
          BY <1>1, <1>2, <4>2 DEF PageFits
        <5>2. history[c.sequence].note = c.note
          BY <5>1
        <5> QED BY <3>5, <4>2, <5>2
      <4> QED BY <3>1, <3>2, <3>3, <4>1, <4>2, <4>3
    <3>6. Reflects(Missing, n, pull.next)
      BY <3>4, <3>5 DEF Reflects
    <3>7. local'[n] = Missing
      <4> HIDE DEF touched, removed
      <4> QED BY <1>1, <2>2
    <3> QED BY <2>1, <3>6, <3>7
  <2>3. CASE n \notin removed
    <3> HIDE DEF touched, removed
    <3>1. n \in pull.fresh /\ local'[n] = pull.fetched[n]
      BY <1>1, <2>3
    <3> QED BY <1>1, <1>2, <2>1, <3>1 DEF FreshEnough
  <2> QED BY <2>2, <2>3
<1>5. ASSUME NEW n \in Notes \ settled
      PROVE  local'[n] = local[n] \/ \E s \in cursor + 1 .. pull.next : history[s].note = n
  <2>1. CASE n \in touched
    <3>1. PICK c \in pull.page : c.note = n
      BY <2>1
    <3>2. /\ c.sequence \in cursor + 1 .. pull.next
          /\ history[c.sequence] = [note |-> c.note, deleted |-> c.deleted]
      BY <1>1, <1>2 DEF PageFits
    <3>3. history[c.sequence].note = c.note
      BY <3>2
    <3> QED BY <3>1, <3>2, <3>3
  <2>2. CASE n \notin touched
    <3> HIDE DEF touched
    <3> QED BY <1>1, <2>2
  <2> QED BY <2>1, <2>2
<1>6. local' \in [Notes -> Version] /\ UNCHANGED server
  <2> HIDE DEF touched, removed
  <2> QED BY <1>1, MissingTyped DEF Inv, BrowserTyped, Pull, server
<1> HIDE DEF touched, removed, settled
<1>7. /\ Kept' /\ cursor' \in 0 .. Len(history') /\ passedOver' \subseteq Notes
      /\ RestoreInv' /\ restore' \in Restore
  BY <1>1, <1>2, <1>4, <1>5, AdvanceKept
<1>8. BrowserTyped'
  BY <1>1, <1>6, <1>7 DEF Inv, BrowserTyped
<1>9. PullInv'
  <2>1. CASE pull.more
    <3>1. pull' = [pull EXCEPT !.pc = "feed", !.since = pull.next, !.page = {},
                               !.fresh = {}, !.more = FALSE]
      BY <1>1, <2>1
    <3>2. /\ pull' \in Pull /\ pull'.pc = "feed" /\ pull'.since = pull.next
          /\ pull'.fresh = {} /\ pull'.todo = {}
      BY <1>1, <3>1 DEF Pull
    <3>3. cursor' = pull.next
      BY <1>1 DEF Advance
    <3> QED BY <3>2, <3>3 DEF PullInv, PageFits, FreshEnough, SnapshotFits, At
  <2>2. CASE ~pull.more
    BY <1>1, <2>2, NoPullInv
  <2> QED BY <2>1, <2>2
<1> QED BY <1>6, <1>7, <1>8, <1>9, QuietServer DEF Inv

LEMMA ApplySnapshotStep ==
  ASSUME Inv, ApplySnapshot
  PROVE  Inv'
<1> DEFINE gone     == Notes \ (pull.listed \cup Guarded)
           replaced == {n \in Notes : pull.fetched[n] # Missing} \ Untouchable
           settled  == gone \cup (pull.fresh \ Untouchable)
<1>1. /\ UNCHANGED <<db, history, guards, base, dirty, budget, restored>>
      /\ At("snapshot") /\ pull \in Pull
      /\ local' = [n \in Notes |-> IF n \in gone THEN Missing
                                   ELSE IF n \in replaced THEN pull.fetched[n] ELSE local[n]]
      /\ Advance(pull.next, replaced, settled)
      /\ pull' = NoPull
  BY DEF ApplySnapshot, Baseline, server, user, Inv, PullInv
<1>2. SnapshotFits /\ FreshEnough /\ pull.next \in cursor .. Len(history)
  BY <1>1 DEF Inv, PullInv, SnapshotFits
<1>3. ASSUME NEW n \in Notes \cap settled
      PROVE  guards[n] # "deleted" /\ Reflects(local'[n], n, pull.next)
  <2>1. guards[n] # "deleted"
    BY <1>3 DEF Untouchable, Guarded
  <2>2. CASE n \in gone
    <3>1. Reflects(Missing, n, pull.next)
      BY <1>1, <1>2, <2>2 DEF SnapshotFits
    <3> HIDE DEF gone, replaced
    <3> QED BY <1>1, <2>1, <2>2, <3>1
  <2>3. CASE n \notin gone
    <3>1. n \in replaced /\ n \in pull.fresh
      BY <1>1, <1>2, <1>3, <2>3 DEF SnapshotFits
    <3> HIDE DEF gone, replaced
    <3> QED BY <1>1, <1>2, <2>1, <2>3, <3>1 DEF FreshEnough
  <2> QED BY <2>2, <2>3
<1>4. ASSUME NEW n \in Notes \ settled
      PROVE  local'[n] = local[n]
  <2>1. n \notin gone /\ n \notin replaced
    BY <1>1, <1>2 DEF SnapshotFits
  <2> HIDE DEF gone, replaced
  <2> QED BY <1>1, <2>1
<1>5. local' \in [Notes -> Version]
  <2> HIDE DEF gone, replaced
  <2> QED BY <1>1, MissingTyped DEF Inv, BrowserTyped, Pull
<1> HIDE DEF gone, replaced, settled
<1>6. /\ Kept' /\ cursor' \in 0 .. Len(history') /\ passedOver' \subseteq Notes
      /\ RestoreInv' /\ restore' \in Restore
  BY <1>1, <1>2, <1>3, <1>4, AdvanceKept
<1>7. BrowserTyped'
  BY <1>1, <1>5, <1>6 DEF Inv, BrowserTyped
<1> QED BY <1>1, <1>6, <1>7, QuietServer, NoPullInv DEF Inv, server

-----------------------------------------------------------------------------
(* Opening a note by its address. An answer that no cursor has overtaken     *)
(* keeps the note covered.                                                   *)
LEMMA RestoreSteps ==
  ASSUME Inv, Opened
  PROVE  Inv'
<1>1. UNCHANGED <<db, history, cursor, guards, base, dirty, pull>>
  BY DEF Opened, RestoreAsks, RestoreAnswered, RestoreStores, RestoreEnds, RestoreLooks,
         server, user, store
<1>2. /\ restore \in Restore /\ cursor \in 0 .. Len(history)
      /\ restore.pc # "idle" => restore.note \in Notes
      /\ local \in [Notes -> Version] /\ passedOver \subseteq Notes
  BY DEF Inv, BrowserTyped, RestoreInv
<1>3. /\ NoRestore.pc = "idle" /\ NoRestore \in Restore
  BY NoRestoreTyped DEF NoRestore
<1>4. CASE RestoreStores
  <2>1. /\ restore.pc = "got" /\ restore.note \in Notes /\ restore.got \in Version
        /\ local' = [local EXCEPT ![restore.note] = restore.got]
        /\ passedOver' = passedOver \cup (IF restore.passed THEN {restore.note} ELSE {})
        /\ restored' = restored \cup {restore.note} /\ restore' = NoRestore /\ UNCHANGED budget
    BY <1>2, <1>4 DEF RestoreStores, user, Restore
  <2>2. BrowserTyped'
    BY <1>1, <1>2, <1>3, <2>1 DEF Inv, BrowserTyped
  <2>3. RestoreInv'
    BY <1>3, <2>1 DEF RestoreInv
  <2>4. Kept'
    <3> SUFFICES ASSUME NEW n \in Notes \ passedOver'
                 PROVE  \/ /\ n \notin passedOver
                           /\ local'[n] = local[n] /\ (guards'[n] = "deleted" => guards[n] = "deleted")
                        \/ /\ Reflects(local'[n], n, cursor)
                           /\ guards'[n] = "deleted" => Reflects(Missing, n, cursor)
      BY <1>1, QuietKept DEF Inv
    <3>1. n \notin passedOver /\ (n = restore.note => ~restore.passed)
      BY <2>1
    <3>2. guards[n] = "deleted" => Reflects(Missing, n, cursor)
      BY <3>1 DEF Inv, Kept
    <3>3. CASE n = restore.note
      <4>1. Reflects(restore.got, n, cursor)
        BY <2>1, <3>1, <3>3 DEF Inv, RestoreInv
      <4> QED BY <1>1, <1>2, <2>1, <3>2, <3>3, <4>1
    <3>4. CASE n # restore.note
      BY <1>1, <1>2, <2>1, <3>1, <3>4
    <3> QED BY <3>3, <3>4
  <2> QED BY <1>1, <2>2, <2>3, <2>4, QuietServer, QuietPull DEF Inv, server
<1>5. CASE RestoreAsks \/ RestoreAnswered \/ RestoreEnds \/ \E n \in Notes : RestoreLooks(n)
  <2>1. UNCHANGED <<local, passedOver, restored>>
    BY <1>5 DEF RestoreAsks, RestoreAnswered, RestoreEnds, RestoreLooks, store
  <2>2. budget' \in [edits : 0 .. MaxEdits, failures : 0 .. MaxFailures,
                     restores : 0 .. MaxRestores]
    <3>1. CASE UNCHANGED budget
      BY <3>1 DEF Inv, BrowserTyped
    <3>2. CASE \E n \in Notes : RestoreLooks(n)
      BY <3>2, PullAssumption DEF Inv, BrowserTyped, RestoreLooks
    <3> QED BY <1>5, <3>1, <3>2 DEF RestoreAsks, RestoreAnswered, RestoreEnds, user
  <2>3. restore' \in Restore /\ RestoreInv'
    <3>1. CASE \E n \in Notes : RestoreLooks(n)
      <4>1. PICK n \in Notes : restore' = [NoRestore EXCEPT !.pc = "looked", !.note = n]
        BY <3>1 DEF RestoreLooks
      <4>2. restore' \in Restore /\ restore'.pc = "looked" /\ restore'.note = n
        BY <1>3, <4>1 DEF Restore
      <4> QED BY <4>2 DEF RestoreInv
    <3>2. CASE RestoreAsks
      <4>1. restore' = [restore EXCEPT !.pc = "asked"] /\ restore.pc = "looked"
        BY <3>2 DEF RestoreAsks
      <4>2. restore' \in Restore /\ restore'.pc = "asked" /\ restore'.note = restore.note
        BY <1>2, <4>1 DEF Restore
      <4> QED BY <1>2, <4>1, <4>2 DEF RestoreInv
    <3>3. CASE RestoreAnswered
      <4>1. PICK v : v = Stored(restore.note)
        OBVIOUS
      <4>2. restore' = [restore EXCEPT !.pc = "got", !.got = v] /\ restore.note \in Notes
        BY <1>2, <3>3, <4>1 DEF RestoreAnswered
      <4>3. v \in Version /\ Reflects(v, restore.note, cursor)
        BY <1>2, <4>1, <4>2, StoredTyped, StoredReflects DEF Inv
      <4>4. /\ restore' \in Restore /\ restore'.pc = "got" /\ restore'.note = restore.note
            /\ restore'.got = v
        BY <1>2, <4>2, <4>3 DEF Restore
      <4> QED BY <1>1, <4>2, <4>3, <4>4 DEF RestoreInv, Reflects, LeftBy
    <3>4. CASE RestoreEnds
      BY <1>3, <3>4 DEF RestoreEnds, RestoreInv
    <3> QED BY <1>5, <3>1, <3>2, <3>3, <3>4
  <2>4. BrowserTyped'
    BY <1>1, <2>1, <2>2, <2>3 DEF Inv, BrowserTyped
  <2>5. Kept'
    BY <1>1, <2>1, QuietKept DEF Inv
  <2> QED BY <1>1, <2>3, <2>4, <2>5, QuietServer, QuietPull DEF Inv, server
<1> QED BY <1>4, <1>5 DEF Opened

LEMMA InvStep == Inv /\ [Next]_vars => Inv'
<1> SUFFICES ASSUME Inv, [Next]_vars PROVE Inv'
  OBVIOUS
<1>1. CASE \E n \in Notes : RemoteSave(n) \/ RemoteDelete(n)
  BY <1>1, RemoteSteps
<1>2. CASE \/ \E n \in Notes : Type(n) \/ SaveResolution(n) \/ KeepCopy(n)
           \/ SaveEdit \/ Undo \/ Fail
  BY <1>2, UserSteps
<1>3. CASE \E n \in Notes : LeaveDeleted(n) \/ PushConflicts(n) \/ PushFindsDeletion(n)
  BY <1>3, LeaveDeletedStep, PushRefusedStep
<1>4. CASE \E n \in Notes : PushApplied(n)
  BY <1>4, PushAppliedStep
<1>5. CASE \/ StartPull \/ StartReconcile \/ ResetList \/ FeedBounds \/ FeedRows
           \/ \E n \in Notes : Download(n) \/ ListedNoteGone(n)
  <2>1. /\ UNCHANGED <<db, history, local, cursor, guards, base, dirty, budget, passedOver, restore>>
        /\ restored' \in {restored, {}}
    BY <1>5 DEF StartPull, StartReconcile, ResetList, FeedBounds, FeedRows, Download,
                ListedNoteGone, server, user, store, address
  <2>2. PullInv'
    BY <1>5, StartSteps, FeedBoundsStep, FeedRowsStep, DownloadStep, NoPullInv DEF ListedNoteGone
  <2>3. Kept'
    BY <2>1, QuietKept DEF Inv
  <2>4. BrowserTyped'
    BY <2>1 DEF Inv, BrowserTyped
  <2> QED BY <2>1, <2>2, <2>3, <2>4, QuietServer, QuietRestore DEF Inv, server
<1>6. CASE ApplyPage \/ ApplySnapshot
  BY <1>6, ApplyPageStep, ApplySnapshotStep
<1>7. CASE UNCHANGED vars
  <2>1. UNCHANGED <<db, history, local, cursor, guards, base, dirty, pull, restore, budget,
                    passedOver, restored>>
    BY <1>7 DEF vars
  <2>2. BrowserTyped'
    BY <2>1 DEF Inv, BrowserTyped
  <2> QED BY <2>1, <2>2, QuietServer, QuietPull, QuietRestore, QuietKept DEF Inv, server
<1>8. CASE Opened
  BY <1>8, RestoreSteps
<1> QED BY <1>1, <1>2, <1>3, <1>4, <1>5, <1>6, <1>7, <1>8 DEF Next, Environment, PullSteps

LEMMA Invariance == Spec => []Inv
BY InitInv, InvStep, PTL DEF Spec

(* Every state is well typed, and the cursor stays within what was written   *)
(* (ChangePull.tla, TypeOK).                                                 *)
THEOREM PullTypeCorrect == Spec => []TypeOK
<1>1. Inv => TypeOK
  BY DEF Inv, ServerInv, FeedInv, Counted, BrowserTyped, PullInv, TypeOK, HistoryEntry
<1> QED BY <1>1, Invariance, PTL

(* The cursor never runs ahead of the cache: whatever other devices write    *)
(* between two requests of a pull, whatever the user does meanwhile, and     *)
(* wherever it fails (remote-notes.js, pull, reset and reconcile); opening a *)
(* note by its address breaks this only with an answer the cursor has        *)
(* overtaken, which counts as passed over (navigation-controller.js,         *)
(* restoreNote).                                                             *)
THEOREM CacheCoversCursor == Spec => []CursorCovered
<1>1. Inv => CursorCovered
  BY DEF Inv, Kept, CursorCovered
<1> QED BY <1>1, Invariance, PTL

(* A pull leaves guarded notes alone, also those that became guarded while   *)
(* its requests were out (remote-notes.js, applyChangePage, applySnapshot).  *)
THEOREM PullsKeepGuarded == Spec => GuardedNotesKept
<1> DEFINE P == pull' # pull => \A n \in Guarded : local'[n] = local[n]
<1>1. ASSUME [Next]_vars PROVE P
  <2> SUFFICES ASSUME pull' # pull, NEW n \in Guarded PROVE local'[n] = local[n]
    OBVIOUS
  <2>1. n \in Notes /\ n \in Untouchable
    BY DEF Guarded, Untouchable
  <2>2. CASE ApplyPage
    BY <2>1, <2>2 DEF ApplyPage
  <2>3. CASE ApplySnapshot
    BY <2>1, <2>3 DEF ApplySnapshot
  <2>4. CASE local' = local
    BY <2>4
  <2> QED BY <1>1, <2>2, <2>3, <2>4
          DEF Next, Environment, PullSteps, RemoteSave, RemoteDelete, Type, SaveResolution,
              KeepCopy, LeaveDeleted, PushApplied, PushConflicts, PushFindsDeletion, SaveEdit,
              Undo, Fail, StartPull, StartReconcile, FeedBounds, FeedRows, ResetList, Download,
              ListedNoteGone, Opened, RestoreLooks, RestoreAsks, RestoreAnswered, RestoreStores,
              RestoreEnds, store, vars
<1> QED BY <1>1, PTL DEF Spec, GuardedNotesKept
-----------------------------------------------------------------------------
(* No version is newer than its note's last change, and while a pull runs,   *)
(* what it has fetched is at least as new as what is cached: but for a       *)
(* restore, only the pull itself stores versions then.                       *)
Aged ==
  /\ \A n \in Notes : local[n].at <= LastChange(n) /\ pull.fetched[n].at <= LastChange(n)
  /\ ~At("idle") =>
       \A n \in Notes \ restored :
         pull.fetched[n] # Missing => local[n].at <= pull.fetched[n].at

(* The answer of a restore is as new as the cached version, until another    *)
(* version is stored.                                                        *)
AnswerAged ==
  restore.pc = "got" =>
    /\ restore.got.at <= LastChange(restore.note)
    /\ ~restore.stored => local[restore.note].at <= restore.got.at

(* What NeverBackwards says of one step. *)
NoneOlder ==
  \A n \in Notes :
    \/ local'[n] = Missing \/ local'[n].at >= local[n].at
    \/ OvertakenStore(n) \/ FetchedBefore(n)

LEMMA InitAged == Init => Aged
<1> SUFFICES ASSUME Init PROVE Aged
  OBVIOUS
<1>1. history = <<>> /\ Len(history) = 0 /\ pull = NoPull
  BY DEF Init
<1>2. \A n : LastChange(n) \in 0 .. 0
  BY <1>1, LastChangeBounds
<1>3. \A n \in Notes : local[n].at = 0 /\ pull.fetched[n].at = 0
  BY <1>1 DEF Init, Missing, NoPull
<1>4. At("idle")
  BY <1>1 DEF At, NoPull
<1> QED BY <1>2, <1>3, <1>4 DEF Aged

(* The last change of a note never becomes an earlier one. *)
LEMMA LastChangeGrows ==
  ASSUME history \in Seq(HistoryEntry), history' \in Seq(HistoryEntry),
         history' = history \/ \E entry \in HistoryEntry : history' = Append(history, entry),
         NEW n
  PROVE  LastChange(n) \in Nat /\ LastChange(n)' \in Nat /\ LastChange(n) <= LastChange(n)'
<1> DEFINE S == {i \in 1 .. Len(history) : history[i].note = n}
           T == {i \in 1 .. Len(history') : history'[i].note = n}
<1>1. Len(history) \in Nat /\ Len(history') \in Nat
  BY LenProperties
<1>2. /\ S \subseteq Nat /\ \A s \in S : s <= Len(history)
      /\ T \subseteq Nat /\ \A s \in T : s <= Len(history')
  BY <1>1
<1>3. S \subseteq T
  <2>1. CASE history' = history
    BY <2>1
  <2>2. CASE \E entry \in HistoryEntry : history' = Append(history, entry)
    <3>1. PICK entry \in HistoryEntry : history' = Append(history, entry)
      BY <2>2
    <3>2. Len(history') = Len(history) + 1 /\ \A i \in 1 .. Len(history) : history'[i] = history[i]
      BY <3>1, AppendProperties
    <3> QED BY <1>1, <3>2
  <2> QED BY <2>1, <2>2
<1>4. LastChange(n) = Greatest(S) /\ LastChange(n)' = Greatest(T)
  BY DEF LastChange
<1> HIDE DEF S, T
<1>5. Greatest(S) \in Nat /\ (S # {} => Greatest(S) \in S)
  BY <1>1, <1>2, GreatestBounds
<1>6. Greatest(T) \in Nat /\ \A s \in T : s <= Greatest(T)
  BY <1>1, <1>2, GreatestBounds
<1>7. S = {} => Greatest(S) = 0
  BY DEF Greatest
<1> QED BY <1>3, <1>4, <1>5, <1>6, <1>7

LEMMA HistoryGrows ==
  ASSUME Inv, Inv', [Next]_vars
  PROVE  \A n : LastChange(n) \in Nat /\ LastChange(n)' \in Nat /\ LastChange(n) <= LastChange(n)'
<1>1. history \in Seq(HistoryEntry) /\ history' \in Seq(HistoryEntry)
  BY DEF Inv, ServerInv
<1>2. history' = history \/ \E entry \in HistoryEntry : history' = Append(history, entry)
  <2>1. CASE \E n \in Notes : RemoteSave(n) \/ RemoteDelete(n) \/ PushApplied(n)
    BY <2>1, ServerWrites DEF Inv
  <2>2. CASE UNCHANGED history
    BY <2>2
  <2> QED BY <2>1, <2>2
          DEF Next, Environment, PullSteps, Type, SaveResolution, KeepCopy, LeaveDeleted,
              PushConflicts, PushFindsDeletion, SaveEdit, Undo, Fail, StartPull, StartReconcile,
              FeedBounds, FeedRows, ApplyPage, ResetList, ApplySnapshot, Download,
              ListedNoteGone, Opened, RestoreLooks, RestoreAsks, RestoreAnswered, RestoreStores,
              RestoreEnds, server, vars
<1> QED BY <1>1, <1>2, LastChangeGrows

(* What the browser stores on its own is never newer than the cached version. *)
LEMMA LocalStepsAged ==
  ASSUME Inv, Inv', Aged,
         \A n : LastChange(n) \in Nat /\ LastChange(n)' \in Nat /\ LastChange(n) <= LastChange(n)',
         \A n \in Notes : local'[n] \in {local[n], Missing},
         restored \subseteq restored' \/ \A n \in Notes : pull'.fetched[n] = Missing,
         \/ pull'.pc = "idle" /\ pull' = NoPull
         \/ /\ pull'.fetched = pull.fetched \/ \A n \in Notes : pull'.fetched[n] = Missing
            /\ pull.pc = "idle" => pull'.pc = "idle" \/ \A n \in Notes : pull'.fetched[n] = Missing
  PROVE  Aged' /\ NoneOlder
<1>1. \A n \in Notes : /\ local[n] \in Version /\ local'[n] \in Version
                       /\ pull.fetched[n] \in Version /\ pull'.fetched[n] \in Version
  BY DEF Inv, BrowserTyped, PullInv, Pull
<1>2. Missing.at = 0 /\ \A n \in Notes : NoPull.fetched[n] = Missing
  BY DEF Missing, NoPull
<1>3. \A n \in Notes : local'[n].at <= local[n].at /\ local'[n].at \in Nat /\ local[n].at \in Nat
                       /\ pull.fetched[n].at \in Nat
  BY <1>1, <1>2 DEF Version
<1>4. \A n \in Notes : pull'.fetched[n] = pull.fetched[n] \/ pull'.fetched[n] = Missing
  BY <1>2
<1>5. \A n \in Notes : /\ local[n].at <= LastChange(n)
                       /\ pull.fetched[n].at <= LastChange(n)
  BY DEF Aged
<1>6. \A n \in Notes : /\ local'[n].at <= LastChange(n)'
                       /\ pull'.fetched[n].at <= LastChange(n)'
  <2> TAKE n \in Notes
  <2>0. LastChange(n) \in Nat /\ LastChange(n)' \in Nat /\ LastChange(n) <= LastChange(n)'
    OBVIOUS
  <2>1. local'[n].at <= LastChange(n)'
    BY <2>0, <1>3, <1>5
  <2>2. pull'.fetched[n].at <= LastChange(n)'
    BY <2>0, <1>2, <1>3, <1>4, <1>5
  <2> QED BY <2>1, <2>2
<1>7. ~At("idle")' => \A n \in Notes \ restored' :
                        pull'.fetched[n] # Missing => local'[n].at <= pull'.fetched[n].at
  <2> SUFFICES ASSUME pull'.pc # "idle", NEW n \in Notes \ restored', pull'.fetched[n] # Missing
               PROVE  local'[n].at <= pull'.fetched[n].at
    BY DEF At
  <2>1. pull'.fetched[n] = pull.fetched[n] /\ pull.pc # "idle" /\ n \notin restored
    BY <1>2, <1>4
  <2>2. local[n].at <= pull.fetched[n].at
    BY <2>1 DEF Aged, At
  <2> QED BY <1>3, <2>1, <2>2
<1>8. NoneOlder
  BY <1>3 DEF NoneOlder
<1> QED BY <1>6, <1>7, <1>8 DEF Aged

(* A push stores what the note's last change has left; no pull is under way. *)
LEMMA PushAged ==
  ASSUME Inv, Inv', Aged, NEW n \in Notes, PushApplied(n) \/ PushConflicts(n),
         \A m : LastChange(m) \in Nat /\ LastChange(m)' \in Nat /\ LastChange(m) <= LastChange(m)'
  PROVE  Aged' /\ NoneOlder
<1>1. /\ At("idle") /\ pull' = pull /\ restored' = restored
      /\ local \in [Notes -> Version] /\ \A m \in Notes : pull.fetched[m] \in Version
  BY DEF PushApplied, PushConflicts, Inv, BrowserTyped, PullInv, Pull
<1>2. PICK v : /\ local' = [local EXCEPT ![n] = v]
               /\ v.at \in Nat /\ v.at <= LastChange(n)' /\ (v # Missing => LastChange(n) <= v.at)
  <2>0. LastChange(n) \in Nat /\ LastChange(n)' \in Nat /\ LastChange(n) <= LastChange(n)'
    OBVIOUS
  <2>1. CASE PushApplied(n)
    <3>1. PICK v : v = Stored(n)'
      OBVIOUS
    <3>2. local' = [local EXCEPT ![n] = v]
      BY <2>1, <3>1 DEF PushApplied
    <3>3. v = Missing \/ v.at = LastChange(n)'
      BY <3>1 DEF Stored
    <3>4. v.at \in Nat /\ v.at <= LastChange(n)' /\ (v # Missing => LastChange(n) <= v.at)
      BY <2>0, <3>3 DEF Missing
    <3> QED BY <3>2, <3>4
  <2>2. CASE PushConflicts(n)
    <3>1. PICK v : v = Stored(n)
      OBVIOUS
    <3>2. local' = [local EXCEPT ![n] = v]
      BY <2>2, <3>1 DEF PushConflicts
    <3>3. v = Missing \/ v.at = LastChange(n)
      BY <3>1 DEF Stored
    <3>4. v.at \in Nat /\ v.at <= LastChange(n)' /\ (v # Missing => LastChange(n) <= v.at)
      BY <2>0, <3>3 DEF Missing
    <3> QED BY <3>2, <3>4
  <2> QED BY <2>1, <2>2
<1>3. local'[n] = v /\ \A m \in Notes \ {n} : local'[m] = local[m]
  BY <1>1, <1>2
<1>4. \A m \in Notes : /\ local[m].at \in Nat /\ local[m].at <= LastChange(m)
                       /\ pull.fetched[m].at \in Nat /\ pull.fetched[m].at <= LastChange(m)
  BY <1>1 DEF Aged, Version
<1>5. \A m \in Notes : local'[m].at <= LastChange(m)' /\ pull'.fetched[m].at <= LastChange(m)'
  <2> TAKE m \in Notes
  <2>0. LastChange(m) \in Nat /\ LastChange(m)' \in Nat /\ LastChange(m) <= LastChange(m)'
    OBVIOUS
  <2>1. CASE m = n
    BY <1>1, <1>2, <1>3, <1>4, <2>0, <2>1
  <2>2. CASE m # n
    BY <1>1, <1>3, <1>4, <2>0, <2>2
  <2> QED BY <2>1, <2>2
<1>6. NoneOlder
  <2> SUFFICES ASSUME NEW m \in Notes, local'[m] # Missing PROVE local'[m].at >= local[m].at
    BY DEF NoneOlder
  <2>0. LastChange(m) \in Nat
    OBVIOUS
  <2>1. CASE m = n
    BY <1>2, <1>3, <1>4, <2>0, <2>1
  <2>2. CASE m # n
    BY <1>3, <1>4, <2>2
  <2> QED BY <2>1, <2>2
<1> QED BY <1>1, <1>5, <1>6 DEF Aged, At

LEMMA DownloadAged ==
  ASSUME Inv, Inv', Aged, NEW n \in Notes, Download(n),
         \A m : LastChange(m) \in Nat /\ LastChange(m)' \in Nat /\ LastChange(m) <= LastChange(m)'
  PROVE  Aged' /\ NoneOlder
<1>1. /\ UNCHANGED <<local, restored>> /\ pull \in Pull /\ local \in [Notes -> Version]
      /\ At("changes") \/ At("snapshot")
      /\ pull' = [pull EXCEPT !.todo = @ \ {n}, !.fetched[n] = Stored(n), !.fresh = @ \cup {n}]
  BY DEF Download, store, address, Inv, BrowserTyped, PullInv
<1>2. /\ pull'.fetched[n] = Stored(n)
      /\ \A m \in Notes \ {n} : pull'.fetched[m] = pull.fetched[m]
  BY <1>1 DEF Pull
<1>3. Stored(n) = Missing \/ Stored(n).at = LastChange(n)
  BY DEF Stored
<1>4. \A m \in Notes : /\ local[m].at \in Nat /\ local[m].at <= LastChange(m)
                       /\ pull.fetched[m].at \in Nat /\ pull.fetched[m].at <= LastChange(m)
                       /\ pull.fetched[m] # Missing /\ m \notin restored
                            => local[m].at <= pull.fetched[m].at
  BY <1>1 DEF Aged, Version, Pull, At
<1>5. \A m \in Notes : /\ local'[m].at <= LastChange(m)' /\ pull'.fetched[m].at <= LastChange(m)'
                       /\ pull'.fetched[m] # Missing /\ m \notin restored
                            => local'[m].at <= pull'.fetched[m].at
  <2> TAKE m \in Notes
  <2>0. LastChange(m) \in Nat /\ LastChange(m)' \in Nat /\ LastChange(m) <= LastChange(m)'
    OBVIOUS
  <2>1. CASE m = n
    BY <1>1, <1>2, <1>3, <1>4, <2>0, <2>1 DEF Missing
  <2>2. CASE m # n
    BY <1>1, <1>2, <1>4, <2>0, <2>2
  <2> QED BY <2>1, <2>2
<1>6. NoneOlder
  BY <1>1, <1>4 DEF NoneOlder
<1> QED BY <1>1, <1>5, <1>6 DEF Aged

(* A page or a snapshot stores only what was fetched. *)
LEMMA ApplyAged ==
  ASSUME Inv, Inv', Aged, ApplyPage \/ ApplySnapshot,
         \A m : LastChange(m) \in Nat /\ LastChange(m)' \in Nat /\ LastChange(m) <= LastChange(m)'
  PROVE  Aged' /\ NoneOlder
<1>1. /\ ~At("idle") /\ pull \in Pull /\ restored' = restored /\ local \in [Notes -> Version]
      /\ \A m \in Notes : local'[m] \in {local[m], Missing, pull.fetched[m]}
  <2>1. CASE ApplyPage
    BY <2>1 DEF ApplyPage, At, Inv, BrowserTyped, PullInv
  <2>2. CASE ApplySnapshot
    BY <2>2 DEF ApplySnapshot, At, Inv, BrowserTyped, PullInv
  <2> QED BY <2>1, <2>2
<1>2. \A m \in Notes : pull'.fetched[m] \in {pull.fetched[m], Missing}
  <2>1. pull'.fetched = pull.fetched \/ pull' = NoPull
    BY <1>1 DEF ApplyPage, ApplySnapshot, Pull
  <2> QED BY <2>1 DEF NoPull
<1>3. \A m \in Notes : /\ local[m].at \in Nat /\ local[m].at <= LastChange(m)
                       /\ pull.fetched[m].at \in Nat /\ pull.fetched[m].at <= LastChange(m)
                       /\ pull.fetched[m] # Missing /\ m \notin restored
                            => local[m].at <= pull.fetched[m].at
                       /\ Missing.at = 0
  BY <1>1 DEF Aged, Version, Pull, Missing
<1>4. \A m \in Notes : /\ local'[m].at <= LastChange(m)' /\ pull'.fetched[m].at <= LastChange(m)'
                       /\ m \notin restored =>
                            /\ pull'.fetched[m] # Missing => local'[m].at <= pull'.fetched[m].at
                            /\ local'[m] # Missing => local'[m].at >= local[m].at
  <2> TAKE m \in Notes
  <2>0. /\ LastChange(m) \in Nat /\ LastChange(m)' \in Nat /\ LastChange(m) <= LastChange(m)'
        /\ local'[m] \in {local[m], Missing, pull.fetched[m]}
        /\ pull'.fetched[m] \in {pull.fetched[m], Missing}
    BY <1>1, <1>2
  <2> QED BY <1>3, <2>0
<1>5. \A m \in restored : FetchedBefore(m)
  BY <1>1 DEF FetchedBefore
<1> QED BY <1>1, <1>4, <1>5 DEF Aged, NoneOlder

(* The answer of a restore is stored. *)
LEMMA RestoreStoresAged ==
  ASSUME Inv, Inv', Aged, AnswerAged, RestoreStores,
         \A m : LastChange(m) \in Nat /\ LastChange(m)' \in Nat /\ LastChange(m) <= LastChange(m)'
  PROVE  Aged' /\ NoneOlder
<1>1. PICK n \in Notes :
        /\ n = restore.note /\ restore.pc = "got" /\ restore.got \in Version
        /\ local' = [local EXCEPT ![n] = restore.got] /\ restored' = restored \cup {n}
        /\ pull' = pull /\ pull \in Pull /\ local \in [Notes -> Version] /\ restore' = NoRestore
  BY DEF RestoreStores, Inv, RestoreInv, BrowserTyped, Restore, PullInv
<1>2. local'[n] = restore.got /\ \A m \in Notes \ {n} : local'[m] = local[m]
  BY <1>1
<1>3. \A m \in Notes : /\ local[m].at \in Nat /\ local[m].at <= LastChange(m)
                       /\ pull.fetched[m].at \in Nat /\ pull.fetched[m].at <= LastChange(m)
                       /\ ~At("idle") /\ m \notin restored /\ pull.fetched[m] # Missing
                            => local[m].at <= pull.fetched[m].at
  BY <1>1 DEF Aged, Version, Pull
<1>4. /\ restore.got.at \in Nat /\ restore.got.at <= LastChange(n)
      /\ ~restore.stored => local[n].at <= restore.got.at
  BY <1>1 DEF AnswerAged, Version
<1>5. \A m \in Notes : local'[m].at <= LastChange(m)' /\ pull'.fetched[m].at <= LastChange(m)'
  <2> TAKE m \in Notes
  <2>0. LastChange(m) \in Nat /\ LastChange(m)' \in Nat /\ LastChange(m) <= LastChange(m)'
    OBVIOUS
  <2>1. CASE m = n
    BY <1>1, <1>2, <1>3, <1>4, <2>0, <2>1
  <2>2. CASE m # n
    BY <1>1, <1>2, <1>3, <2>0, <2>2
  <2> QED BY <2>1, <2>2
<1>6. ~At("idle")' => \A m \in Notes \ restored' :
                        pull'.fetched[m] # Missing => local'[m].at <= pull'.fetched[m].at
  BY <1>1, <1>2, <1>3 DEF At
<1>7. NoneOlder
  <2> SUFFICES ASSUME NEW m \in Notes
               PROVE  local'[m].at >= local[m].at \/ OvertakenStore(m)
    BY DEF NoneOlder
  <2>1. CASE m = n /\ restore.stored
    <3>1. restore'.pc = "idle"
      BY <1>1 DEF NoRestore
    <3> QED BY <1>1, <2>1, <3>1 DEF OvertakenStore
  <2>2. CASE m = n /\ ~restore.stored
    BY <1>2, <1>4, <2>2
  <2>3. CASE m # n
    BY <1>2, <1>3, <2>3
  <2> QED BY <2>1, <2>2, <2>3
<1> QED BY <1>5, <1>6, <1>7 DEF Aged

(* An answer stays as new as the cached version while that one stays; what   *)
(* stores another one marks the answer.                                      *)
LEMMA AnswerKept ==
  ASSUME Inv, Inv', AnswerAged,
         \A m : LastChange(m) \in Nat /\ LastChange(m)' \in Nat /\ LastChange(m) <= LastChange(m)',
         NEW stored,
         UNCHANGED restore \/ \E passed : Overtake(stored, passed),
         \A n \in Notes : local'[n] \in {local[n], Missing} \/ (n \in stored /\ restore' # restore)
                          \/ (n \in stored /\ \E passed : Overtake(stored, passed))
  PROVE  AnswerAged'
<1> SUFFICES ASSUME restore'.pc = "got" PROVE AnswerAged'
  BY DEF AnswerAged
<1>1. /\ restore'.note = restore.note /\ restore'.got = restore.got /\ restore.pc = "got"
      /\ restore'.stored = restore.stored
         \/ (restore'.stored <=> restore.stored \/ restore.note \in stored)
  <2>1. CASE UNCHANGED restore
    BY <2>1
  <2>2. CASE \E passed : Overtake(stored, passed)
    BY <2>2, OvertakeTyped DEF Inv, BrowserTyped
  <2> QED BY <2>1, <2>2
<1>2. PICK n \in Notes : n = restore.note
  BY <1>1 DEF Inv, RestoreInv
<1>3. /\ restore.got \in Version /\ local[n] \in Version /\ local'[n] \in Version
      /\ restore.got.at \in Nat /\ local[n].at \in Nat /\ local'[n].at \in Nat
  BY DEF Inv, BrowserTyped, Restore, Version
<1>4. /\ restore.got.at <= LastChange(n)
      /\ ~restore.stored => local[n].at <= restore.got.at
  BY <1>1, <1>2 DEF AnswerAged
<1>5. restore.got.at <= LastChange(n)'
  <2>1. LastChange(n) \in Nat /\ LastChange(n)' \in Nat /\ LastChange(n) <= LastChange(n)'
    OBVIOUS
  <2> QED BY <1>3, <1>4, <2>1
<1>6. ~restore'.stored => local'[n].at <= restore.got.at
  <2> SUFFICES ASSUME ~restore'.stored PROVE local'[n].at <= restore.got.at
    OBVIOUS
  <2>1. ~restore.stored
    BY <1>1
  <2>2. local'[n] \in {local[n], Missing}
    <3>1. CASE n \in stored /\ \E passed : Overtake(stored, passed)
      BY <1>1, <1>2, <3>1, OvertakeTyped DEF Inv, BrowserTyped
    <3>2. CASE n \in stored /\ restore' # restore
      BY <1>1, <1>2, <3>2, OvertakeTyped DEF Inv, BrowserTyped
    <3> QED BY <3>1, <3>2
  <2> QED BY <1>3, <1>4, <2>1, <2>2 DEF Missing
<1>7. PICK m : m = restore'.note
  OBVIOUS
<1>8. m = n /\ restore'.got = restore.got
  BY <1>1, <1>2, <1>7
<1> QED BY <1>2, <1>5, <1>6, <1>7, <1>8 DEF AnswerAged, LastChange

LEMMA AnswerStep ==
  ASSUME Inv, Inv', Aged, AnswerAged, [Next]_vars
  PROVE  AnswerAged'
<1>1. \A m : LastChange(m) \in Nat /\ LastChange(m)' \in Nat /\ LastChange(m) <= LastChange(m)'
  BY HistoryGrows
<1>2. CASE \E n \in Notes : PushApplied(n) \/ PushConflicts(n)
  <2>1. PICK n \in Notes : PushApplied(n) \/ PushConflicts(n)
    BY <1>2
  <2>2. Overtake({n}, {}) /\ \A m \in Notes \ {n} : local'[m] = local[m]
    BY <2>1 DEF PushApplied, PushConflicts, Inv, BrowserTyped
  <2>3. \A m \in Notes : \/ local'[m] \in {local[m], Missing} \/ (m \in {n} /\ restore' # restore)
                         \/ (m \in {n} /\ \E passed : Overtake({n}, passed))
    BY <2>2
  <2> QED BY <1>1, <2>2, <2>3, AnswerKept
<1>3. CASE ApplyPage
  <2> DEFINE touched == {c.note : c \in pull.page} \ Untouchable
  <2>1. \E passed : Overtake(touched, passed)
    BY <1>3 DEF ApplyPage, Advance
  <2>2. \A m \in Notes \ touched : local'[m] = local[m]
    BY <1>3 DEF ApplyPage
  <2> HIDE DEF touched
  <2>3. \A m \in Notes : \/ local'[m] \in {local[m], Missing} \/ (m \in touched /\ restore' # restore)
                         \/ (m \in touched /\ \E passed : Overtake(touched, passed))
    BY <2>1, <2>2
  <2> QED BY <1>1, <2>1, <2>3, AnswerKept
<1>4. CASE ApplySnapshot
  <2> DEFINE replaced == {n \in Notes : pull.fetched[n] # Missing} \ Untouchable
  <2>1. \E passed : Overtake(replaced, passed)
    BY <1>4 DEF ApplySnapshot, Advance
  <2>2. \A m \in Notes \ replaced : local'[m] \in {local[m], Missing}
    BY <1>4 DEF ApplySnapshot
  <2> HIDE DEF replaced
  <2>3. \A m \in Notes : \/ local'[m] \in {local[m], Missing} \/ (m \in replaced /\ restore' # restore)
                         \/ (m \in replaced /\ \E passed : Overtake(replaced, passed))
    BY <2>1, <2>2
  <2> QED BY <1>1, <2>1, <2>3, AnswerKept
<1>5. CASE \/ \E n \in Notes :
                \/ RemoteSave(n) \/ RemoteDelete(n) \/ Type(n) \/ SaveResolution(n)
                \/ KeepCopy(n) \/ LeaveDeleted(n) \/ PushFindsDeletion(n) \/ ListedNoteGone(n)
                \/ Download(n)
           \/ SaveEdit \/ Undo \/ Fail \/ UNCHANGED vars
           \/ StartPull \/ StartReconcile \/ FeedBounds \/ FeedRows \/ ResetList
  <2>1. UNCHANGED restore
    BY <1>5 DEF RemoteSave, RemoteDelete, Type, SaveResolution, KeepCopy, LeaveDeleted,
                PushFindsDeletion, ListedNoteGone, Download, SaveEdit, Undo, Fail, vars,
                StartPull, StartReconcile, FeedBounds, FeedRows, ResetList, address
  <2>2. \A n \in Notes : local'[n] \in {local[n], Missing}
    BY <1>5 DEF RemoteSave, RemoteDelete, Type, SaveResolution, KeepCopy, LeaveDeleted,
                PushFindsDeletion, ListedNoteGone, Download, SaveEdit, Undo, Fail, vars,
                StartPull, StartReconcile, FeedBounds, FeedRows, ResetList, store, Inv,
                BrowserTyped
  <2> QED BY <1>1, <2>1, <2>2, AnswerKept
<1>6. CASE RestoreAnswered
  <2>0. PICK v, n : v = Stored(n) /\ n = restore.note
    OBVIOUS
  <2>1. /\ v = Stored(n) /\ n = restore.note /\ n \in Notes
        /\ restore' = [restore EXCEPT !.pc = "got", !.got = v]
        /\ restore \in Restore /\ UNCHANGED <<local, history>> /\ Live(db, n)
    BY <1>6, <2>0 DEF RestoreAnswered, store, server, Inv, BrowserTyped, RestoreInv
  <2>2. restore'.note = n /\ restore'.got = v /\ v.at = LastChange(n)
    BY <2>1 DEF Restore, Stored
  <2>3. local[n].at <= LastChange(n) /\ LastChange(n)' = LastChange(n) /\ LastChange(n) \in Nat
    BY <1>1, <2>1 DEF Aged, LastChange
  <2>4. PICK m : m = restore'.note
    OBVIOUS
  <2>5. PICK w : w = restore'.got
    OBVIOUS
  <2>6. m = n /\ w.at = LastChange(n)' /\ w.at = LastChange(n) /\ w.at <= LastChange(n)'
    BY <2>2, <2>3, <2>4, <2>5
  <2> QED BY <2>1, <2>3, <2>4, <2>5, <2>6 DEF AnswerAged, LastChange
<1>7. CASE RestoreAsks \/ RestoreStores \/ RestoreEnds \/ \E n \in Notes : RestoreLooks(n)
  <2>1. CASE RestoreAsks
    <3>1. restore' = [restore EXCEPT !.pc = "asked"] /\ restore \in Restore
      BY <2>1 DEF RestoreAsks, Inv, BrowserTyped
    <3>2. restore'.pc # "got"
      BY <3>1 DEF Restore
    <3> QED BY <3>2 DEF AnswerAged
  <2>2. CASE RestoreStores \/ RestoreEnds \/ \E n \in Notes : RestoreLooks(n)
    <3>0. NoRestore \in Restore /\ NoRestore.pc = "idle"
      BY NoRestoreTyped DEF NoRestore
    <3>1. restore'.pc # "got"
      <4>1. CASE \E n \in Notes : RestoreLooks(n)
        BY <3>0, <4>1 DEF RestoreLooks, Restore
      <4>2. CASE RestoreStores \/ RestoreEnds
        BY <3>0, <4>2 DEF RestoreStores, RestoreEnds
      <4> QED BY <2>2, <4>1, <4>2
    <3> QED BY <3>1 DEF AnswerAged
  <2> QED BY <1>7, <2>1, <2>2
<1> QED BY <1>2, <1>3, <1>4, <1>5, <1>6, <1>7 DEF Next, Environment, PullSteps, Opened

LEMMA AgedStep ==
  ASSUME Inv, Inv', Aged, AnswerAged, [Next]_vars
  PROVE  Aged' /\ NoneOlder
<1>1. \A m : LastChange(m) \in Nat /\ LastChange(m)' \in Nat /\ LastChange(m) <= LastChange(m)'
  BY HistoryGrows
<1>2. CASE \E n \in Notes : PushApplied(n) \/ PushConflicts(n)
  BY <1>1, <1>2, PushAged
<1>3. CASE \E n \in Notes : Download(n)
  BY <1>1, <1>3, DownloadAged
<1>4. CASE ApplyPage \/ ApplySnapshot
  BY <1>1, <1>4, ApplyAged
<1>5. CASE \/ \E n \in Notes :
                \/ RemoteSave(n) \/ RemoteDelete(n) \/ Type(n) \/ SaveResolution(n)
                \/ KeepCopy(n) \/ LeaveDeleted(n) \/ PushFindsDeletion(n) \/ ListedNoteGone(n)
           \/ SaveEdit \/ Undo \/ Fail \/ UNCHANGED vars
  <2>1. /\ \A n \in Notes : local'[n] \in {local[n], Missing}
        /\ restored' = restored
    BY <1>5 DEF RemoteSave, RemoteDelete, Type, SaveResolution, KeepCopy, LeaveDeleted,
                PushFindsDeletion, ListedNoteGone, SaveEdit, Undo, Fail, store, address, vars, Inv,
                BrowserTyped
  <2>2. pull' = pull \/ pull' = NoPull
    BY <1>5 DEF RemoteSave, RemoteDelete, Type, SaveResolution, KeepCopy, LeaveDeleted,
                PushFindsDeletion, ListedNoteGone, SaveEdit, Undo, Fail, vars
  <2>3. NoPull.pc = "idle"
    BY DEF NoPull
  <2> QED BY <1>1, <2>1, <2>2, <2>3, LocalStepsAged
<1>6. CASE StartPull \/ StartReconcile \/ FeedBounds \/ FeedRows \/ ResetList
  <2>1. \A n \in Notes : local'[n] \in {local[n], Missing}
    BY <1>6 DEF StartPull, StartReconcile, FeedBounds, FeedRows, ResetList, store
  <2>2. pull \in Pull
    BY DEF Inv, PullInv
  <2>3. \/ pull'.fetched = pull.fetched /\ pull.pc # "idle"
        \/ \A n \in Notes : pull'.fetched[n] = Missing
    <3>1. CASE FeedBounds \/ FeedRows
      BY <2>2, <3>1 DEF FeedBounds, FeedRows, At, Pull
    <3>2. CASE StartPull
      BY <3>2 DEF StartPull, NoPull
    <3>3. CASE StartReconcile \/ ResetList
      <4>1. PICK known, next : pull' = [Listed(known) EXCEPT !.next = next]
        <5>1. PICK known, here, there :
                known = {m \in Notes : Live(db, m) /\ local[m].revision = db.rows[m].revision}
                /\ here = cursor /\ there = pull.next
          OBVIOUS
        <5>2. CASE StartReconcile
          BY <5>1, <5>2 DEF StartReconcile
        <5>3. CASE ResetList
          BY <5>1, <5>3 DEF ResetList
        <5> QED BY <3>3, <5>2, <5>3
      <4>2. PICK live, held, todo :
              Listed(known) = [NoPull EXCEPT !.pc = "snapshot", !.listed = live, !.held = held,
                                             !.todo = todo]
        BY DEF Listed
      <4>3. pull'.fetched = [m \in Notes |-> Missing]
        BY <4>1, <4>2 DEF NoPull
      <4> QED BY <4>3
    <3> QED BY <1>6, <3>1, <3>2, <3>3
  <2>4. restored \subseteq restored' \/ \A n \in Notes : pull'.fetched[n] = Missing
    <3>1. CASE FeedBounds \/ FeedRows \/ ResetList
      BY <3>1 DEF FeedBounds, FeedRows, ResetList, address
    <3>2. CASE StartPull
      BY <3>2 DEF StartPull, NoPull
    <3>3. CASE StartReconcile
      <4>1. PICK known, here : pull' = [Listed(known) EXCEPT !.next = here]
        BY <3>3 DEF StartReconcile
      <4>2. PICK live, held, todo :
              Listed(known) = [NoPull EXCEPT !.pc = "snapshot", !.listed = live, !.held = held,
                                             !.todo = todo]
        BY DEF Listed
      <4> QED BY <4>1, <4>2 DEF NoPull
    <3> QED BY <1>6, <3>1, <3>2, <3>3
  <2> QED BY <1>1, <2>1, <2>3, <2>4, LocalStepsAged
<1>7. CASE RestoreStores
  BY <1>1, <1>7, RestoreStoresAged
<1>8. CASE RestoreAsks \/ RestoreAnswered \/ RestoreEnds \/ \E n \in Notes : RestoreLooks(n)
  <2>1. UNCHANGED <<local, pull, restored>>
    BY <1>8 DEF RestoreAsks, RestoreAnswered, RestoreEnds, RestoreLooks, store
  <2> QED BY <1>1, <2>1, LocalStepsAged
<1> QED BY <1>2, <1>3, <1>4, <1>5, <1>6, <1>7, <1>8
        DEF Next, Environment, PullSteps, Opened

(* The cache never goes back to an older version of a note: but for a note   *)
(* opened by its address, nothing else stores one during a pull, so what was *)
(* fetched is at least as new (remote-notes.js, applyChangePage and          *)
(* applySnapshot); and an answer to such a request is stored over a newer    *)
(* version only if that one was stored after the answer                      *)
(* (navigation-controller.js, restoreNote).                                  *)
THEOREM CacheNeverGoesBack == Spec => NeverBackwards
<1> DEFINE P == \A n \in Notes :
                  \/ local'[n] = Missing \/ local'[n].at >= local[n].at
                  \/ OvertakenStore(n) \/ FetchedBefore(n)
<1>1. Init => Inv /\ Aged /\ AnswerAged
  <2>1. Init => AnswerAged
    BY DEF Init, AnswerAged, NoRestore
  <2> QED BY <2>1, InitInv, InitAged
<1>2. Inv /\ Aged /\ AnswerAged /\ [Next]_vars => (Inv /\ Aged /\ AnswerAged)'
  BY InvStep, AgedStep, AnswerStep
<1>3. Inv /\ Inv' /\ Aged /\ AnswerAged /\ [Next]_vars => P
  BY AgedStep DEF NoneOlder
<1> QED BY <1>1, <1>2, <1>3, PTL DEF Spec, NeverBackwards
=============================================================================
