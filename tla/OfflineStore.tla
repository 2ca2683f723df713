----------------------------- MODULE OfflineStore -----------------------------
(***************************************************************************)
(* The browser's IndexedDB as the transactions of core/offline-store.js    *)
(* and sync/sync-batch.js read and write it.                               *)
(*                                                                         *)
(* A disk is a record                                                      *)
(*   notes     - the cached copy of every note, or Absent                  *)
(*   queue     - the operations that wait for the server                   *)
(*   sequence  - clientSequence, the last sequence given to an operation   *)
(*   created   - how many operations ever got an identity                  *)
(*   rejected  - notes with a rejectedSync record                          *)
(*   conflicts - the unresolvedConflict record of every note, or Absent    *)
(*                                                                         *)
(* The operators below return the disk a transaction leaves behind. Text   *)
(* (title, tags and content) is the set of the edits it contains; Absent   *)
(* is JavaScript's null. Timestamps and the place of a pinned note follow  *)
(* the record and are left out.                                            *)
(***************************************************************************)
EXTENDS Integers, FiniteSets

CONSTANTS
  Notes,   \* note identifiers
  Edits,   \* edits a text may contain
  Absent

Text     == SUBSET Edits
Optional(S) == {Absent} \cup S

Note == [text : Text, revision : Nat, pending : BOOLEAN,
         base : Optional(Nat), baseText : Optional(Text), pinned : BOOLEAN]

Types == {"note.save", "note.pin", "note.delete", "noop"}

(* What a caller queues; text and baseText belong to saves only.             *)
Request == [type : Types, note : Notes, base : Optional(Nat),
            text : Text, baseText : Optional(Text), pinned : BOOLEAN]

Operation == [id : Nat \ {0}, sequence : Nat \ {0}, attempted : BOOLEAN,
              type : Types, note : Notes, base : Optional(Nat),
              text : Text, baseText : Optional(Text), pinned : BOOLEAN]

(* remote is Absent when the other device deleted the note.                  *)
Remote   == [text : Text, revision : Nat, pinned : BOOLEAN]
Conflict == [base : Text, local : Text, remote : Optional(Remote)]

(* null is none of the values it stands beside.                              *)
ASSUME StoreAssumption ==
  /\ Absent \notin Notes /\ Absent \notin Nat /\ \A text \in Text : text # Absent
  /\ Absent \notin Note /\ Absent \notin Remote /\ Absent \notin Conflict

Disk == [notes : [Notes -> Optional(Note)], queue : SUBSET Operation,
         sequence : Nat, created : Nat, rejected : SUBSET Notes,
         conflicts : [Notes -> Optional(Conflict)]]

-----------------------------------------------------------------------------
(* x ?? y *)
Or(x, y) == IF x = Absent THEN y ELSE x

Save(n, base, note) ==
  [type |-> "note.save", note |-> n, base |-> base,
   text |-> note.text, baseText |-> note.baseText, pinned |-> note.pinned]

PinRequest(n, base, pinned) ==
  [type |-> "note.pin", note |-> n, base |-> base,
   text |-> {}, baseText |-> Absent, pinned |-> pinned]

DeleteRequest(n, base) ==
  [type |-> "note.delete", note |-> n, base |-> base,
   text |-> {}, baseText |-> Absent, pinned |-> FALSE]

(* The server's copy as pages, resets and conflicts store it.                *)
Settled(remote) ==
  [text |-> remote.text, revision |-> remote.revision, pending |-> FALSE,
   base |-> Absent, baseText |-> Absent, pinned |-> remote.pinned]

PutNote(disk, n, note) == [disk EXCEPT !.notes[n] = note]

RemoveLocalNote(disk, n) == [disk EXCEPT !.notes[n] = Absent]

Queued(disk, n) == {q \in disk.queue : q.note = n}

Newest(S) == CHOOSE q \in S : \A r \in S : r.sequence <= q.sequence
Oldest(S) == CHOOSE q \in S : \A r \in S : q.sequence <= r.sequence

ReplaceOperation(disk, old, new) == [disk EXCEPT !.queue = (@ \ {old}) \cup {new}]

OfNote(q) == q.type \in {"note.save", "note.pin", "note.delete"}

-----------------------------------------------------------------------------
(* The pin of a note whose first save was not sent yet travels with it.      *)
InitialSaves(disk, n) ==
  {q \in Queued(disk, n) : ~q.attempted /\ q.type = "note.save" /\ Or(q.base, 0) = 0}

\* Mutated: an operation that was sent is changed again.
Coalescable_Attempted(disk, request) ==
  {q \in Queued(disk, request.note) :
     request.type # "note.delete" /\ q.type = request.type}

(* Deletions are never coalesced; an operation that was sent keeps its       *)
(* payload.                                                                  *)
Coalescable(disk, request) ==
  {q \in Queued(disk, request.note) :
     request.type # "note.delete" /\ q.type = request.type /\ ~q.attempted}

\* Mutated: the counter is read and not increased.
NextSequence_Stale(disk) == disk.sequence

\* Mutated: the sequence is taken from the queue.
NextSequence_FromQueue(disk) ==
  IF disk.queue = {} THEN 1 ELSE Newest(disk.queue).sequence + 1

(* clientSequence outlives the queue: an empty queue does not reset it.      *)
NextSequence(disk) == disk.sequence + 1

(* queueOperationInStores *)
QueueOperation(before, request) ==
  LET disk    == [before EXCEPT !.rejected = @ \ {request.note}]
      initial == InitialSaves(disk, request.note)
      same    == Coalescable(disk, request)
  IN  IF request.type = "note.pin" /\ initial # {}
      THEN LET q == Newest(initial)
           IN  ReplaceOperation(disk, q, [q EXCEPT !.pinned = request.pinned])
      ELSE IF same # {}
      THEN LET q == Newest(same)
           IN  ReplaceOperation(disk, q,
                 [q EXCEPT !.base = request.base, !.text = request.text,
                           !.baseText = request.baseText, !.pinned = request.pinned])
      ELSE [disk EXCEPT
              !.sequence = NextSequence(disk), !.created = @ + 1,
              !.queue = @ \cup {[id |-> disk.created + 1, sequence |-> NextSequence(disk),
                                 attempted |-> FALSE, type |-> request.type,
                                 note |-> request.note, base |-> request.base,
                                 text |-> request.text, baseText |-> request.baseText,
                                 pinned |-> request.pinned]}]

(* An acknowledgement may have settled the note since the caller read it:    *)
(* the save moves to the newer revision if the text it was read with stands. *)
Rebased(disk, n, note, expected) ==
  LET current == disk.notes[n]
  IN  IF /\ expected # Absent /\ current # Absent
         /\ current.revision > Or(note.base, 0)
         /\ current.revision >= expected.revision
         /\ current.text = expected.text
      THEN [note EXCEPT
              !.revision = current.revision,
              !.base     = IF current.pending THEN current.base ELSE current.revision,
              !.baseText = IF current.pending THEN current.baseText ELSE current.text]
      ELSE note

SaveLocalNoteAndQueue(disk, n, note, expected) ==
  LET saved == Rebased(disk, n, note, expected)
  IN  QueueOperation(PutNote(disk, n, saved), Save(n, saved.base, saved))

Supersede(disk, n, after) ==
  [disk EXCEPT !.queue =
     {IF q.note = n /\ q.sequence > after /\ ~q.attempted
      THEN [q EXCEPT !.type = "noop"] ELSE q : q \in @}]

RemoveLocalNoteAndSupersede(disk, n, after) ==
  Supersede(RemoveLocalNote(disk, n), n, after)

-----------------------------------------------------------------------------
\* Mutated: the request need not start at the front.
Claimable_Anywhere(disk, limit) ==
  {B \in SUBSET disk.queue : B # {} /\ Cardinality(B) <= limit}

(* claim: the request takes operations from the front of the queue, up to    *)
(* two operations on one note, the size of the request or the limit, and     *)
(* marks them as sent. The size may end it anywhere.                         *)
Claimable(disk, limit) ==
  {B \in SUBSET disk.queue :
     /\ B # {} /\ Cardinality(B) <= limit
     /\ \A q \in B, r \in disk.queue : r.sequence < q.sequence => r \in B
     /\ \A q, r \in B : q # r /\ OfNote(q) /\ OfNote(r) => q.note # r.note}

Attempted(S) == {[q EXCEPT !.attempted = TRUE] : q \in S}

Claim(disk, B) == [disk EXCEPT !.queue = (@ \ B) \cup Attempted(B)]

(* The stored operation is still the one that was sent.                      *)
IdentityMatches(disk, operation) == operation \in disk.queue

Later(disk, operation, type) ==
  {q \in Queued(disk, operation.note) : q.sequence > operation.sequence /\ q.type = type}

Dequeue(disk, operation) == [disk EXCEPT !.queue = @ \ {operation}]

RemoveIfIdentityMatches(disk, operation) ==
  IF IdentityMatches(disk, operation) THEN Dequeue(disk, operation) ELSE disk

(* quarantineQueueOperation: the slot stays in the queue as a noop.          *)
Quarantine(disk, operation) ==
  [ReplaceOperation(disk, operation,
     [operation EXCEPT !.type = "noop", !.base = Absent, !.text = {}, !.baseText = Absent])
   EXCEPT !.rejected = @ \cup {operation.note}]

(* rebaseNoteOperations *)
Rebasable(disk, operation) ==
  {q \in Queued(disk, operation.note) : q.id # operation.id /\ ~q.attempted /\ OfNote(q)}

Rebase(disk, operation, revision, text) ==
  [disk EXCEPT !.queue =
     {IF q \in Rebasable(disk, operation)
      THEN [q EXCEPT !.base = revision,
                     !.baseText = IF q.type = "note.save" THEN text ELSE @]
      ELSE q : q \in @}]

\* Mutated: the operation counts as later than itself.
HasLater_Inclusive(disk, operation) ==
  \E q \in Queued(disk, operation.note) : q.sequence >= operation.sequence /\ OfNote(q)

(* commitNoteAcknowledgement for an applied save or pin: the operation       *)
(* leaves the queue, the note settles at the new revision unless something   *)
(* was queued after it, and what was queued moves to the new revision.       *)
HasLater(disk, operation) ==
  \E q \in Queued(disk, operation.note) : q.sequence > operation.sequence /\ OfNote(q)

\* Mutated: the note is settled although later operations wait.
Acknowledged_Settles(local, operation, revision, later, laterPin) ==
  [local EXCEPT
     !.revision = revision,
     !.pending  = FALSE,
     !.base     = Absent,
     !.baseText = IF operation.type # "note.save" THEN @ ELSE Absent]

Acknowledged(local, operation, revision, later, laterPin) ==
  [local EXCEPT
     !.revision = revision,
     !.pending  = later,
     !.base     = IF later THEN revision ELSE Absent,
     !.pinned   = IF operation.type = "note.pin" /\ ~laterPin THEN operation.pinned ELSE @,
     !.baseText = IF operation.type # "note.save" THEN @
                  ELSE IF later THEN operation.text ELSE Absent]

\* Mutated: the operation stays in the queue.
CommitNoteAcknowledgement_Keeps(disk, operation, revision) ==
  LET local == disk.notes[operation.note]
  IN  PutNote(disk, operation.note,
        IF local = Absent THEN Absent
        ELSE Acknowledged(local, operation, revision, HasLater(disk, operation),
                          Later(disk, operation, "note.pin") # {}))

CommitNoteAcknowledgement(disk, operation, revision) ==
  LET local   == disk.notes[operation.note]
      base    == IF operation.type = "note.save" THEN operation.text
                 ELSE IF local = Absent THEN Absent ELSE local.text
      rebased == IF base = Absent THEN disk ELSE Rebase(disk, operation, revision, base)
      note    == IF local = Absent THEN Absent
                 ELSE Acknowledged(local, operation, revision, HasLater(disk, operation),
                                   Later(disk, operation, "note.pin") # {})
  IN  Dequeue(PutNote(rebased, operation.note, note), operation)

(* reconcile of sync/compacted-operations.js: the server forgot what became  *)
(* of the operation; remote is the note as it is there now, or Absent.       *)
Reconciled(disk, operation, remote) ==
  LET local == disk.notes[operation.note]
      later == Rebasable(disk, operation) # {}
      kept  == IF local = Absent THEN remote ELSE local
  IN  IF ~later
      THEN IF remote = Absent THEN Absent ELSE Settled(remote)
      ELSE IF remote = Absent THEN local
      ELSE [text |-> kept.text, revision |-> remote.revision, pending |-> TRUE,
            base |-> remote.revision, baseText |-> remote.text, pinned |-> kept.pinned]

ReconcileCompacted(disk, operation, remote) ==
  LET rebased == IF remote = Absent THEN disk
                 ELSE Rebase(disk, operation, remote.revision, remote.text)
  IN  Dequeue(PutNote(rebased, operation.note, Reconciled(disk, operation, remote)), operation)

(* createRemoteDeletion: the local version is kept beside the conflict.      *)
RecordRemoteDeletion(disk, operation, note, base) ==
  LET kept == [PutNote(disk, operation.note, [note EXCEPT !.pending = FALSE])
               EXCEPT !.conflicts[operation.note] =
                        [base |-> base, local |-> note.text, remote |-> Absent]]
  IN  Dequeue(Supersede(kept, operation.note, operation.sequence), operation)

=============================================================================
