------------------------------ MODULE NoteServer ------------------------------
(***************************************************************************)
(* The plaintext note server: POST /api/sync/push, the direct note writes, *)
(* GET of a note, and the recovery of interrupted file operations.         *)
(*                                                                         *)
(* SQLite and the notes directory are two stores without a common          *)
(* transaction. A write stages the new file, commits the row together with *)
(* a file_operations row, renames the staged file and then deletes the     *)
(* row. Every writer holds noteMu from its first check to its response, so *)
(* at most one request is in progress: handler says which, and where it    *)
(* is. The process may crash between any two steps, and a file system call *)
(* may fail.                                                               *)
(***************************************************************************)
EXTENDS NoteStore, Sequences

CONSTANTS
  Devices,            \* sync device identifiers
  Bodies,             \* note contents
  Absent,             \* no file, no cached content, no body
  Direct,             \* stands for the device of a direct REST write
  Drafts,             \* the operations that devices issue
  MaxAcknowledgements,\* retained rows of sync_operations (100000 in the code)
  QuarantineAfter,    \* failures before a file operation is quarantined (3 in the code)
  MaxIssued,          \* bound: operations issued by all devices together
  MaxDirect,          \* bound: direct writes committed or refused
  MaxRollbacks,       \* bound: browser profiles restored from a copy
  MaxFaults,          \* bound: failing file system calls
  MaxCrashes          \* bound: server crashes

Draft == [type : {"note.save", "note.pin", "note.delete", "noop"}, note : Notes,
          base : Nat, body : Bodies \cup {Absent}, pinned : BOOLEAN]

WellFormed(draft) ==
  /\ draft.body # Absent <=> draft.type = "note.save"
  /\ draft.type = "note.delete" => draft.base >= 1

ASSUME DraftsAssumption == Drafts \subseteq Draft /\ \A draft \in Drafts : WellFormed(draft)
ASSUME NamesAssumption  == Absent \notin Bodies /\ Direct \notin Devices
ASSUME LimitsAssumption ==
  /\ MaxAcknowledgements \in Nat
  /\ QuarantineAfter \in Nat \ {0}
ASSUME BoundsAssumption ==
  {MaxIssued, MaxDirect, MaxRollbacks, MaxFaults, MaxCrashes} \subseteq Nat

VARIABLES
  db,           \* notes and sync_changes
  lastSequence, \* sync_device_state.last_sequence
  stored,       \* sync_operations: the retained acknowledgements
  fileOps,      \* file_operations
  files,        \* the Markdown files
  stages,       \* the staged files
  cache,        \* noteCache
  handler,      \* the request that holds noteMu, or the recovery at startup
  outbox,       \* what each device has queued, in client sequence order
  issued,       \* the number of operation identifiers handed out
  budget,       \* what is left of the bounds on the environment
  body,         \* history: the content of the last committed save
  applied       \* history: what became of every consumed operation

vars == <<db, lastSequence, stored, fileOps, files, stages, cache, handler,
          outbox, issued, budget, body, applied>>

-----------------------------------------------------------------------------
Content == Bodies \cup {Absent}

Operation == [sequence : Nat, id : Nat, draft : Drafts]

Result == [sequence : Nat, id : Nat, status : {"applied", "conflict", "compacted"},
           revision : Nat]

FileOp == [id : Nat, action : {"replace", "delete"}, note : Notes,
           body : Content, failures : Nat, quarantined : BOOLEAN]

Handler == [pc : {"down", "idle", "recover", "operations", "staged", "committed"},
            source : {"startup", "push", "direct"},
            device : Devices \cup {Direct},
            todo : Seq(Operation),      \* operations not yet acknowledged
            acks : SUBSET Result,       \* the acknowledgements collected so far
            recovering : SUBSET FileOp, \* rows recovery has selected and not yet tried
            pending : SUBSET FileOp]    \* the operation just committed

Idle == [pc |-> "idle", source |-> "startup", device |-> Direct, todo |-> <<>>,
         acks |-> {}, recovering |-> {}, pending |-> {}]

Down == [Idle EXCEPT !.pc = "down"]

Unquarantined == {f \in fileOps : ~f.quarantined}

(* Every request first recovers the file operations left behind.             *)
\* Mutated: they are recovered at startup only.
Recovering_StartupOnly(source, device, todo) ==
  [Idle EXCEPT !.pc = "recover", !.source = source, !.device = device, !.todo = todo,
               !.recovering = IF source = "startup" THEN Unquarantined ELSE {}]

Recovering(source, device, todo) ==
  [Idle EXCEPT !.pc = "recover", !.source = source, !.device = device,
               !.todo = todo, !.recovering = Unquarantined]

At(pc) == handler.pc = pc

Current == Head(handler.todo)

(* sync_operations, device counters, and the note store with its files.      *)
device_state == <<lastSequence, stored, applied>>
note_state   == <<db, fileOps, files, stages, cache, body>>
environment  == <<outbox, issued, budget>>

Init ==
  /\ db           = EmptyStore
  /\ lastSequence = [d \in Devices |-> 0]
  /\ stored       = {}
  /\ fileOps      = {}
  /\ files        = [n \in Notes |-> Absent]
  /\ stages       = {}
  /\ cache        = [n \in Notes |-> Absent]
  /\ handler      = Idle
  /\ outbox       = [d \in Devices |-> <<>>]
  /\ issued       = 0
  /\ budget       = [direct |-> MaxDirect, rollbacks |-> MaxRollbacks,
                     faults |-> MaxFaults, crashes |-> MaxCrashes]
  /\ body         = [n \in Notes |-> Absent]
  /\ applied      = {}

-----------------------------------------------------------------------------
(* The devices. An operation gets the next client sequence and a fresh       *)
(* identifier and keeps both. A browser profile restored from a copy issues  *)
(* sequences again, with other identifiers.                                  *)
Enqueue(d, draft) ==
  /\ At("idle")
  /\ issued < MaxIssued
  /\ issued' = issued + 1
  /\ outbox' = [outbox EXCEPT ![d] = Append(@, [id |-> issued + 1, draft |-> draft])]
  /\ UNCHANGED <<note_state, device_state, handler, budget>>

RestoreProfile(d, kept) ==
  /\ At("idle")
  /\ budget.rollbacks > 0
  /\ kept < Len(outbox[d])
  /\ outbox' = [outbox EXCEPT ![d] = SubSeq(@, 1, kept)]
  /\ budget' = [budget EXCEPT !.rollbacks = @ - 1]
  /\ UNCHANGED <<note_state, device_state, handler, issued>>

(* A push carries any contiguous part of the queue: a retry after a lost     *)
(* response repeats operations, a request delivered late repeats old ones,   *)
(* and a part that starts too far ahead leaves a gap.                        *)
Push(d, from, to) ==
  /\ At("idle")
  /\ handler' = Recovering("push", d,
       [i \in 1 .. (to - from + 1) |->
          [sequence |-> from + i - 1, id |-> outbox[d][from + i - 1].id,
           draft |-> outbox[d][from + i - 1].draft]])
  /\ UNCHANGED <<note_state, device_state, environment>>

(* POST /api/notes and DELETE /api/notes/{id}: one revision-checked write    *)
(* without a sequence.                                                       *)
DirectWrite(draft) ==
  /\ At("idle")
  /\ draft.type \in {"note.save", "note.delete"}
  /\ budget.direct > 0
  /\ budget' = [budget EXCEPT !.direct = @ - 1]
  /\ handler' = Recovering("direct", Direct,
                  <<[sequence |-> 0, id |-> 0, draft |-> draft]>>)
  /\ UNCHANGED <<note_state, device_state, outbox, issued>>

-----------------------------------------------------------------------------
(* completeFileOperation: a replacement renames the staged file, or finds    *)
(* that an earlier attempt already did; a deletion accepts a missing file.   *)
CanComplete(f) ==
  f.action = "replace" => f.id \in stages \/ files[f.note] = f.body

Moved(f) ==
  /\ files'  = [files EXCEPT ![f.note] =
                  IF f.action = "delete" THEN Absent
                  ELSE IF f.id \in stages THEN f.body ELSE @]
  /\ stages' = stages \ {f.id}

(* The failing call comes before the rename, or after it: the directory sync *)
(* or the deletion of the row.                                               *)
Faulty(f) ==
  \/ /\ ~CanComplete(f)
     /\ UNCHANGED <<files, stages, budget>>
  \/ /\ budget.faults > 0
     /\ budget' = [budget EXCEPT !.faults = @ - 1]
     /\ UNCHANGED <<files, stages>> \/ (CanComplete(f) /\ Moved(f))

-----------------------------------------------------------------------------
(* recoverFileOperations: each selected row is tried once; a failure is      *)
(* counted, and the row is quarantined at the limit.                         *)
RecoverOne(f) ==
  /\ At("recover")
  /\ f \in handler.recovering
  /\ CanComplete(f)
  /\ Moved(f)
  /\ fileOps' = fileOps \ {f}
  /\ handler' = [handler EXCEPT !.recovering = @ \ {f}]
  /\ UNCHANGED <<db, cache, body, device_state, environment>>

RecordFailure(f) ==
  /\ At("recover")
  /\ f \in handler.recovering
  /\ Faulty(f)
  /\ fileOps' = (fileOps \ {f}) \cup
       {[f EXCEPT !.failures = @ + 1,
                  !.quarantined = f.failures + 1 >= QuarantineAfter]}
  /\ handler' = [handler EXCEPT !.recovering = @ \ {f}]
  /\ UNCHANGED <<db, cache, body, device_state, outbox, issued>>

\* Mutated: quarantined operations do not keep their staged files.
Referenced_Unquarantined == {f.id : f \in Unquarantined}

Referenced == {f.id : f \in fileOps}

(* fileOperationBlocked: any row for the note, quarantined or not.           *)
\* Mutated: a quarantined row does not block.
Blocked_Unquarantined(operation) ==
  /\ operation.draft.type # "noop"
  /\ \E f \in Unquarantined : f.note = operation.draft.note

Blocked(operation) ==
  /\ operation.draft.type # "noop"
  /\ \E f \in fileOps : f.note = operation.draft.note

AnyBlocked == \E i \in 1 .. Len(handler.todo) : Blocked(handler.todo[i])

(* The orphaned stage files are removed; then the server is up, or the whole *)
(* request is refused with 503, or its operations are looked at.             *)
FinishRecovery ==
  /\ At("recover")
  /\ handler.recovering = {}
  /\ stages' = stages \cap Referenced
  /\ handler' = IF handler.source = "startup" \/ AnyBlocked THEN Idle
                ELSE [handler EXCEPT !.pc = "operations"]
  /\ UNCHANGED <<db, fileOps, files, cache, body, device_state, environment>>

(* The database or the notes directory fails: 500, or a fatal startup. The   *)
(* rows recovery has selected and not yet tried are left for the next time.  *)
FailRecovery ==
  /\ At("recover")
  /\ budget.faults > 0
  /\ budget' = [budget EXCEPT !.faults = @ - 1]
  /\ handler' = IF handler.source = "startup" THEN Down ELSE Idle
  /\ UNCHANGED <<note_state, device_state, outbox, issued>>

-----------------------------------------------------------------------------
(* handleSyncPush: operations that the device's counter has passed.          *)
StoredHere == {r \in stored : r.device = handler.device
                              /\ r.result.sequence = Current.sequence}

Working == At("operations") /\ handler.todo # <<>>

Replaying == /\ Working
             /\ handler.source = "push"
             /\ Current.sequence <= lastSequence[handler.device]

Acknowledge(result) ==
  handler' = [handler EXCEPT !.todo = Tail(@), !.acks = @ \cup {result}]

\* Mutated: the identifier of the stored operation is not compared.
ReplayStored_AnyIdentifier ==
  /\ Replaying
  /\ \E r \in StoredHere : Acknowledge(r.result)
  /\ UNCHANGED <<note_state, device_state, environment>>

ReplayStored ==
  /\ Replaying
  /\ \E r \in StoredHere : r.result.id = Current.id /\ Acknowledge(r.result)
  /\ UNCHANGED <<note_state, device_state, environment>>

ReplayCompacted ==
  /\ Replaying
  /\ StoredHere = {}
  /\ Acknowledge([sequence |-> Current.sequence, id |-> Current.id,
                  status |-> "compacted", revision |-> 0])
  /\ UNCHANGED <<note_state, device_state, environment>>

(* 409: the sequence belongs to another operation; nothing is acknowledged.  *)
RefuseReplay ==
  /\ Replaying
  /\ \E r \in StoredHere : r.result.id # Current.id
  /\ handler' = Idle
  /\ UNCHANGED <<note_state, device_state, environment>>

(* 409 with the acknowledged prefix and the expected sequence.               *)
RefuseGap ==
  /\ Working
  /\ handler.source = "push"
  /\ Current.sequence > lastSequence[handler.device] + 1
  /\ handler' = Idle
  /\ UNCHANGED <<note_state, device_state, environment>>

-----------------------------------------------------------------------------
(* applySyncOperation and the direct writes: one transaction each.           *)
\* Mutated: operations the counter has passed are applied again.
Due_Replayed == /\ Working
                /\ handler.source = "push" => Current.sequence <= lastSequence[handler.device] + 1

Due == /\ Working
       /\ handler.source = "push" => Current.sequence = lastSequence[handler.device] + 1

Conflicts == RevisionConflict(db, Current.draft.note, Current.draft.base)

(* compactSyncOperationAcknowledgements deletes the oldest row by the second *)
(* of its application and then by device, so which device loses its oldest   *)
(* row is open.                                                              *)
Compactions(rows) ==
  IF Cardinality(rows) <= MaxAcknowledgements THEN {rows}
  ELSE {rows \ {r} : r \in {s \in rows :
          \A t \in rows : t.device = s.device => s.result.sequence <= t.result.sequence}}

(* The result is stored and the counter advanced in the same transaction.    *)
Outcome(status, revision) ==
  [sequence |-> Current.sequence, id |-> Current.id, status |-> status, revision |-> revision]

\* Mutated: the counter is not advanced with the commit.
Consume_CounterKept(result) ==
  /\ applied' = applied \cup {[device |-> handler.device, result |-> result,
                               note |-> Current.draft.note, type |-> Current.draft.type]}
  /\ UNCHANGED <<stored, lastSequence>>

Consume(result) ==
  /\ applied' = applied \cup {[device |-> handler.device, result |-> result,
                               note |-> Current.draft.note, type |-> Current.draft.type]}
  /\ IF handler.source = "push"
     THEN /\ stored' \in Compactions(stored \cup {[device |-> handler.device, result |-> result]})
          /\ lastSequence' = [lastSequence EXCEPT ![handler.device] = Current.sequence]
     ELSE UNCHANGED <<stored, lastSequence>>

(* A conflict consumes the sequence of a pushed operation; a direct write is *)
(* refused with 409 or 404. A pin needs the row even when revision 0 is      *)
(* expected.                                                                 *)
Conflict ==
  /\ Due
  /\ handler.source = "push"
  /\ Current.draft.type # "noop"
  /\ Conflicts \/ (Current.draft.type = "note.pin" /\ ~Live(db, Current.draft.note))
  /\ LET result == Outcome("conflict", CurrentRevision(db, Current.draft.note))
     IN  Consume(result) /\ Acknowledge(result)
  /\ UNCHANGED <<note_state, environment>>

\* A direct save has staged its content by then and removes it again; where
\* that fails too, the step is Abort.
RefuseDirect ==
  /\ handler.source = "direct"
  /\ \/ Due /\ Current.draft.type # "note.save" /\ UNCHANGED stages
     \/ At("staged") /\ stages' = stages \ {db.newest + 1}
  /\ Conflicts
  /\ handler' = Idle
  /\ UNCHANGED <<db, fileOps, files, cache, body, device_state, environment>>

Noop ==
  /\ Due
  /\ Current.draft.type = "noop"
  /\ Consume(Outcome("applied", 0)) /\ Acknowledge(Outcome("applied", 0))
  /\ UNCHANGED <<note_state, environment>>

(* The result of a write: the revision it creates.                           *)
Written == Outcome("applied", CurrentRevision(db, Current.draft.note) + 1)

PinNote ==
  /\ Due
  /\ Current.draft.type = "note.pin"
  /\ ~Conflicts /\ Live(db, Current.draft.note)
  /\ db' = Pin(db, Current.draft.note, Current.draft.pinned)
  /\ Consume(Written) /\ Acknowledge(Written)
  /\ UNCHANGED <<fileOps, files, stages, cache, body, environment>>

(* The new content is written to a uniquely named staged file first, by a    *)
(* direct save before its revision is compared.                              *)
StageFile ==
  /\ Due
  /\ Current.draft.type = "note.save"
  /\ handler.source = "push" => ~Conflicts
  /\ stages' = stages \cup {db.newest + 1}
  /\ handler' = [handler EXCEPT !.pc = "staged"]
  /\ UNCHANGED <<db, fileOps, files, cache, body, device_state, environment>>

(* What every commit of a content change has in common. The acknowledgement  *)
(* is dropped again if the file operation then fails.                        *)
Commit(action, content) ==
  LET f == [id |-> db.newest + 1, action |-> action, note |-> Current.draft.note,
            body |-> content, failures |-> 0, quarantined |-> FALSE]
  IN  /\ Consume(Written)
      /\ fileOps' = fileOps \cup {f}
      /\ body'    = [body EXCEPT ![Current.draft.note] = content]
      /\ handler' = [handler EXCEPT !.pc = "committed", !.pending = {f},
                                    !.todo = Tail(@), !.acks = @ \cup {Written}]

CommitSave ==
  LET n        == Current.draft.note
      pinOrder == IF Live(db, n) THEN db.rows[n].pinOrder
                  ELSE IF handler.source = "push" /\ Current.draft.pinned THEN NextPinOrder(db) ELSE 0
  IN  /\ At("staged")
      /\ ~Conflicts
      /\ db' = Upsert(db, n, pinOrder)
      /\ Commit("replace", Current.draft.body)
      /\ UNCHANGED <<files, stages, cache, environment>>

(* The transaction, or a query before it, fails: 500, and the staged file is *)
(* removed, if there is one and it can be.                                   *)
Abort ==
  /\ Working \/ At("staged")
  /\ budget.faults > 0
  /\ budget' = [budget EXCEPT !.faults = @ - 1]
  /\ stages' \in {stages, stages \ {db.newest + 1}}
  /\ handler' = Idle
  /\ UNCHANGED <<db, fileOps, files, cache, body, device_state, outbox, issued>>

CommitDelete ==
  LET n == Current.draft.note
  IN  /\ Due
      /\ Current.draft.type = "note.delete"
      /\ ~Conflicts
      /\ db' = Delete(db, n)
      /\ Commit("delete", Absent)
      /\ UNCHANGED <<files, stages, cache, environment>>

-----------------------------------------------------------------------------
(* noteCache.Set and Delete. Setting an entry may evict others. Set leaves   *)
(* alone an entry of more than 16 MiB, which no request is long enough for:  *)
(* handlers.go:22 and operation.go:11 stop reading at 4 MiB.                 *)
\* Mutated: an entry that is already cached is kept.
CacheSet_KeepsEntry(n, content) ==
  cache' = [cache EXCEPT ![n] = IF @ = Absent THEN content ELSE @]

CacheSet(n, content) ==
  \E evicted \in SUBSET (Notes \ {n}) :
    cache' = [m \in Notes |-> IF m = n THEN content
                             ELSE IF m \in evicted THEN Absent ELSE cache[m]]

CacheDelete(n) == cache' = [cache EXCEPT ![n] = Absent]

(* After the commit the file operation is completed and its row deleted;     *)
(* only then is the cache told.                                              *)
CompleteFile(f) ==
  /\ At("committed")
  /\ f \in handler.pending
  /\ CanComplete(f)
  /\ Moved(f)
  /\ fileOps' = fileOps \ {f}
  /\ IF f.action = "replace" THEN CacheSet(f.note, f.body) ELSE CacheDelete(f.note)
  /\ handler' = [handler EXCEPT !.pc = "operations", !.pending = {}]
  /\ UNCHANGED <<db, body, device_state, environment>>

(* 500 although the transaction is committed; the cache is left as it was.   *)
FailFile(f) ==
  /\ At("committed")
  /\ f \in handler.pending
  /\ Faulty(f)
  /\ handler' = Idle
  /\ UNCHANGED <<db, fileOps, cache, body, device_state, outbox, issued>>

Respond ==
  /\ At("operations")
  /\ handler.todo = <<>>
  /\ handler' = Idle
  /\ UNCHANGED <<note_state, device_state, environment>>

-----------------------------------------------------------------------------
(* loadNoteWithContent: the row, then the cached content or else the file,   *)
(* which is then cached. Pending file operations are not looked at.          *)
ReadNote(n) ==
  /\ At("idle")
  /\ Live(db, n)
  /\ cache[n] = Absent /\ files[n] # Absent
  /\ CacheSet(n, files[n])
  /\ UNCHANGED <<db, fileOps, files, stages, body, handler, device_state, environment>>

(* What a read of n returns as content.                                      *)
View(n) == IF cache[n] # Absent THEN cache[n] ELSE files[n]

Crash ==
  /\ ~At("down")
  /\ budget.crashes > 0
  /\ budget'  = [budget EXCEPT !.crashes = @ - 1]
  /\ handler' = Down
  /\ cache'   = [n \in Notes |-> Absent]
  /\ UNCHANGED <<db, fileOps, files, stages, body, device_state, outbox, issued>>

Start ==
  /\ At("down")
  /\ handler' = Recovering("startup", Direct, <<>>)
  /\ UNCHANGED <<note_state, device_state, environment>>

-----------------------------------------------------------------------------
Devices_Next ==
  \/ \E d \in Devices, draft \in Drafts : Enqueue(d, draft)
  \/ \E d \in Devices : \E kept \in 0 .. Len(outbox[d]) : RestoreProfile(d, kept)
  \/ \E d \in Devices : \E from, to \in 1 .. Len(outbox[d]) : from <= to /\ Push(d, from, to)
  \/ \E draft \in Drafts : DirectWrite(draft)
  \/ \E n \in Notes : ReadNote(n)

Recovery ==
  \/ \E f \in handler.recovering : RecoverOne(f) \/ RecordFailure(f)
  \/ FinishRecovery \/ FailRecovery

Operations ==
  \/ ReplayStored \/ ReplayCompacted \/ RefuseReplay \/ RefuseGap
  \/ Conflict \/ RefuseDirect \/ Noop \/ PinNote
  \/ StageFile \/ CommitSave \/ Abort \/ CommitDelete
  \/ \E f \in handler.pending : CompleteFile(f) \/ FailFile(f)
  \/ Respond

Next == Devices_Next \/ Recovery \/ Operations \/ Crash \/ Start

Spec == Init /\ [][Next]_vars

-----------------------------------------------------------------------------
Outcomes == [device : Devices \cup {Direct}, result : Result, note : Notes,
             type : {"note.save", "note.pin", "note.delete", "noop"}]

TypeOK ==
  /\ db \in Store
  /\ lastSequence \in [Devices -> Nat]
  /\ stored \subseteq [device : Devices, result : Result]
  /\ fileOps \subseteq FileOp
  /\ files \in [Notes -> Content]
  /\ stages \subseteq Nat
  /\ cache \in [Notes -> Content]
  /\ handler \in Handler
  /\ outbox \in [Devices -> Seq([id : Nat, draft : Drafts])]
  /\ issued \in Nat
  /\ budget \in [direct : Nat, rollbacks : Nat, faults : Nat, crashes : Nat]
  /\ body \in [Notes -> Content]
  /\ applied \subseteq Outcomes

(* Exactly once. However often a device repeats, delays or overlaps its      *)
(* requests, and wherever the server crashes, every sequence up to the       *)
(* device's counter has been consumed by exactly one operation, and no       *)
(* operation has been consumed twice (sync_ops.go, handleSyncPush).          *)
Pushed(d) == {a \in applied : a.device = d}

ExactlyOnce ==
  \A d \in Devices :
    /\ {a.result.sequence : a \in Pushed(d)} = 1 .. lastSequence[d]
    /\ \A a, b \in Pushed(d) :
         a.result.sequence = b.result.sequence \/ a.result.id = b.result.id => a = b

(* What a push acknowledges is true. An "applied" or "conflict" is the       *)
(* outcome that very operation had, when it was first consumed; "compacted"  *)
(* is only said of a sequence the device's counter has passed                *)
(* (client-protocol.md, Durable synchronization).                            *)
AcknowledgementsTrue ==
  handler.source = "push" =>
    \A r \in handler.acks :
      /\ r.sequence <= lastSequence[handler.device]
      /\ r.id = outbox[handler.device][r.sequence].id
      /\ r.status # "compacted" =>
           \E a \in applied : a.device = handler.device /\ a.result = r

(* Two writes never produce the same revision of a note, so of the writers   *)
(* that start from one revision at most one is accepted. This needs the      *)
(* tombstones: it is claimed while no change row has been compacted away     *)
(* (queries.go, CheckNoteRevisionTx).                                        *)
NoForkedRevision ==
  db.newest <= MaxSyncChanges =>
    \A a, b \in applied :
      /\ a.note = b.note /\ a.result.revision = b.result.revision
      /\ a.result.status = "applied" /\ b.result.status = "applied"
      /\ a.type # "noop" /\ b.type # "noop"
      => a = b

(* The content of the last committed save is never lost, and a deleted       *)
(* note's file does not come back: the file is right, or a file operation    *)
(* that will make it right is recorded and can still be carried out, in      *)
(* every state a crash can leave (file_ops.go).                              *)
ContentDurable ==
  \A n \in Notes :
    files[n] # body[n] =>
      \E f \in fileOps : f.note = n /\ f.body = body[n] /\ CanComplete(f)

(* A note never has two file operations, so recovery can complete them in    *)
(* any order: created_at has a resolution of one second and the identifiers  *)
(* are random (file_ops.go, recoverFileOperations).                          *)
OneFileOperationPerNote ==
  \A f, g \in fileOps : f.note = g.note => f = g

(* What became of the operations of every device. *)
OutcomesOf(d) == {a.result : a \in Pushed(d)}

DeviceOutcomes == [d \in Devices |-> OutcomesOf(d)]

Revisions == [n \in Notes |-> db.rows[n].revision]

Contract == INSTANCE SyncContract WITH revision <- Revisions, outcomes <- DeviceOutcomes

(* Retries, crashes, file operations and compaction are invisible: the       *)
(* server implements the contract it has with its devices.                   *)
ImplementsContract == Contract!Spec

(* The server's own steps are taken, the process is restarted, and a device  *)
(* with unacknowledged operations sends its queue again. noteMu is handed to *)
(* waiters in order, so a device's request is not passed over for ever.      *)
Retry(d) ==
  /\ lastSequence[d] < Len(outbox[d])
  /\ Push(d, 1, Len(outbox[d]))

FairSpec ==
  /\ Spec
  /\ WF_vars(Recovery \/ Operations \/ Start)
  /\ \A d \in Devices : SF_vars(Retry(d))

(* Every queued operation is consumed in the end, whatever crashes, failing  *)
(* transactions and failing file operations interrupt on the way, as long as *)
(* no file operation has reached quarantine.                                 *)
QueuesDrain == \A d \in Devices : []<>(lastSequence[d] = Len(outbox[d]))

(* What readers of the change feed rely on (queries.go, ListSyncChanges).    *)
FeedAgreesWithRows == FeedDescribesRows(db) /\ FeedRevisionsGrow(db)

(* No two notes share a place in the order of the pinned notes               *)
(* (queries.go, PinNote, NextPinOrder).                                      *)
PinOrderTotal == PinOrdersDistinct(db)

(* No file system call has failed so far.                                    *)
Unfaulted == budget.faults = MaxFaults

(* A read returns a revision together with the content of that revision:     *)
(* whenever no request holds noteMu, the cache or the file holds what the    *)
(* row's revision committed, after crashes too. It is claimed as long as no  *)
(* file system call has failed (handlers.go, loadNoteWithContent).           *)
ReadsReturnTheirRevision ==
  At("idle") /\ Unfaulted => \A n \in Notes : Live(db, n) => View(n) = body[n]

(* "The source of truth is the note file" (note/cache.go): with no request   *)
(* in progress and no file operation outstanding, a cached content is the    *)
(* content of the file.                                                      *)
CacheFollowsFile ==
  At("idle") =>
    \A n \in Notes :
      cache[n] # Absent /\ (\A f \in fileOps : f.note # n) => cache[n] = files[n]

(* "A deleted note always conflicts" (queries.go, CheckNoteRevisionTx): a    *)
(* note that has been deleted has no row again.                              *)
DeletedNoteConflicts ==
  \A a \in applied : a.type = "note.delete" /\ a.result.status = "applied"
                       => ~Live(db, a.note)

=============================================================================
