----------------------------- MODULE OfflineSync -----------------------------
(***************************************************************************)
(* One browser edits notes offline and synchronises them: the editor       *)
(* session and its saver (app.js, editor/note-saver.js), the push loop     *)
(* with acknowledgements, merges, conflicts and compacted results          *)
(* (sync/*.js) and the server, which another device writes too.            *)
(*                                                                         *)
(* Every step is one IndexedDB transaction or one request; between any two *)
(* the user goes on working, the other device writes, and the tab may be   *)
(* closed. What follows the read of a conflict is a program of             *)
(* transactions (task.steps), carried out one at a time.                   *)
(*                                                                         *)
(* Texts are sets of edits. An edit belongs to the user of this browser    *)
(* (positive) or to the other device (negative).                           *)
(***************************************************************************)
EXTENDS OfflineStore, Sequences

CONSTANTS
  MainNotes,   \* notes users create; the others are conflict copies
  BatchLimit,  \* operations per request (100 in the code)
  MaxTyped,    \* bound: edits typed here
  MaxRemote,   \* bound: edits of the other device
  Budgets      \* bounds of a behaviour: what may happen in it how often

(* typed and remote count edits here and on the other device; actions the    *)
(* other things the user does; faults lost replies, refused requests,        *)
(* forgotten results and closed tabs.                                        *)
ASSUME SyncAssumption ==
  /\ MainNotes \subseteq Notes
  /\ Edits = (-MaxRemote .. MaxTyped) \ {0}
  /\ {BatchLimit, MaxTyped, MaxRemote} \subseteq Nat
  /\ Budgets \subseteq [typed : 0 .. MaxTyped, remote : 0 .. MaxRemote, actions : Nat, faults : Nat]

VARIABLES
  disk,    \* IndexedDB
  editor,  \* the open note: the currentNote... variables of app.js
  saver,   \* a save in progress: what persistSnapshot has read
  chore,   \* a deletion or a pin in progress: what it has read
  task,    \* the push in progress
  wire,    \* requests the server has not received
  server,  \* its notes, and the sequences it consumed of this device
  budget,  \* what is left of the bounds
  owed,    \* history: the edits nobody gave up
  lapses   \* history: the known gaps that this behaviour passed through

vars == <<disk, editor, saver, chore, task, wire, server, budget, owed, lapses>>

-----------------------------------------------------------------------------
(* The editor session. note is Absent while no note is open.                 *)
Editor == [note : Optional(Notes), text : Text, saved : Text, revision : Nat,
           base : Optional(Nat), dirty : BOOLEAN]

Closed == [note |-> Absent, text |-> {}, saved |-> {}, revision |-> 0,
           base |-> Absent, dirty |-> FALSE]

(* showNoteInEditor *)
Showing(n, note) ==
  [note |-> n, text |-> note.text, saved |-> note.text, revision |-> note.revision,
   base |-> note.base, dirty |-> FALSE]

(* updateOpenNote: another note and unsaved text are left alone.             *)
UpdateOpenNote(ed, n, note) == IF ed.note # n \/ ed.dirty THEN ed ELSE Showing(n, note)

Saver == [pc : {"idle", "read"}, note : Optional(Notes), text : Text, saved : Text,
          revision : Nat, base : Nat, existing : Optional(Note),
          deleted : BOOLEAN,   \* an unresolved remote deletion was found
          current : BOOLEAN]   \* the editor still shows the session it was taken from

NoSave == [pc |-> "idle", note |-> Absent, text |-> {}, saved |-> {}, revision |-> 0,
           base |-> 0, existing |-> Absent, deleted |-> FALSE, current |-> FALSE]

(* A new session: a save in progress no longer speaks for the editor.        *)
NewSession == saver' = [saver EXCEPT !.current = FALSE]

Chore == [kind : {"none", "delete", "pin"}, note : Optional(Notes),
          local : Optional(Note), unsent : BOOLEAN]
NoChore == [kind |-> "none", note |-> Absent, local |-> Absent, unsent |-> FALSE]

-----------------------------------------------------------------------------
(* The push in progress                                                      *)
Steps == {"fetch", "flush", "saving", "merge", "prepare", "reconcile", "pin", "deletion",
          "conflict", "put", "supersede", "remove", "rebase", "readPin", "queue",
          "queuePin", "flushAny", "open", "show"}

Result == [sequence : Nat \ {0}, id : Nat \ {0},
           status : {"applied", "conflict", "compacted"}, revision : Nat]

Task == [pc : {"idle", "sent", "acks", "page"},
         limit : Nat,                    \* operations the next request may take
         batch : SUBSET Operation,       \* sent, and not acknowledged yet
         results : SUBSET Result,
         target : Optional(Notes),       \* the note the steps are about
         steps : Seq(Steps),             \* what is left to do for the oldest of batch
         remote : Optional(Remote),
         put : Optional(Note),           \* the note to store
         conflict : Optional(Conflict),
         pinned : BOOLEAN, laterSave : BOOLEAN]

IdleTask == [pc |-> "idle", limit |-> BatchLimit, batch |-> {}, results |-> {},
             target |-> Absent, steps |-> <<>>, remote |-> Absent, put |-> Absent,
             conflict |-> Absent, pinned |-> FALSE, laterSave |-> FALSE]

Current == Oldest(task.batch)
Step    == IF task.steps = <<>> THEN "none" ELSE Head(task.steps)

(* The server's row of a note; a deleted note keeps its revision (tombstone).*)
Row    == [live : BOOLEAN, revision : Nat, text : Text, pinned : BOOLEAN]
NoRow  == [live |-> FALSE, revision |-> 0, text |-> {}, pinned |-> FALSE]
Server == [notes : [Notes -> Row], consumed : Nat, results : SUBSET Result]

Fetched(n) ==
  LET row == server.notes[n]
  IN  IF row.live THEN [text |-> row.text, revision |-> row.revision, pinned |-> row.pinned]
      ELSE Absent

(* A note that nobody knows yet, or one that both sides know.                *)
Known(n) == [live |-> TRUE, revision |-> 1, text |-> {}, pinned |-> FALSE]

Init ==
  \E known \in SUBSET MainNotes, bounds \in Budgets :
    /\ server = [notes |-> [n \in Notes |-> IF n \in known THEN Known(n) ELSE NoRow],
                 consumed |-> 0, results |-> {}]
    /\ disk = [notes |-> [n \in Notes |-> IF n \in known THEN Settled(Fetched(n)) ELSE Absent],
               queue |-> {}, sequence |-> 0, created |-> 0, rejected |-> {},
               conflicts |-> [n \in Notes |-> Absent]]
    /\ editor = Closed /\ saver = NoSave /\ chore = NoChore
    /\ task = IdleTask /\ wire = {}
    /\ budget = [typed |-> bounds.typed, remote |-> bounds.remote, actions |-> bounds.actions,
                 faults |-> bounds.faults, fresh |-> Notes \ known]
    /\ owed = {} /\ lapses = {}

-----------------------------------------------------------------------------
(* Gaps of the code this model knows of. A behaviour that goes through one   *)
(* is marked, and the properties say which marks they exclude.               *)
(*   resolve - the user changes a note between the reads of a conflict and   *)
(*             the last transaction of its resolution                        *)
(*   crash   - the tab is closed there                                       *)
(*   page    - the user types between the transaction that stores a newer    *)
(*             note and the update of the editor                             *)
(*   later   - a conflict is resolved, or replaced by a new conflict, after  *)
(*             the note was edited again, or deleted                         *)
(*   pin     - the pin of a note conflicts while it has unsent edits, or     *)
(*             stores again a note that was deleted here; it is stored over  *)
(*             a newer local text, or is acknowledged during a save, which   *)
(*             is then stored without the text it started from               *)
(*   reject  - a note is pinned, and its save was refused or will be         *)
(*   delete  - a save outlives the session it was taken from: the note was   *)
(*             deleted meanwhile                                             *)
(*   compact - a conflict was forgotten, or any result of a note with newer  *)
(*             work: the result is taken for applied and the newer work for  *)
(*             based on what the server has now                              *)
Resolving(n) ==
  /\ task.target = n
  /\ Step \notin {"none", "fetch", "flush"}

Touch(n) ==
  lapses' = lapses \cup (IF ~Resolving(n) THEN {}
                         ELSE IF task.pc = "page" THEN {"page"} ELSE {"resolve"})

Act == /\ budget.actions > 0
       /\ budget' = [budget EXCEPT !.actions = @ - 1]

Fault == /\ budget.faults > 0
         /\ budget' = [budget EXCEPT !.faults = @ - 1]

user    == <<editor, saver, chore>>
network == <<task, wire, server>>
asides  == <<budget, owed, lapses>>

-----------------------------------------------------------------------------
(* The user opens a note, starts one, and types. Leaving a note saves it     *)
(* first: another note is shown only when nothing is unsaved.                *)
EditorSettled == ~editor.dirty /\ saver.pc = "idle"

Open(n) ==
  /\ EditorSettled
  /\ editor.note # n /\ disk.notes[n] # Absent
  /\ editor' = Showing(n, disk.notes[n])
  /\ NewSession
  /\ UNCHANGED <<disk, chore, network, asides>>

StartNewNote(n) ==
  /\ EditorSettled
  /\ n \in budget.fresh \cap MainNotes
  /\ budget' = [budget EXCEPT !.fresh = @ \ {n}]
  /\ editor' = [Closed EXCEPT !.note = n]
  /\ NewSession
  /\ UNCHANGED <<disk, chore, network, owed, lapses>>

Close ==
  /\ EditorSettled
  /\ editor.note # Absent
  /\ editor' = Closed
  /\ NewSession
  /\ UNCHANGED <<disk, chore, network, asides>>

Type ==
  /\ editor.note # Absent
  /\ budget.typed > 0
  /\ budget' = [budget EXCEPT !.typed = @ - 1]
  /\ editor' = [editor EXCEPT !.text = @ \cup {MaxTyped - budget.typed + 1}, !.dirty = TRUE]
  /\ Touch(editor.note)
  /\ UNCHANGED <<disk, saver, chore, network, owed>>

-----------------------------------------------------------------------------
(* persistSnapshot: the cached note and the conflict are read, then the note *)
(* and its operation are stored in one transaction.                          *)
IsPending(note)      == note # Absent /\ note.pending
IsDeletion(conflict) == conflict # Absent /\ conflict.remote = Absent

Snapshot(n) ==
  [pc |-> "read", note |-> n, text |-> editor.text, saved |-> editor.saved,
   revision |-> editor.revision, base |-> Or(editor.base, editor.revision),
   existing |-> disk.notes[n], deleted |-> IsDeletion(disk.conflicts[n]), current |-> TRUE]

SaveStarts == editor.dirty /\ saver.pc = "idle" /\ saver' = Snapshot(editor.note)

BeginSave ==
  /\ SaveStarts
  /\ UNCHANGED <<disk, editor, chore, network, asides>>

LocalVersion ==
  LET existing == saver.existing
      pending  == IsPending(existing)
  IN  [text     |-> saver.text,
       revision |-> IF existing = Absent THEN saver.revision ELSE existing.revision,
       pending  |-> TRUE,
       base     |-> IF pending THEN existing.base ELSE saver.base,
       baseText |-> IF existing = Absent THEN {}
                    ELSE IF pending THEN Or(existing.baseText, {}) ELSE existing.text,
       pinned   |-> existing # Absent /\ existing.pinned]

(* Only a pending note, or one whose text is the one the session started     *)
(* from, may move the save to a newer revision.                              *)
Expected ==
  IF \/ IsPending(saver.existing)
     \/ saver.existing # Absent /\ saver.existing.text = saver.saved
  THEN saver.existing ELSE Absent

(* finishPersist: the editor is clean again if it still shows the snapshot.  *)
FinishPersist(base) ==
  editor' = IF saver.current /\ editor.note = saver.note /\ editor.text = saver.text
            THEN [editor EXCEPT !.base = base, !.saved = saver.text, !.dirty = FALSE]
            ELSE editor

(* What a save adds to the history variables.                                *)
Saves(n) ==
  /\ owed'   = owed \cup (saver.text \ saver.saved)
  /\ lapses' = lapses \cup (IF ~saver.current THEN {"delete"} ELSE {})
                      \cup (IF disk'.notes[n].baseText = Absent THEN {"pin"} ELSE {})
                      \cup (IF Step # "saving" /\ Resolving(n) THEN {"resolve"} ELSE {})

PersistNote ==
  LET n     == saver.note
      after == SaveLocalNoteAndQueue(disk, n, LocalVersion, Expected)
  IN  /\ saver.pc = "read" /\ ~saver.deleted
      /\ disk' = after
      /\ FinishPersist(after.notes[n].base)
      /\ Saves(n)
      /\ saver' = NoSave
      /\ UNCHANGED <<chore, network, budget>>

(* The note was deleted elsewhere: the local version of the conflict moves.  *)
PersistConflict ==
  LET n     == saver.note
      local == [LocalVersion EXCEPT !.pending = FALSE]
  IN  /\ saver.pc = "read" /\ saver.deleted
      /\ disk' = [PutNote(disk, n, local)
                  EXCEPT !.conflicts[n] = [base |-> Or(local.baseText, {}), local |-> local.text,
                                           remote |-> Absent]]
      /\ FinishPersist(Absent)
      /\ Saves(n)
      /\ saver' = NoSave
      /\ UNCHANGED <<chore, network, budget>>

-----------------------------------------------------------------------------
CachedText(n) == IF disk.notes[n] = Absent THEN {} ELSE disk.notes[n].text

(* The confirmed deletion of the open note: the note and its operations are  *)
(* read, then it is removed; a note the server never saw just disappears.    *)
BeginDelete ==
  LET n == editor.note
  IN  /\ n # Absent /\ EditorSettled /\ chore = NoChore
      /\ disk.notes[n] # Absent
      /\ Act
      /\ chore' = [kind |-> "delete", note |-> n, local |-> disk.notes[n],
                   unsent |-> /\ Queued(disk, n) # {}
                              /\ \A q \in Queued(disk, n) : ~q.attempted
                              /\ Or(disk.notes[n].base, 0) = 0]
      /\ UNCHANGED <<disk, editor, saver, network, owed, lapses>>

(* The user gives up the note, with what is typed until it is gone.          *)
DeleteNote ==
  LET n     == chore.note
      local == chore.local
  IN  /\ chore.kind = "delete"
      /\ disk' = IF chore.unsent THEN RemoveLocalNoteAndSupersede(disk, n, 0)
                 ELSE QueueOperation(RemoveLocalNote(disk, n),
                        DeleteRequest(n, Or(local.base, local.revision)))
      /\ editor' = Closed /\ NewSession
      /\ chore' = NoChore
      /\ owed' = owed \ (local.text \cup editor.text \cup CachedText(n))
      /\ Touch(n)
      /\ UNCHANGED <<network, budget>>

(* toggleNotePin, from the dashboard                                         *)
BeginPin(n) ==
  /\ editor.note = Absent /\ saver.pc = "idle" /\ chore = NoChore
  /\ disk.notes[n] # Absent
  /\ Act
  /\ chore' = [kind |-> "pin", note |-> n, local |-> disk.notes[n], unsent |-> FALSE]
  /\ UNCHANGED <<disk, editor, saver, network, owed, lapses>>

PinNote ==
  LET n     == chore.note
      local == chore.local
      base  == IF local.pending THEN Or(local.base, local.revision) ELSE local.revision
  IN  /\ chore.kind = "pin"
      /\ disk' = QueueOperation(
                    PutNote(disk, n, [local EXCEPT !.pinned = ~@, !.pending = TRUE, !.base = base]),
                    PinRequest(n, base, ~local.pinned))
      /\ chore' = NoChore
      /\ lapses' = lapses \cup (IF disk.notes[n] = Absent \/ Or(disk.notes[n], local).text # local.text
                                THEN {"pin"} ELSE {})
                          \cup (IF n \in disk.rejected THEN {"reject"} ELSE {})
                          \cup (IF Resolving(n) THEN {"resolve"} ELSE {})
      /\ UNCHANGED <<editor, saver, network, budget, owed>>

-----------------------------------------------------------------------------
(* The user resolves a conflict: with one of the versions or both together,  *)
(* by keeping the local version as a note of its own, or by giving it up.    *)
(* The edits of the versions that are not in the result are given up.        *)
EditedSince(n) ==
  \/ IsPending(disk.notes[n]) \/ chore.note = n
  \/ \E q \in Queued(disk, n) : q.type = "note.delete"
  \/ editor.note = n /\ (editor.dirty \/ saver.pc # "idle")

Resolves(n, after, n2, text) ==
  LET conflict == disk.conflicts[n]
      versions == conflict.local \cup
                  (IF conflict.remote = Absent THEN {} ELSE conflict.remote.text)
      ed       == [editor EXCEPT !.note = n2, !.dirty = FALSE]
  IN  /\ disk'   = [after EXCEPT !.conflicts[n] = Absent]
      /\ editor' = IF n2 = Absent
                   THEN IF editor.note = n THEN Closed ELSE editor
                   ELSE UpdateOpenNote(ed, n2, after.notes[n2])
      /\ NewSession
      /\ owed'   = owed \ (versions \ text)
      /\ lapses' = lapses \cup (IF EditedSince(n) THEN {"later"} ELSE {})
                          \cup (IF Resolving(n) THEN {"resolve"} ELSE {})
      /\ UNCHANGED <<chore, network>>

SaveResolution(n) ==
  LET conflict == disk.conflicts[n]
  IN  /\ conflict # Absent /\ ~IsDeletion(conflict) /\ EditorSettled
      /\ Act
      /\ \E text \in {conflict.local, conflict.remote.text,
                      conflict.local \cup conflict.remote.text} :
           LET resolved == [text |-> text, revision |-> conflict.remote.revision, pending |-> TRUE,
                            base |-> conflict.remote.revision, baseText |-> conflict.remote.text,
                            pinned |-> conflict.remote.pinned]
           IN  Resolves(n, QueueOperation(PutNote(disk, n, resolved),
                             Save(n, resolved.base, resolved)), n, text)

Copy(text) == [text |-> text, revision |-> 0, pending |-> TRUE, base |-> 0,
               baseText |-> {}, pinned |-> FALSE]

(* keepCopy and keepDeletedCopy; the latter also removes the deleted note.   *)
KeepCopy(n, c) ==
  LET conflict == disk.conflicts[n]
      copy     == [Copy(conflict.local) EXCEPT
                     !.pinned = IsDeletion(conflict) /\ disk.notes[n] # Absent /\ disk.notes[n].pinned]
      queued   == QueueOperation(PutNote(disk, c, copy), Save(c, 0, copy))
  IN  /\ conflict # Absent /\ EditorSettled
      /\ c \in budget.fresh \ MainNotes
      /\ budget.actions > 0
      /\ budget' = [budget EXCEPT !.actions = @ - 1, !.fresh = @ \ {c}]
      /\ Resolves(n, IF IsDeletion(conflict) THEN RemoveLocalNote(queued, n) ELSE queued, c,
                  conflict.local \cup
                    (IF conflict.remote = Absent THEN {} ELSE conflict.remote.text))

AcceptDeletion(n) ==
  /\ IsDeletion(disk.conflicts[n]) /\ EditorSettled
  /\ Act
  /\ Resolves(n, RemoveLocalNote(disk, n), Absent, {})

User ==
  \/ \E n \in Notes : Open(n) \/ StartNewNote(n) \/ BeginPin(n)
  \/ Close \/ Type \/ BeginSave \/ PersistNote \/ PersistConflict
  \/ BeginDelete \/ DeleteNote \/ PinNote
  \/ \E n \in Notes : SaveResolution(n) \/ AcceptDeletion(n) \/ \E c \in Notes : KeepCopy(n, c)

-----------------------------------------------------------------------------
(* The server. applySyncOperation for one operation: a stored result is      *)
(* repeated, a forgotten one is "compacted", the next one is applied.        *)
Conflicts(row, q) ==
  IF row.live THEN row.revision # Or(q.base, 0)
  ELSE Or(q.base, 0) # 0 \/ row.revision # 0 \/ q.type = "note.pin"

Written(row, q) ==
  [live     |-> q.type # "note.delete",
   revision |-> row.revision + 1,
   text     |-> CASE q.type = "note.save" -> q.text [] q.type = "note.pin" -> row.text
                  [] OTHER -> {},
   pinned   |-> CASE q.type = "note.pin" -> q.pinned [] q.type = "note.delete" -> FALSE
                  [] OTHER -> IF row.live THEN row.pinned ELSE q.pinned]

IsReplay(srv, q) == q.sequence <= srv.consumed

(* What the server answers to an operation it has not seen.                   *)
Outcome(srv, q) ==
  LET row == srv.notes[q.note]
      result(status, revision) ==
        [sequence |-> q.sequence, id |-> q.id, status |-> status, revision |-> revision]
  IN  IF q.type = "noop" THEN result("applied", 0)
      ELSE IF Conflicts(row, q) THEN result("conflict", row.revision)
      ELSE result("applied", row.revision + 1)

(* The operations of a batch take effect by their sequences. claim lets one  *)
(* request carry at most one operation on a note, so none of them sees what  *)
(* another one wrote.                                                        *)
ApplyBatch(srv, batch) ==
  LET new     == {q \in batch : ~IsReplay(srv, q)}
      applied == {q \in new : OfNote(q) /\ ~Conflicts(srv.notes[q.note], q)}
      on(n)   == {q \in applied : q.note = n}
  IN  [notes    |-> [n \in Notes |-> IF on(n) = {} THEN srv.notes[n]
                                    ELSE Written(srv.notes[n], Newest(on(n)))],
       consumed |-> IF new = {} THEN srv.consumed ELSE Newest(new).sequence,
       results  |-> srv.results \cup {Outcome(srv, q) : q \in new}]

ResultOf(srv, q) ==
  IF \E r \in srv.results : r.sequence = q.sequence
  THEN CHOOSE r \in srv.results : r.sequence = q.sequence
  ELSE [sequence |-> q.sequence, id |-> q.id, status |-> "compacted", revision |-> 0]

(* A deletion that is applied gives up what the note contained.              *)
Deleted(batch) ==
  UNION {server.notes[q.note].text :
           q \in {d \in batch : /\ d.type = "note.delete" /\ ~IsReplay(server, d)
                                 /\ ~Conflicts(server.notes[d.note], d)}}

(* The request arrives, perhaps long after the browser gave it up.           *)
Receive(batch) ==
  /\ wire' = wire \ {batch}
  /\ server' = ApplyBatch(server, batch)
  /\ owed' = owed \ Deleted(batch)

Reply(batch) ==
  /\ batch \in wire /\ task.pc = "sent" /\ task.batch = batch
  /\ Receive(batch)
  /\ task' = [task EXCEPT !.pc = "acks", !.results = {ResultOf(server', q) : q \in batch}]
  /\ UNCHANGED <<disk, user, budget, lapses>>

LateArrival(batch) ==
  /\ batch \in wire /\ ~(task.pc = "sent" /\ task.batch = batch)
  /\ Receive(batch)
  /\ UNCHANGED <<disk, user, task, budget, lapses>>

(* The other device.                                                         *)
RemoteEdit(n) ==
  LET mark == budget.remote - MaxRemote - 1
  IN  /\ budget.remote > 0 /\ server.notes[n].live
      /\ budget' = [budget EXCEPT !.remote = @ - 1]
      /\ server' = [server EXCEPT !.notes[n].revision = @ + 1, !.notes[n].text = @ \cup {mark}]
      /\ owed' = owed \cup {mark}
      /\ UNCHANGED <<disk, user, task, wire, lapses>>

RemoteDelete(n) ==
  /\ budget.remote > 0 /\ server.notes[n].live
  /\ budget' = [budget EXCEPT !.remote = @ - 1]
  /\ server' = [server EXCEPT !.notes[n] = [NoRow EXCEPT !.revision = @ + server.notes[n].revision + 1]]
  /\ owed' = owed \ server.notes[n].text
  /\ UNCHANGED <<disk, user, task, wire, lapses>>

(* The oldest results of this device are deleted on the server.              *)
Forget ==
  \E r \in server.results :
    /\ \A o \in server.results : r.sequence <= o.sequence
    /\ Fault
    /\ server' = [server EXCEPT !.results = @ \ {r}]
    /\ lapses' = lapses \cup (IF r.status = "conflict" THEN {"compact"} ELSE {})
    /\ UNCHANGED <<disk, user, task, wire, owed>>

-----------------------------------------------------------------------------
(* The push loop: claim, send, and apply the acknowledgements in order. A    *)
(* new run of the loop starts with the full limit.                           *)
SendBatch ==
  \E B \in Claimable(disk, task.limit) \cup Claimable(disk, BatchLimit) :
    /\ task.pc = "idle"
    /\ disk' = Claim(disk, B)
    /\ task' = [task EXCEPT !.pc = "sent", !.batch = Attempted(B)]
    /\ wire' = wire \cup {Attempted(B)}
    /\ UNCHANGED <<user, server, asides>>

(* The request fails, or its reply is lost: the operations stay in the queue.*)
LoseReply ==
  /\ task.pc = "sent"
  /\ Fault
  /\ task' = IdleTask
  /\ UNCHANGED <<disk, user, wire, server, owed, lapses>>

(* The server refuses the request for what an operation contains, so no copy *)
(* of that operation was ever accepted, or will be. A smaller request is     *)
(* tried; an operation refused alone becomes a noop that needs attention.    *)
Refuse ==
  /\ task.pc = "sent" /\ task.batch \in wire
  /\ \E q \in task.batch :
       ~IsReplay(server, q) /\ \A other \in wire \ {task.batch} : q \notin other
  /\ Fault
  /\ wire' = wire \ {task.batch}
  /\ IF Cardinality(task.batch) > 1
     THEN /\ task' = [IdleTask EXCEPT !.limit = 1]
          /\ UNCHANGED disk
     ELSE /\ task' = [IdleTask EXCEPT !.limit = task.limit]
          /\ disk' = Quarantine(disk, Current)
  /\ lapses' = lapses \cup
       (IF /\ disk'.rejected # disk.rejected /\ Current.type = "note.save"
           /\ Later(disk, Current, "note.pin") # {} THEN {"reject"} ELSE {})
  /\ UNCHANGED <<user, server, owed>>

Begin(n, steps) == task' = [task EXCEPT !.target = n, !.steps = steps]

(* The oldest operation of the batch is done with.                           *)
NextAcknowledgement ==
  LET rest == {q \in task.batch : q # Current}
  IN  IF rest = {} THEN [IdleTask EXCEPT !.limit = task.limit]
      ELSE [IdleTask EXCEPT !.limit = task.limit, !.pc = "acks", !.batch = rest,
                            !.results = task.results]

CurrentResult == CHOOSE r \in task.results : r.sequence = Current.sequence

Acknowledging(statuses) ==
  task.pc = "acks" /\ task.steps = <<>> /\ CurrentResult.status \in statuses

(* An applied save or pin settles the note; an open editor moves along.      *)
CommitApplied ==
  LET n        == Current.note
      revision == CurrentResult.revision
  IN  /\ Acknowledging({"applied"}) /\ Current.type \in {"note.save", "note.pin"}
      /\ IF IdentityMatches(disk, Current)
         THEN /\ disk' = CommitNoteAcknowledgement(disk, Current, revision)
              /\ editor' = IF editor.note = n
                           THEN [editor EXCEPT !.revision = revision,
                                   !.base = IF HasLater(disk, Current) THEN revision ELSE Absent]
                           ELSE editor
         ELSE UNCHANGED <<disk, editor>>
      /\ task' = NextAcknowledgement
      /\ UNCHANGED <<saver, chore, wire, server, asides>>

(* A deletion, a noop, or a noop whose result was forgotten.                 *)
RemoveAcknowledged ==
  /\ \/ Acknowledging({"applied"}) /\ Current.type \in {"note.delete", "noop"}
     \/ Acknowledging({"compacted"}) /\ Current.type = "noop"
  /\ disk' = RemoveIfIdentityMatches(disk, Current)
  /\ task' = NextAcknowledgement
  /\ UNCHANGED <<user, wire, server, asides>>

(* Everything else starts with the server's copy of the note.                *)
BeginFetch ==
  /\ \/ Acknowledging({"conflict"})
     \/ Acknowledging({"compacted"}) /\ Current.type # "noop"
  /\ Begin(Current.note, <<"fetch">>)
  /\ UNCHANGED <<disk, user, wire, server, asides>>

Fetch ==
  /\ Step = "fetch"
  /\ task' = [task EXCEPT !.remote = Fetched(task.target),
        !.steps = CASE CurrentResult.status = "compacted" -> <<"reconcile">>
                    [] CurrentResult.status = "conflict" /\ Current.type = "note.pin" -> <<"pin">>
                    [] CurrentResult.status = "conflict" /\ Current.type = "note.save" ->
                         <<"flush", "merge">>
                    [] OTHER -> <<"flush", "prepare">>]
  /\ UNCHANGED <<disk, user, wire, server, asides>>

FetchFails ==
  /\ Step = "fetch"
  /\ Fault
  /\ task' = IdleTask
  /\ UNCHANGED <<disk, user, wire, server, owed, lapses>>

-----------------------------------------------------------------------------
(* The steps that follow. The last one ends the acknowledgement.             *)
Then(steps) == task' = [task EXCEPT !.steps = steps]

Advance ==
  IF Len(task.steps) > 1 THEN Then(Tail(task.steps)) ELSE task' = NextAcknowledgement

Target == task.target
Local  == disk.notes[Target]

(* Unsaved text of the note is saved first; at the end, that of any note.    *)
Flush ==
  /\ Step \in {"flush", "flushAny"}
  /\ IF editor.dirty /\ (Step = "flush" => editor.note = Target)
     THEN SaveStarts /\ Then(<<"saving">> \o Tail(task.steps))
     ELSE UNCHANGED saver /\ Then(Tail(task.steps))
  /\ UNCHANGED <<disk, editor, chore, wire, server, asides>>

Flushed ==
  /\ Step = "saving" /\ saver.pc = "idle"
  /\ Advance
  /\ UNCHANGED <<disk, user, wire, server, asides>>

BaseText(local) == Or(local.baseText, Or(Current.baseText, {}))

\* Mutated: the local changes are left out.
Merged_RemoteOnly(base, left, right) == right

\* Mutated: the remote changes are left out.
Merged_LocalOnly(base, left, right) == left

(* mergeText: the changes of both sides. Whether two different changes       *)
(* overlap depends on where they are.                                        *)
Merged(base, left, right) == (left \cap right) \cup (left \ base) \cup (right \ base)

MayOverlap(base, left, right) == left # right /\ left # base /\ right # base

(* The pin that the user asked for after the operation was sent.             *)
PinnedLater(default) ==
  LET pins == Later(disk, Current, "note.pin")
  IN  IF pins = {} THEN default ELSE Newest(pins).pinned

Merge ==
  LET base == BaseText(Local)
  IN  /\ Step = "merge"
      /\ \/ /\ Local # Absent /\ task.remote # Absent
            /\ task' = [task EXCEPT
                          !.steps = <<"put", "supersede", "remove", "queue", "open">>,
                          !.put = [text     |-> Merged(base, Local.text, task.remote.text),
                                   revision |-> task.remote.revision, pending |-> TRUE,
                                   base     |-> task.remote.revision,
                                   baseText |-> task.remote.text,
                                   pinned   |-> PinnedLater(task.remote.pinned)]]
         \/ /\ (Local # Absent /\ task.remote # Absent /\ Local.baseText # Absent)
                 => MayOverlap(base, Local.text, task.remote.text)
            /\ Then(<<"flush", "prepare">>)
      /\ UNCHANGED <<disk, user, wire, server, asides>>

(* What is left of a note whose cached copy is gone: the text that was sent. *)
Sent == [text |-> Current.text, revision |-> Or(Current.base, 0), pending |-> FALSE,
         base |-> Current.base, baseText |-> Current.baseText, pinned |-> Current.pinned]

(* prepare: a remote deletion, a version to review, or nothing to preserve.  *)
Prepare ==
  LET remote == task.remote
      save   == Current.type = "note.save"
      kept   == IF Local = Absent THEN Sent ELSE Local
  IN  /\ Step = "prepare"
      /\ task' =
           IF remote = Absent /\ save
           THEN [task EXCEPT !.steps = <<"deletion">>, !.put = kept]
           ELSE IF remote = Absent \/ Local = Absent \/ ~save
           THEN [task EXCEPT !.steps = <<"put", "supersede", "remove">>,
                             !.put = IF remote = Absent THEN Absent ELSE Settled(remote)]
           ELSE LET shown == [remote EXCEPT !.pinned = PinnedLater(@)]
                IN  [task EXCEPT
                       !.steps = <<"conflict", "put", "supersede", "remove", "flushAny", "show">>,
                       !.conflict = [base |-> BaseText(Local), local |-> Local.text,
                                     remote |-> shown],
                       !.put = Settled(shown)]
      /\ UNCHANGED <<disk, user, wire, server, asides>>

RecordDeletion ==
  /\ Step = "deletion"
  /\ IF IdentityMatches(disk, Current)
     THEN disk' = RecordRemoteDeletion(disk, Current, task.put, BaseText(task.put)) /\ Advance
     ELSE UNCHANGED disk /\ task' = IdleTask
  /\ lapses' = lapses \cup (IF disk.conflicts[Target] = Absent THEN {} ELSE {"later"})
  /\ UNCHANGED <<user, wire, server, budget, owed>>

SetConflict ==
  /\ Step = "conflict"
  /\ disk' = [disk EXCEPT !.conflicts[Target] = task.conflict]
  /\ lapses' = lapses \cup (IF disk.conflicts[Target] = Absent THEN {} ELSE {"later"})
  /\ Advance
  /\ UNCHANGED <<user, wire, server, budget, owed>>

(* The pin of a note that changed: it is asked for again, on the new         *)
(* revision. Unsent edits keep the cached text.                              *)
ConflictedPin ==
  LET laterSave == Later(disk, Current, "note.save") # {}
      laterPin  == Later(disk, Current, "note.pin") # {}
  IN  /\ Step = "pin"
      /\ task' = IF task.remote = Absent
                 THEN [task EXCEPT !.steps = <<"put", "remove">>, !.put = Absent]
                 ELSE [task EXCEPT
                         !.laterSave = laterSave, !.pinned = PinnedLater(Current.pinned),
                         !.steps = (IF laterSave THEN <<>> ELSE <<"rebase">>)
                                   \o <<"remove", "readPin", "put">>
                                   \o (IF laterPin THEN <<>> ELSE <<"queuePin">>) \o <<"open">>]
      /\ lapses' = lapses \cup (IF laterSave THEN {"pin"} ELSE {})
      /\ UNCHANGED <<disk, user, wire, server, budget, owed>>

ReadPinned ==
  LET remote == task.remote
      keep   == Local # Absent /\ (task.laterSave \/ (editor.note = Target /\ editor.dirty))
  IN  /\ Step = "readPin"
      /\ task' = [task EXCEPT
                    !.steps = Tail(@),
                    !.put = [text     |-> IF keep THEN Local.text ELSE remote.text,
                             revision |-> remote.revision, pending |-> TRUE,
                             base     |-> remote.revision,
                             baseText |-> IF keep THEN Local.baseText ELSE Absent,
                             pinned   |-> task.pinned]]
      /\ lapses' = lapses \cup (IF keep \/ Local = Absent THEN {"pin"} ELSE {})
      /\ UNCHANGED <<disk, user, wire, server, budget, owed>>

(* The single transactions of these programs.                                *)
Transaction ==
  CASE Step = "put"       -> PutNote(disk, Target, task.put)
    [] Step = "supersede" -> Supersede(disk, Target, Current.sequence)
    [] Step = "remove"    -> RemoveIfIdentityMatches(disk, Current)
    [] Step = "rebase"    -> Rebase(disk, Current, task.remote.revision, task.remote.text)
    [] Step = "queue"     -> QueueOperation(disk, Save(Target, task.remote.revision, task.put))
    [] Step = "queuePin"  -> QueueOperation(disk, PinRequest(Target, task.remote.revision, task.pinned))

Transact ==
  /\ Step \in {"put", "supersede", "remove", "rebase", "queue", "queuePin"}
  /\ disk' = Transaction
  /\ Advance
  /\ UNCHANGED <<user, wire, server, asides>>

(* The editor follows: updateOpenNote, handleActiveDeletion, and             *)
(* showNoteInEditor for a conflict.                                          *)
ShowOutcome ==
  /\ Step \in {"open", "show"}
  /\ IF Step = "show"
     THEN editor' = Showing(Target, Settled(task.remote)) /\ NewSession
     ELSE IF task.put # Absent
     THEN editor' = UpdateOpenNote(editor, Target, task.put) /\ UNCHANGED saver
     ELSE IF editor.dirty THEN UNCHANGED <<editor, saver>>
     ELSE editor' = Closed /\ NewSession
  /\ Advance
  /\ UNCHANGED <<disk, chore, wire, server, asides>>

(* sync/compacted-operations.js                                              *)
Reconcile ==
  LET later  == Rebasable(disk, Current) # {}
      remote == task.remote
  IN  /\ Step = "reconcile"
      /\ IF ~IdentityMatches(disk, Current)
         THEN task' = IdleTask /\ UNCHANGED <<disk, editor, saver>>
         ELSE /\ disk' = ReconcileCompacted(disk, Current, remote)
              /\ IF ~later /\ remote # Absent
                 THEN editor' = UpdateOpenNote(editor, Target, Settled(remote)) /\ UNCHANGED saver
                 ELSE IF ~later /\ editor.note = Target /\ ~editor.dirty
                 THEN editor' = Closed /\ NewSession
                 ELSE UNCHANGED <<editor, saver>>
              /\ Advance
      /\ lapses' = lapses \cup
                     (IF later \/ (editor.note = Target /\ editor.dirty) THEN {"compact"} ELSE {})
      /\ UNCHANGED <<chore, wire, server, budget, owed>>

-----------------------------------------------------------------------------
(* A page of the change feed is applied between two pushes. Notes with       *)
(* queued work, a conflict, a rejection or unsaved text are left alone.      *)
Guarded(n) ==
  \/ Queued(disk, n) # {} \/ disk.conflicts[n] # Absent \/ n \in disk.rejected
  \/ IsPending(disk.notes[n])
  \/ editor.note = n /\ editor.dirty

CachedAt(n, revision) == disk.notes[n] # Absent /\ disk.notes[n].revision = revision

ApplyPage(n) ==
  LET remote == Fetched(n)
  IN  /\ task.pc = "idle" /\ ~Guarded(n)
      /\ IF remote = Absent THEN disk.notes[n] # Absent
         ELSE ~CachedAt(n, remote.revision)
      /\ disk' = PutNote(disk, n, IF remote = Absent THEN Absent ELSE Settled(remote))
      /\ task' = IF editor.note # n THEN task
                 ELSE [task EXCEPT !.pc = "page", !.target = n, !.steps = <<"open">>,
                                   !.put = disk'.notes[n]]
      /\ UNCHANGED <<user, wire, server, asides>>

(* The tab is closed, or dies.                                               *)
Crash ==
  /\ Fault
  /\ editor' = Closed /\ saver' = NoSave /\ chore' = NoChore /\ task' = IdleTask
  /\ lapses' = lapses \cup (IF task.target # Absent /\ Resolving(task.target) /\ task.pc = "acks"
                            THEN {"crash"} ELSE {})
  /\ UNCHANGED <<disk, wire, server, owed>>

-----------------------------------------------------------------------------
Push ==
  \/ SendBatch \/ CommitApplied \/ RemoveAcknowledged \/ BeginFetch \/ Fetch
  \/ Flush \/ Flushed \/ Merge \/ Prepare \/ RecordDeletion \/ SetConflict
  \/ ConflictedPin \/ ReadPinned \/ Transact \/ ShowOutcome \/ Reconcile

Others ==
  \/ \E batch \in wire : Reply(batch) \/ LateArrival(batch)
  \/ \E n \in Notes : RemoteEdit(n) \/ RemoteDelete(n) \/ ApplyPage(n)
  \/ LoseReply \/ Refuse \/ FetchFails \/ Forget \/ Crash

Next == User \/ Push \/ Others

(* The page is open again after a crash, timers fire, and requests that are  *)
(* not lost are answered: the saver, a confirmed action, the push loop, the  *)
(* pages and the server make progress whenever they can.                     *)
Saving   == BeginSave \/ PersistNote \/ PersistConflict
Choring  == DeleteNote \/ PinNote
Answered == \E batch \in wire : Reply(batch) \/ LateArrival(batch)
Paging   == \E n \in Notes : ApplyPage(n)

Fairness ==
  WF_vars(Saving) /\ WF_vars(Choring) /\ WF_vars(Push) /\ WF_vars(Answered) /\ WF_vars(Paging)

Spec == Init /\ [][Next]_vars /\ Fairness

-----------------------------------------------------------------------------
(* Every variable keeps its shape.                                           *)
TypeOK ==
  /\ disk \in [notes : [Notes -> Optional(Note)], queue : SUBSET disk.queue, sequence : Nat,
               created : Nat, rejected : SUBSET Notes, conflicts : [Notes -> Optional(Conflict)]]
  /\ \A q \in disk.queue : q \in Operation
  /\ editor \in Editor /\ saver \in Saver /\ chore \in Chore
  /\ task.steps \in Seq(Steps) /\ task.batch \cup UNION wire \subseteq Operation
  /\ server.notes \in [Notes -> Row] /\ server.results \subseteq Result
  /\ owed \subseteq Edits

(* Sequences and identities of the queue are distinct and grow together, and *)
(* what was sent lies before what was not: queueOperationInStores, claim,    *)
(* quarantine and the rewriting of operations keep the order of the queue.   *)
QueueOrdered ==
  /\ \A q, r \in disk.queue :
       /\ q # r => q.sequence # r.sequence
       /\ q.sequence < r.sequence => q.id < r.id /\ (r.attempted => q.attempted)
  /\ \A q \in disk.queue : q.sequence <= disk.sequence /\ q.id <= disk.created

(* The comment in queueOperationInStores: once a request has been attempted, *)
(* its identity and payload are immutable. Until it leaves the queue it only *)
(* changes to a noop that needs attention.                                   *)
SentStaysAsItWas ==
  [][\A q \in disk.queue :
       q.attempted =>
         \/ q \in disk'.queue
         \/ \A r \in disk'.queue : r.id # q.id
         \/ \E r \in disk'.queue :
              r.id = q.id /\ r.sequence = q.sequence /\ r.type = "noop" /\ q.note \in disk'.rejected]_vars

(* What the server stored under a sequence is about the operation that the   *)
(* browser has under it: an acknowledgement never speaks of another one.     *)
ResultsMatchQueue ==
  /\ \A q \in disk.queue, r \in server.results : q.sequence = r.sequence => q.id = r.id
  /\ \A q \in disk.queue : q.sequence <= server.consumed => q.attempted
  /\ server.consumed <= disk.sequence

OnServer == UNION {server.notes[n].text : n \in Notes}

(* The edits that have a place: in a request, in the cache, in a conflict,   *)
(* or on the server.                                                         *)
Held ==
  UNION {q.text : q \in {o \in disk.queue : o.type = "note.save"}}
  \cup UNION {CachedText(n) : n \in {m \in Notes : IsPending(disk.notes[m]) \/ m \in disk.rejected}}
  \cup UNION {disk.conflicts[n].local : n \in {m \in Notes : disk.conflicts[m] # Absent}}
  \cup OnServer

(* docs/api/client-protocol.md: pending edits are retained separately until  *)
(* they are resolved. An edit that was saved here, and that nobody gave up,  *)
(* is never lost by coalescing, acknowledgements, merges, conflicts, pages,  *)
(* lost replies or crashes, outside the gaps.                                *)
LocalEditsKept == lapses = {} => {m \in owed : m > 0} \subseteq Held

(* An edit of the other device is never undone by an older version from      *)
(* here: it stays on the server until somebody gives it up.                  *)
RemoteEditsKept == lapses = {} => {m \in owed : m < 0} \subseteq OnServer

(* A pending note has an operation that will settle it, or a rejection the   *)
(* user is told of; it is not pending forever.                               *)
PendingHasWork ==
  lapses = {} =>
    \A n \in Notes :
      IsPending(disk.notes[n]) /\ task.target # n =>
        \/ \E q \in Queued(disk, n) : OfNote(q)
        \/ n \in disk.rejected

(* A settled note at the server's revision has the server's text.            *)
SettledIsServer ==
  lapses = {} =>
    \A n \in Notes :
      (disk.notes[n] # Absent /\ server.notes[n].live /\ n \notin disk.rejected)
        => LET local == disk.notes[n]
           IN  local.revision = server.notes[n].revision /\ ~local.pending
                 => local.text = server.notes[n].text

(* Both sides agree about a note.                                            *)
Agrees(n) ==
  LET local == disk.notes[n]  row == server.notes[n]
  IN  IF local = Absent THEN ~row.live
      ELSE row.live /\ ~local.pending /\ local.revision = row.revision /\ local.text = row.text

(* When the devices fall silent the queue drains and the cache becomes what  *)
(* the server has, except where the user is asked to decide: no order of     *)
(* lost replies, merges, conflicts and crashes leaves work behind.           *)
Converges ==
  <>[](/\ disk.queue = {}
       /\ lapses = {} =>
            \A n \in Notes : Agrees(n) \/ disk.conflicts[n] # Absent \/ n \in disk.rejected)

(* docs/api/client-protocol.md:80-81: "never replace an unresolved local     *)
(* edit with a remote snapshot silently". The text of a refused save is such *)
(* an edit; the pin of the note must not settle it.                          *)
RefusedEditsKept ==
  lapses \subseteq {"reject"} =>
    {m \in owed : m > 0} \subseteq
      Held \cup editor.text \cup UNION {CachedText(n) : n \in Notes}
=============================================================================
