------------------------------ MODULE ChangePull ------------------------------
(***************************************************************************)
(* One browser follows the change feed: pull, reset and reconcile of       *)
(* sync/remote-notes.js against the queries behind GET /api/sync,          *)
(* GET /api/notes and GET /api/sync/notes.                                 *)
(*                                                                         *)
(* A pull is a chain of requests and local transactions. Between any two   *)
(* of them other devices write to the server, and the user types, saves    *)
(* and resolves conflicts. A note with queued work or an unresolved        *)
(* conflict is guarded: the pull leaves it alone. Pushes run in the same   *)
(* synchronisation as the pulls, never beside one, and the leadership      *)
(* lease keeps the other tabs out.                                         *)
(*                                                                         *)
(* One writer knows nothing of all this: a tab that opens the note of its  *)
(* address, and does not have it, asks the server for it and stores the    *)
(* answer, outside the lease, without a look at cursor or guards           *)
(* (ui/navigation-controller.js, restoreNote).                             *)
(*                                                                         *)
(* A version of a note is named by its revision and by the sequence of     *)
(* the change that created it.                                             *)
(***************************************************************************)
EXTENDS NoteStore, Sequences

CONSTANTS
  None,         \* no note is being typed in
  PageLimit,    \* changes per page (100 in the code)
  MaxWrites,    \* bound: changes to the notes of the server
  MaxEdits,     \* bound: edits begun by the user
  MaxFailures,  \* bound: pulls that fail on a request
  MaxRestores   \* bound: notes asked for by address

ASSUME PullAssumption ==
  /\ None \notin Notes
  /\ PageLimit \in Nat \ {0}
  /\ {MaxWrites, MaxEdits, MaxFailures, MaxRestores} \subseteq Nat

VARIABLES
  db,         \* the server: notes and sync_changes
  local,      \* the notes store of IndexedDB
  cursor,     \* syncSequence
  guards,     \* per note: queued operations, or an unresolved conflict
  base,       \* per note: the revision its queued operation expects
  dirty,      \* the note with unsaved text in the editor, or None
  pull,       \* the pull, reset or reconciliation in progress
  restore,    \* the note asked for by address
  budget,     \* what is left of the bounds on edits, failures and restores
  history,    \* history: every change ever made, by sequence
  passedOver, \* history: notes whose change the cursor passed without it being stored
  restored    \* history: notes stored by a restore since the pull began

vars == <<db, local, cursor, guards, base, dirty, pull, restore, budget, history,
          passedOver, restored>>

server  == <<db, history>>
user    == <<guards, base, dirty, budget>>
store   == <<local, cursor, passedOver>>
address == <<restore, restored>>

-----------------------------------------------------------------------------
Version == [revision : Nat, at : Nat]
Missing == [revision |-> 0, at |-> 0]

(* The note that GET /api/sync/notes returns: what its last change left.     *)
LastChange(n) == Greatest({i \in 1 .. Len(history) : history[i].note = n})

Stored(n) ==
  IF Live(db, n)
  THEN [revision |-> db.rows[n].revision, at |-> LastChange(n)]
  ELSE Missing

(* Guards: a queued operation, a conflict with a remote edit, a conflict     *)
(* with a remote deletion.                                                   *)
Guards  == {"none", "queued", "edited", "deleted"}
Guarded == {n \in Notes : guards[n] # "none"}

Pull == [pc : {"idle", "feed", "rows", "changes", "reset", "snapshot"},
         since : Nat, next : Nat, more : BOOLEAN,
         page : SUBSET Change,          \* the changes of the page
         fetched : [Notes -> Version],  \* fetchedNotes; Missing if not downloaded
         fresh : SUBSET Notes,          \* downloaded for this page or snapshot
         held : SUBSET Notes,           \* the guards loaded at the start
         todo : SUBSET Notes,           \* still to be downloaded
         listed : SUBSET Notes]         \* the notes the server listed

NoPull == [pc |-> "idle", since |-> 0, next |-> 0, more |-> FALSE, page |-> {},
           fetched |-> [n \in Notes |-> Missing], fresh |-> {}, held |-> {},
           todo |-> {}, listed |-> {}]

At(pc) == pull.pc = pc

(* restoreNote: the cache is read, then the queue and the conflicts, then    *)
(* the server. What commits before the answer is stored overtakes it: a      *)
(* version of the note, or a cursor that passes a change of it.              *)
Restore == [pc : {"idle", "looked", "asked", "got"}, note : Notes \cup {None},
            got : Version, stored : BOOLEAN, passed : BOOLEAN]

NoRestore == [pc |-> "idle", note |-> None, got |-> Missing,
              stored |-> FALSE, passed |-> FALSE]

Overtake(stored, passed) ==
  restore' = IF restore.pc # "got" THEN restore
             ELSE [restore EXCEPT !.stored = @ \/ restore.note \in stored,
                                  !.passed = @ \/ restore.note \in passed]

Init ==
  /\ db         = EmptyStore
  /\ local      = [n \in Notes |-> Missing]
  /\ cursor     = 0
  /\ guards     = [n \in Notes |-> "none"]
  /\ base       = [n \in Notes |-> 0]
  /\ dirty      = None
  /\ pull       = NoPull
  /\ restore    = NoRestore
  /\ budget     = [edits |-> MaxEdits, failures |-> MaxFailures, restores |-> MaxRestores]
  /\ history    = <<>>
  /\ passedOver = {}
  /\ restored   = {}

-----------------------------------------------------------------------------
(* Another device saves or deletes a note.                                   *)
Record(n, deleted) ==
  /\ db.newest < MaxWrites
  /\ history' = Append(history, [note |-> n, deleted |-> deleted])

RemoteSave(n) ==
  /\ Record(n, FALSE)
  /\ db' = Upsert(db, n, 0)
  /\ UNCHANGED <<user, store, pull, address>>

RemoteDelete(n) ==
  /\ Live(db, n)
  /\ Record(n, TRUE)
  /\ db' = Delete(db, n)
  /\ UNCHANGED <<user, store, pull, address>>

(* The user types into a cached note, saves it, or takes the edit back. Text *)
(* that is the saved text again is settled without a save. The operation     *)
(* expects the cached revision; joined to an operation that waits, it may    *)
(* keep what that one expects.                                               *)
Type(n) ==
  /\ dirty = None
  /\ budget.edits > 0
  /\ local[n] # Missing
  /\ guards[n] \in {"none", "queued"}
  /\ dirty' = n
  /\ budget' = [budget EXCEPT !.edits = @ - 1]
  /\ UNCHANGED <<server, store, guards, base, pull, address>>

SaveEdit ==
  /\ dirty # None
  /\ guards' = [guards EXCEPT ![dirty] = IF @ = "none" THEN "queued" ELSE @]
  /\ \/ base' = [base EXCEPT ![dirty] = local[dirty].revision]
     \/ guards[dirty] # "none" /\ base' = base
  /\ dirty' = None
  /\ UNCHANGED <<server, store, pull, address, budget>>

Undo ==
  /\ dirty # None
  /\ dirty' = None
  /\ UNCHANGED <<server, store, guards, base, pull, address, budget>>

(* The user resolves a conflict, at any time: saves a merged version, keeps  *)
(* a copy of the local version under a new identifier, or accepts that the   *)
(* note is gone.                                                             *)
SaveResolution(n) ==
  /\ guards[n] = "edited"
  /\ guards' = [guards EXCEPT ![n] = "queued"]
  /\ UNCHANGED <<server, store, base, dirty, pull, address, budget>>

KeepCopy(n) ==
  /\ guards[n] = "edited"
  /\ guards' = [guards EXCEPT ![n] = "none"]
  /\ base'   = [base EXCEPT ![n] = 0]
  /\ UNCHANGED <<server, store, dirty, pull, address, budget>>

LeaveDeleted(n) ==
  /\ guards[n] = "deleted"
  /\ guards' = [guards EXCEPT ![n] = "none"]
  /\ local'  = [local EXCEPT ![n] = Missing]
  /\ UNCHANGED <<server, cursor, base, dirty, pull, address, budget, passedOver>>

(* The push of a queued edit between two pulls: applied and acknowledged,    *)
(* or in conflict with what the server has now, which is then fetched.       *)
Matches(n) == Live(db, n) /\ base[n] = db.rows[n].revision

\* Mutated: pushes do not wait for the pull.
PushApplied_DuringPull(n) ==
  /\ guards[n] = "queued" /\ Matches(n)
  /\ Record(n, FALSE)
  /\ db'     = Upsert(db, n, 0)
  /\ local'  = [local EXCEPT ![n] = Stored(n)']
  /\ guards' = [guards EXCEPT ![n] = "none"]
  /\ base'   = [base EXCEPT ![n] = 0]
  /\ passedOver' = passedOver \ {n}
  /\ Overtake({n}, {})
  /\ UNCHANGED <<cursor, dirty, pull, budget, restored>>

PushApplied(n) ==
  /\ At("idle")
  /\ guards[n] = "queued" /\ Matches(n)
  /\ Record(n, FALSE)
  /\ db'     = Upsert(db, n, 0)
  /\ local'  = [local EXCEPT ![n] = Stored(n)']
  /\ guards' = [guards EXCEPT ![n] = "none"]
  /\ base'   = [base EXCEPT ![n] = 0]
  /\ passedOver' = passedOver \ {n}
  /\ Overtake({n}, {})
  /\ UNCHANGED <<cursor, dirty, pull, budget, restored>>

(* A merge is queued again, with the fetched version as its base.            *)
PushConflicts(n) ==
  /\ At("idle")
  /\ guards[n] = "queued" /\ Live(db, n) /\ ~Matches(n)
  /\ local' = [local EXCEPT ![n] = Stored(n)]
  /\ \E guard \in {"queued", "edited"} : guards' = [guards EXCEPT ![n] = guard]
  /\ base' = [base EXCEPT ![n] = db.rows[n].revision]
  /\ dirty' = IF dirty = n THEN None ELSE dirty
  /\ passedOver' = passedOver \ {n}
  /\ Overtake({n}, {})
  /\ UNCHANGED <<server, cursor, pull, budget, restored>>

PushFindsDeletion(n) ==
  /\ At("idle")
  /\ guards[n] = "queued" /\ ~Live(db, n)
  /\ guards' = [guards EXCEPT ![n] = "deleted"]
  /\ base'   = [base EXCEPT ![n] = 0]
  /\ dirty' = IF dirty = n THEN None ELSE dirty
  /\ UNCHANGED <<server, store, pull, address, budget>>

-----------------------------------------------------------------------------
(* A pull reads the cursor and the guards and asks for a page of changes.    *)
StartPull ==
  /\ At("idle")
  /\ pull' = [NoPull EXCEPT !.pc = "feed", !.since = cursor, !.held = Guarded]
  /\ restored' = {}
  /\ UNCHANGED <<server, user, store, restore>>

Oldest == CHOOSE s \in {c.sequence : c \in db.changes} : \A c \in db.changes : s <= c.sequence

ResetRequired == db.changes # {} /\ pull.since < Oldest - 1

(* The server's first query: whether the feed still reaches back to the      *)
(* cursor, and if not, where it ends.                                        *)
FeedBounds ==
  /\ At("feed")
  /\ pull' = IF ResetRequired
             THEN [pull EXCEPT !.pc = "reset",
                               !.next = Greatest({c.sequence : c \in db.changes})]
             ELSE [pull EXCEPT !.pc = "rows"]
  /\ UNCHANGED <<server, user, store, address>>

(* The second query, outside a transaction, reads the page. Live notes that  *)
(* are neither guarded nor downloaded before are to be downloaded.           *)
FeedRows ==
  LET above == {c \in db.changes : c.sequence > pull.since}
      page  == {c \in above : Cardinality({d \in above : d.sequence < c.sequence}) < PageLimit}
  IN  /\ At("rows")
      /\ pull' = [pull EXCEPT
                    !.pc = "changes", !.page = page, !.more = (page # above),
                    !.next = Greatest({pull.since} \cup {c.sequence : c \in page}),
                    !.todo = {c.note : c \in {d \in page : ~d.deleted}}
                               \ (pull.held \cup {n \in Notes : pull.fetched[n] # Missing})]
      /\ UNCHANGED <<server, user, store, address>>

(* The notes are downloaded in batches, here of one note. A listed note that *)
(* has gone makes a snapshot fail.                                           *)
Download(n) ==
  /\ n \in pull.todo
  /\ At("changes") \/ Live(db, n)
  /\ pull' = [pull EXCEPT !.todo = @ \ {n}, !.fetched[n] = Stored(n), !.fresh = @ \cup {n}]
  /\ UNCHANGED <<server, user, store, address>>

ListedNoteGone(n) ==
  /\ n \in pull.todo
  /\ At("snapshot") /\ ~Live(db, n)
  /\ pull' = NoPull
  /\ UNCHANGED <<server, user, store, address>>

(* The guards and the editor as they are when a transaction commits.         *)
\* Mutated: the guards loaded at the start of the pull.
Untouchable_HeldGuards == pull.held \cup {dirty}

Untouchable == Guarded \cup {dirty}

(* The local transaction moves the cursor and stores versions. Notes of      *)
(* which it passes a change without storing a version fetched since then are *)
(* passed over.                                                              *)
Advance(next, stored, settled) ==
  LET passed == {history[s].note : s \in cursor + 1 .. next}
  IN  /\ cursor' = next
      /\ passedOver' = (passedOver \cup passed) \ settled
      /\ Overtake(stored, passed)

(* One page is stored, with the guards as they are now. The last change of a *)
(* note in the page decides; a note that was not downloaded is removed.      *)
ApplyPage ==
  LET touched  == {c.note : c \in pull.page} \ Untouchable
      removed  == {c.note : c \in {d \in pull.page : d.deleted /\
                     \A e \in pull.page : e.note = d.note => e.sequence <= d.sequence}}
  IN  /\ At("changes") /\ pull.todo = {}
      /\ local' = [n \in Notes |-> IF n \notin touched THEN local[n]
                                   ELSE IF n \in removed THEN Missing
                                   ELSE pull.fetched[n]]
      /\ Advance(pull.next, touched, touched \cap (removed \cup pull.fresh))
      /\ pull' = IF pull.more
                 THEN [pull EXCEPT !.pc = "feed", !.since = pull.next, !.page = {},
                                   !.fresh = {}, !.more = FALSE]
                 ELSE NoPull
      /\ UNCHANGED <<server, user, restored>>

-----------------------------------------------------------------------------
(* The server lists its notes. A reset downloads all of them, a              *)
(* reconciliation those whose revision differs from the local one.           *)
Listed(known) ==
  LET live == {n \in Notes : Live(db, n)}
  IN  [NoPull EXCEPT !.pc = "snapshot", !.listed = live, !.held = Guarded,
                     !.todo = live \ (Guarded \cup known)]

ResetList ==
  /\ At("reset")
  /\ pull' = [Listed({}) EXCEPT !.next = pull.next]
  /\ UNCHANGED <<server, user, store, address>>

\* Mutated: a cached note is taken to be current.
StartReconcile_CachedKnown ==
  /\ At("idle")
  /\ pull' = [Listed({n \in Notes : local[n] # Missing}) EXCEPT !.next = cursor]
  /\ restored' = {}
  /\ UNCHANGED <<server, user, store, restore>>

StartReconcile ==
  /\ At("idle")
  /\ pull' = [Listed({n \in Notes : Live(db, n) /\ local[n].revision = db.rows[n].revision})
                EXCEPT !.next = cursor]
  /\ restored' = {}
  /\ UNCHANGED <<server, user, store, restore>>

(* Where the cursor goes: to the end the feed had when the reset was         *)
(* required; a reconciliation leaves it alone.                               *)
\* Mutated: to the end the feed has now.
Baseline_Late == db.newest

Baseline == pull.next

(* The snapshot replaces the notes that may be touched and removes those the *)
(* server has not listed, even under unsaved text.                           *)
ApplySnapshot ==
  LET gone     == Notes \ (pull.listed \cup Guarded)
      replaced == {n \in Notes : pull.fetched[n] # Missing} \ Untouchable
  IN  /\ At("snapshot") /\ pull.todo = {}
      /\ local' = [n \in Notes |-> IF n \in gone THEN Missing
                                   ELSE IF n \in replaced THEN pull.fetched[n]
                                   ELSE local[n]]
      /\ Advance(Baseline, replaced, gone \cup (pull.fresh \ Untouchable))
      /\ pull' = NoPull
      /\ UNCHANGED <<server, user, restored>>

(* A request fails: the pull is given up where it is.                        *)
Fail ==
  /\ ~At("idle")
  /\ budget.failures > 0
  /\ pull' = NoPull
  /\ budget' = [budget EXCEPT !.failures = @ - 1]
  /\ UNCHANGED <<server, store, guards, base, dirty, address>>

-----------------------------------------------------------------------------
(* A tab is opened at the address of a note that is not cached.              *)
RestoreLooks(n) ==
  /\ restore.pc = "idle"
  /\ budget.restores > 0
  /\ local[n] = Missing
  /\ restore' = [NoRestore EXCEPT !.pc = "looked", !.note = n]
  /\ budget' = [budget EXCEPT !.restores = @ - 1]
  /\ UNCHANGED <<server, store, guards, base, dirty, pull, restored>>

RestoreAsks ==
  /\ restore.pc = "looked"
  /\ guards[restore.note] = "none"
  /\ restore' = [restore EXCEPT !.pc = "asked"]
  /\ UNCHANGED <<server, user, store, pull, restored>>

RestoreAnswered ==
  /\ restore.pc = "asked"
  /\ Live(db, restore.note)
  /\ restore' = [restore EXCEPT !.pc = "got", !.got = Stored(restore.note)]
  /\ UNCHANGED <<server, user, store, pull, restored>>

(* The answer is stored over whatever is there by now.                       *)
RestoreStores ==
  /\ restore.pc = "got"
  /\ local' = [local EXCEPT ![restore.note] = restore.got]
  /\ passedOver' = passedOver \cup (IF restore.passed THEN {restore.note} ELSE {})
  /\ restored' = restored \cup {restore.note}
  /\ restore' = NoRestore
  /\ UNCHANGED <<server, user, cursor, pull>>

(* Another navigation has begun, the note has work waiting, the server does  *)
(* not have it, or the request fails.                                        *)
RestoreEnds ==
  /\ restore.pc # "idle"
  /\ restore' = NoRestore
  /\ UNCHANGED <<server, user, store, pull, restored>>

Opened ==
  \/ RestoreAsks \/ RestoreAnswered \/ RestoreStores \/ RestoreEnds
  \/ \E n \in Notes : RestoreLooks(n)

Environment ==
  \/ \E n \in Notes :
       \/ RemoteSave(n) \/ RemoteDelete(n) \/ Type(n)
       \/ SaveResolution(n) \/ KeepCopy(n) \/ LeaveDeleted(n)
       \/ PushApplied(n) \/ PushConflicts(n) \/ PushFindsDeletion(n)
  \/ SaveEdit \/ Undo \/ Fail

PullSteps ==
  \/ FeedBounds \/ FeedRows \/ ApplyPage \/ ResetList \/ ApplySnapshot
  \/ \E n \in Notes : Download(n) \/ ListedNoteGone(n)

Next == Environment \/ Opened \/ StartPull \/ StartReconcile \/ PullSteps

Spec == Init /\ [][Next]_vars

(* A pull that has begun runs on, and the browser reconciles again and       *)
(* again: when it is loaded, comes online or loses its event stream.         *)
FairSpec == Spec /\ WF_vars(PullSteps) /\ SF_vars(StartReconcile)

-----------------------------------------------------------------------------
TypeOK ==
  /\ db \in Store /\ db.newest <= MaxWrites
  /\ history \in Seq([note : Notes, deleted : BOOLEAN]) /\ Len(history) = db.newest
  /\ local \in [Notes -> Version]
  /\ cursor \in 0 .. db.newest
  /\ guards \in [Notes -> Guards]
  /\ base \in [Notes -> Nat]
  /\ dirty \in Notes \cup {None}
  /\ pull \in Pull
  /\ restore \in Restore
  /\ budget \in [edits : 0 .. MaxEdits, failures : 0 .. MaxFailures,
                 restores : 0 .. MaxRestores]
  /\ passedOver \subseteq Notes /\ restored \subseteq Notes

(* v is what change c left of n; before its first change there was nothing.  *)
LeftBy(v, n, c) ==
  IF c = 0 THEN v = Missing
  ELSE history[c].note = n /\ IF history[c].deleted THEN v = Missing ELSE v.at = c

(* v is what the newest change of n up to k left of it, or a later one.      *)
Reflects(v, n, k) ==
  \E c \in 0 .. Len(history) :
    LeftBy(v, n, c) /\ \A i \in c + 1 .. k : history[i].note # n

Covered(n) == Reflects(local[n], n, cursor)

(* The cursor never runs ahead of the cache. What the server has said up to  *)
(* the cursor is stored, for every note that the browser may touch and has   *)
(* not knowingly passed over: whatever is written between two requests,      *)
(* whatever the user does meanwhile, and wherever the pull fails             *)
(* (remote-notes.js, pull and reset). A note opened by its address keeps it  *)
(* so, unless the cursor passes a change of it between the answer and the    *)
(* store: then the answer is older than what the cursor says, and the note   *)
(* counts as passed over until it is stored anew (navigation-controller.js,  *)
(* restoreNote).                                                             *)
CursorCovered ==
  \A n \in Notes : guards[n] = "none" /\ n \notin passedOver => Covered(n)

(* "Commit cache changes before advancing the cursor" (client-protocol.md),  *)
(* for every note that nobody is editing.                                    *)
CommittedBeforeCursor ==
  \A n \in Notes : guards[n] = "none" /\ dirty # n => Covered(n)

(* A pull never replaces or removes a note with queued operations or an      *)
(* unresolved conflict, even if it became guarded after the pull began       *)
(* (remote-notes.js, applyChangePage and applySnapshot).                     *)
GuardedNotesKept ==
  [][pull' # pull => \A n \in Guarded : local'[n] = local[n]]_vars

(* The step stores the answer of a restore over a version stored since.      *)
OvertakenStore(n) == restore.note = n /\ restore.stored /\ restore'.pc = "idle"

(* A restore has stored the note while the pull was under way.               *)
FetchedBefore(n) == ~At("idle") /\ n \in restored

(* The cache never goes back to an older version of a note: neither a page   *)
(* nor a snapshot nor a push stores what was fetched before the cached       *)
(* version. Opening a note by its address may do so in two ways, and only    *)
(* for that note: its own answer is stored over a version that came between, *)
(* and a pull that was under way stores the copy it fetched before           *)
(* (remote-notes.js, navigation-controller.js:99).                           *)
NeverBackwards ==
  [][\A n \in Notes :
       \/ local'[n] = Missing \/ local'[n].at >= local[n].at
       \/ OvertakenStore(n) \/ FetchedBefore(n)]_vars

(* Reconciliation repairs what pulls have passed over: when the writes and   *)
(* the edits end, every note that is not being edited is cached as the       *)
(* server has it (remote-notes.js, reconcile).                               *)
Converges ==
  <>[](\A n \in Notes : guards[n] = "none" /\ dirty # n => local[n] = Stored(n))
=============================================================================
