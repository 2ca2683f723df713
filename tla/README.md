# Vylk in TLA+

Vylk keeps Markdown notes in files beside a SQLite database and synchronises them with browsers
that work offline. This directory holds TLA+ modules that model the parts of Vylk where
interleavings, crashes and retries matter, the TLC configurations that check them on small
instances, and TLAPS proofs of the main results for every value of the constants.

## The system

| component | state | operations | what makes it correct |
|---|---|---|---|
| note store (`store/queries.go`) | `notes`, `sync_changes` | revision check, upsert, delete, pin, feed compaction | revisions never fork, the feed describes the rows |
| sync push (`server/sync_ops.go`) | `sync_device_state`, `sync_operations` | replay, refuse a gap, apply, compact acknowledgements | every operation takes effect exactly once |
| file operations (`server/file_ops.go`) | `file_operations`, Markdown files, staged files | stage, commit, complete, fail, quarantine, recover | committed content survives any crash |
| reads and cache (`server/handlers.go`, `note/cache.go`) | `noteCache` | read, set, delete, evict | a read pairs a revision with its content |
| change feed and remote download (`ListSyncChanges`, `sync/remote-notes.js`) | cursor, local notes | pull, reset, reconcile | what the cursor has passed is stored locally |
| offline store and push loop (`core/offline-store.js`, `core/sync-batch.js`, `sync/pusher.js`, `sync/acknowledgements.js`, `sync/compacted-operations.js`) | IndexedDB notes, queue, client sequence | queue, coalesce, claim, acknowledge, supersede, rebase, refuse, repair | no edit is lost, the queue keeps the user's order |
| conflicts (`sync/conflict-*.js`, `editor/merge.js`) | unresolved conflicts | merge, keep a copy, accept a deletion | both versions survive until the user decides |
| three-way merge (`editor/merge.js`) | none | hunks, merge of two sets of hunks | both sides' changes are in the result, once |
| scheduling (`sync/leadership.js`, `sync/coordinator.js`, `sync/server-events.js`, `event/broker.go`, `core/api-client.js`) | lease, timers, hints, authentication revision | elect a tab, run, retry, coalesce hints, pause | one tab syncs, and requested work is done |
| navigation and saver (`ui/navigation-controller.js`, `editor/note-saver.js`, `app.js`) | history entry, screen, editor session | open, leave, restore, follow a link, save | the screen is what the address names; typed text is saved |
| vault in the browser (`core/vault-session.js`, `core/offline-store.js`, `ui/dataset-switch.js`, `ui/auth.js`) | format marker, keys, notes and queue, database identity | bootstrap, unlock, migrate, lock, switch | records have the form the marker names; two databases are never mixed |
| vault dialogs (`ui/vault-setup.js`, `ui/recovery-entry.js`) | the open dialog, work under way | create a key, verify, repeat, submit, close | no secret is used that the user did not confirm |
| encrypted vault on the server (`server/vault_*.go`) | vault tables, staged and ciphertext files | migrate, cut over, clean up, reset, push | either the plaintext or the vault is complete |
| sessions (`auth/*.go`) | sessions, login attempts | login, renew, revoke, limit | a revoked session is never valid again |
| preferences (`preference/preference.go`, `ui/preferences-store.js`, `sync/preference-conflicts.js`) | one versioned document, queued patches | patch, detect conflicts, resolve | a patch never undoes a change its user has not seen |
| service worker (`sw.js`, `ui/feedback.js`) | caches, active and installing worker | install, activate, serve, offer a reload | the app that runs is of one build |
| preview (`editor/preview-*.js`, `editor/interactive-preview-session.js`) | rendered blocks and their source ranges, undo history | render, patch, tick, drag, undo | an edit changes the item it was made on |

The server serialises every note write, and every read of a note's content, with one mutex,
`noteMu`. A browser queues operations under a client sequence and an operation identifier and pushes
them in order; the server consumes each sequence once, stores the result for replays, and publishes
a hint. Browsers follow the change feed with a cursor. SQLite and the notes directory have no common
transaction: a `file_operations` row, committed with the note's row, records the rename or removal
that is still to be done, and every request (and the start of the process) first completes what is
left over.

What is hard: crashes between the commit and the file operation, file system calls that fail after
they have taken effect, lost responses and late requests, retained state that is compacted away
(change rows, acknowledgements), the cache, which no transaction covers, and, in the browser, the
user typing while a sync is under way. `PROJECT.json` lists these hazards at their lines.

## Modules

| module | models |
|---|---|
| `NoteStore` | the transactions on `notes` and `sync_changes`, as operators on a store |
| `NoteServer` | pushes, direct writes, reads, file operations, recovery, crashes |
| `SyncContract` | the abstract specification: what devices may rely on |
| `NoteStore_proofs` | lemmas about the store's operators |
| `NoteServer_proofs` | type invariant, durability of content, reads; exactly-once, truth of acknowledgements; change feed, pin order, revisions; `NoteServer` implements `SyncContract` |
| `ChangePull` | one browser following the change feed: pull, reset, reconcile |
| `ChangePull_proofs` | the cursor never runs ahead of the cache; guarded notes are kept; the cache never goes back |
| `OfflineStore` | the transactions of the browser's IndexedDB, as operators on a disk |
| `OfflineSync` | editor, push loop, conflicts and merges of one browser, and a server another device writes |
| `OfflineSync_proofs` | the queue's order, the identities under its sequences, what happens to an operation that was sent, no request with a gap; the shape of everything stored and sent |
| `SyncScheduling` | which tab syncs and when: coordinator, leadership, hints, sessions |
| `SyncScheduling_proofs` | one tab syncs, a known change is looked at, a sign-in stands |
| `TextMerge` | the three-way merge |
| `Navigation` | screens, history and note saver of one tab |
| `Navigation_proofs` | unsaved text is replaced in the named ways only; the screen follows the address |
| `VaultClient` | two tabs of one browser, their encrypted store and the database it belongs to |
| `VaultClient_proofs` | the marker tells the form of every local record; no secret is used that was not confirmed |
| `VaultSetup` | the dialogs that set up the encryption and change its secrets |
| `AppUpdate` | the service worker and the pages it serves, across deployments |
| `Preview` | rendering of the preview, and edits made through it |
| `Preferences` | the preferences document and the browsers that patch it |
| `MCClient_proofs` | the shell a page gets is whole; no preference is overwritten unseen, none is forgotten; the preview at rest shows the text, and edits made on it hit what it shows |
| `MC*` | the instances that TLC checks; `MCClient` puts the components that share no state in one run |

How they fit together: `NoteServer` uses `NoteStore` and implements `SyncContract`. `ChangePull` follows a
feed that is a `NoteStore` too. `OfflineSync` extends `OfflineStore`; its server is one that behaves as
`SyncContract` says (an operation is consumed once, in order, and its result is kept or compacted), so that
the two sides meet there. `SyncScheduling` decides when the steps of `ChangePull` and `OfflineSync` run and
takes each as a whole. `VaultClient` and `VaultSetup` meet at the call the dialog makes; `Preferences` takes
the delivery of its patches from `NoteServer`: in order, each once.

### NoteStore

A store is a record of the rows (revision and pin order; revision 0 stands for no row), the retained
change rows and the AUTOINCREMENT counter. Each operator is one transaction of `queries.go` and
returns the store it leaves. Titles, tags and the search index follow the row and are left out.

### NoteServer

`handler` is the request that holds `noteMu`, or the recovery at startup. Its `pc` says where it is:

    idle -> recover -> operations -> staged -> committed -> operations -> ... -> idle

- `recover`: `recoverFileOperations`. `RecoverOne` completes a selected row, `RecordFailure` counts a
  failure and quarantines at the limit, `FinishRecovery` removes orphaned stage files and refuses the
  request if one of its notes is blocked, `FailRecovery` is an error of the database or the directory.
  Recovery visits the rows in any order: the code's order, a time of one-second resolution and a
  random identifier, is not the commit order.
- `operations`: the loop of `handleSyncPush`. `ReplayStored`, `ReplayCompacted`, `RefuseReplay` and
  `RefuseGap` are the branches for a sequence that is not the next one; `Conflict`, `Noop`, `PinNote`,
  `StageFile` and `CommitDelete` those of `applySyncOperation`. `RefuseDirect` is the 409 or 404 of a
  direct write. A direct save writes its temporary file before its revision is compared and removes it again
  when it is refused; a pushed one is compared first.
- `staged`: the new file exists under a temporary name; `CommitSave` commits row, change, file
  operation, result and counter in one step, `Abort` rolls back.
- `committed`: `CompleteFile` renames or removes, deletes the row and tells the cache; `FailFile`
  fails before or after the rename and leaves the row to recovery.

`Crash` empties `handler` and `cache` and may come between any two steps, `Start` begins the recovery.
Devices (`Enqueue`, `RestoreProfile`, `Push`) send any contiguous part of their queue at any time,
which covers repeated, overlapping, late and gapped requests; `RestoreProfile` is a browser profile
restored from a copy, which issues sequences again under other identifiers. `ReadNote` is
`loadNoteWithContent`. `body` and `applied` are history variables: the content of the last committed
save of each note, and what became of every consumed operation.

Abstractions: a content is a model value and a hash is its content; a staged file is named by the
change counter its transaction will take; the cache evicts any other entry, so that LRU order and
byte count do not matter (a request holds at most 4 MiB, so that the limit of 16 MiB for one entry is never
met); devices and direct writes only start while no request is in progress
(the mutex orders them, and nothing they read is read before it is taken).

### SyncContract

Three variables: the revision and content of every note and the results of every device. One step
consumes the next sequence of a device and applies its effect, or performs a direct write. Files,
caches, crashes and retries do not exist. `NoteServer!Contract` instantiates it with
`revision <- Revisions` and `outcomes <- DeviceOutcomes`.

### ChangePull

The server is a `NoteStore`; other devices write to it at any time (`RemoteSave`, `RemoteDelete`). The
browser has its cached notes (`local`), the cursor, per note whether it is guarded (queued work, a
conflict with a remote edit, a conflict with a remote deletion), and the note with unsaved text. A
version of a note is its revision and the sequence of the change that created it. `pull.pc` is the
next request or transaction of the pull in progress:

    idle -StartPull-> feed -FeedBounds-> rows -FeedRows-> changes -ApplyPage-> feed (hasMore) or idle
                        \-FeedBounds-> reset -ResetList-> snapshot -ApplySnapshot-> idle
    idle -StartReconcile-> snapshot

`FeedBounds` and `FeedRows` are the two queries of `ListSyncChanges`, which are not in one transaction.
`Download` fetches a note in `changes` and `snapshot`; one note per request stands for the batches of
25, which the server reads note by note. `ApplyPage` and `ApplySnapshot` are the transactions of
`applyChangePage` and `applySnapshot`: they read the guards again, while what to download was decided
with the guards held since the start. `Fail` gives the pull up at any request. A server's list of notes
and the guards read after it are one step: what the user does between the two depends on neither.

A tab that is opened at the address of a note it does not have asks the server for it and stores the answer
(`restoreNote` in `ui/navigation-controller.js`). It does so beside the leadership, in any tab, and looks at the
queue before it asks, not when it stores: `RestoreLooks`, `RestoreAsks`, `RestoreAnswered` and `RestoreStores` may
each come between two steps of a pull.

Pushes (`PushApplied`, `PushConflicts`, `PushFindsDeletion`) are those of `perform` in
`sync/coordinator.js`: never while a pull runs. The queue itself is not in this module, and the
browser's edits are saves of cached notes; a new note, a deletion or a pin only guards its note.
`passedOver` is a history variable: the notes of which the cursor has passed a change without storing
a version fetched since. The code does this in five ways, all repaired by a reconciliation only: a note
is guarded or dirty when the page is applied; a note stopped being guarded during the pull and has not
been downloaded (it is removed from the cache); a note was downloaded for an earlier page (finding 3); a
compaction between the two queries removed the row; the cursor passed a change of a note between the answer and the
store of a `restoreNote`. `CursorCovered` says that there is no sixth. `NeverBackwards` names the two ways in which
`restoreNote` makes a note older: its answer is stored over a version that came between (`OvertakenStore`), or a
pull that was under way stores the copy it fetched before (`FetchedBefore`). `Converges` says that
reconciliation repairs all of them.

### OfflineStore and OfflineSync

A disk is a record of the cached notes, the queue, the client sequence, the `rejectedSync` records and the
unresolved conflicts; the operators of `OfflineStore` are the transactions of `core/offline-store.js` and
`sync/sync-batch.js`. `OfflineSync` adds the editor session, a save in progress (`saver`), a deletion or pin
in progress (`chore`), the push in progress (`task`), requests under way (`wire`) and a server. A step is one
transaction or one request. What `acknowledgements.js` and `conflict-workflow.js` do after they have read a
refused operation is a list of transactions (`task.steps`), carried out one at a time while the user goes on.
A text is a set of edits, so that "lost" and "undone" can be told apart; an automatic merge is the union of
both sides' edits, or it is left to the user (`TextMerge` models the real one). What the server makes of a request
(`ApplyBatch`) is stated for the request as a whole: its operations beyond the last consumed sequence are consumed,
each with the `Outcome` of its own note (a request carries one operation of a note). The server refuses a request
with a gap; that no request of this browser has one is a theorem (`NoGapHolds`).

History variables: `owed` is the set of edits that nobody gave up, `lapses` the known gaps a behaviour went
through. The properties about edits say what holds outside the gaps, so each gap is a way in which the code
loses or repeats an edit: the user changes a note between the transactions of its conflict (`resolve`) or
types between those of a page (`page`); a conflict is resolved or replaced after the note was edited again
or deleted (`later`); the tab dies in the middle of a conflict's transactions (`crash`); a pin conflicts, is
stored or is acknowledged beside unsent text, or its conflict is acknowledged after the note was deleted here, which
stores the note again (`pin`; `sync/acknowledgements.js:38-70`); a save outlives a note deleted meanwhile (`delete`); a refused save is
settled by a pin (`reject`, finding 4); the result of a refused operation is forgotten (`compact`). `Converges` says
that even then the queue drains.

### SyncScheduling

Each tab has the fields of its coordinator (timer, intents, pause, retry), of its stream and of its API client
(`revision` is `authenticationRevision`). `pc` is `asking` for leadership, one of the steps of `perform` (`pull`,
`reconcile`, `push`, `repull`, `check`), `finish` or `release`. A pull brings the cursor to the server's sequence and
a push empties the queue; requests carry the cookie and the revision of the moment they were sent. `leader` is
the Web Lock or the lease in IndexedDB, which a tab checks, writes, reads back, renews and lets expire.
Times are left out: a timer that is set fires some time, a lease expires any time a renewal is due.

`lapses.outlived` are tabs that went on after their lease had run out, which `leadership.js` does not notice
until its next renewal; `lapses.early` are tabs whose last sign-in succeeded beside a request they had sent with the
old cookie and the new revision, or beside an event stream opened with the old cookie (finding 5). Also
seen and left as they are: a reconciliation that is requested while a sync runs pauses the coordinator when
both make no progress; a late 401 of another tab locks it though the cookie is good; a reconciliation intent
does not survive a hidden tab or a failed run; a failed `now()` is not retried by itself.

### TextMerge

`DiffHunks`, `MergeHunks` and `MergeNoteVersions` are the functions of `editor/merge.js` as recursive functions,
the table of longest common subsequences as the function it computes, and the size limit of the diff. The
reference definition is applying each side's changes to the other side's text.

### Navigation

`page` is the history stack, the screen and the editor session; `tasks` are the asynchronous navigations, each
with the generation it was started with; `saver` is the note saver that navigations wait for and share.
`page.gaps` names what the code lets through: the preferences branch of `restoreRoute` drops unsaved text, whenever it was typed
(`navigation-controller.js:133-180`; such a loss is marked `passed`); the back button, `restoreRoute` and `followWikiLink` go on after a failed save
(257, 195, 68); `restoreCachedStartup` and the back button act after an `await` without comparing generations (225,
264); opening the preferences, a new note or a link beside a restore does not overtake it; a missing note
under open preferences leaves the dialog open; a save that ends late sets or omits an address. Typing between the
back button's clearing of the editor and the browser's event is left out.

### VaultClient

`disk` is the local store with its format marker (plaintext, being encrypted, encrypted) and the database it
belongs to (`origin`); records carry the form they are written in and the instance they came from. A server has
two databases, each plaintext or encrypted, and may be restarted on the other; it may be migrated, reset or have its credentials changed by
somebody else. A tab runs one task at a time (start, sign in, unlock, migrate, change a credential, lock, switch,
sync), whose steps are the requests and transactions of `vault-session.js` and `offline-store.js`. `disk.late` marks
a record that a tab wrote after another tab's conversion had passed it. `crossed` marks the notes of another
database: the page of changes and the notes it names are two requests, and only the first is checked for the
instance (`remote-notes.js:41`), so that a server restarted on another database between them, to which another
tab has signed in by then (`auth.js:184` sets the cookie before the identity is compared), answers the second with
notes of its own. An edit that is given up has a reason: `switch`, the user left its database for another;
`raced`, another tab changed the local vault after the bootstrap had compared it, or switched to the same
database first and made the edit there (`offline-store.js:259-261`); `discard` and `unasked`, which `EditsKept`
forbids. A start with a remembered key is three transactions (`ResumeRemembered`, `ResumeMarker`, `ResumeCheck`),
the last of which compares the epoch of the vault.

### VaultSetup

`dialog` holds what the fields of the open dialog hold, `opens` is `setupGeneration`, `working` the asynchronous
work under way with the values it read before its first `await`. `call` is the last secret handed to the vault. A
passphrase that is edited while its strength is estimated is used without having been repeated (`late`;
`vault-setup.js:772-811`), and a check started in an earlier opening of the dialog may end in a later one.
`resetMode` is never set in the code and is left out. Where the passphrase or the generated code is chosen,
`PassphraseAssessed` takes the choice of the moment the dialog was submitted; the code reads it again after
`beforeCredentialChange` (`vault-setup.js:897`), where only a dialog closed in between differs, and fails there.

### AppUpdate

Caches are named by revision and hold the files of whatever build the server had when they were fetched. The
browser's registration, installation and activation are external. `gaps` are the events `sw.js` does not provide
for: a deployment while a worker installs, a second installation over the cache in use (`sw.js:128`), the deletion of
a cache that is being filled; and an open page of an overtaken worker loads later files from the newer one.
`Files` are those a page loads by itself; `OptionalAssets` (the word list, `/vendor/bip39.min.js`) are in no
installation and are fetched when they are asked for, into the cache of the active worker (`sw.js:85`, `117`, `220`). After a
deployment that is the newer server's file beside an older shell, which `ShellIsWhole` allows for these files only.

### Preview

A text is a sequence of items, each a block with a task box. `preview` is the page, the worker's request, the
answer waiting for an idle moment or its next batch, and the source ranges; `edit` the interactive session.
`preview.flaws` are ways in which the code departs from its rules: a rendering is cut short and not started
again (`preview-renderer.js:32-40`), a page is shown but never made interactive (`app.js:1570`), an undo of a task
redraws only the box (`app.js:1779-1785`), the session is kept for a text adopted from outside
(`app.js:548-562`). Three things are simpler than in the code: a page opens in the view with both panes (`app.js:1085`
takes the view from the preferences); the page may always be made interactive (a preference turns that
off, `interactive-preview-session.js:53`); and a new page drops the rest of an outdated one, whose timer in the code still
fires, finds itself outdated and clears the busy mark (`preview-renderer.js:41-46`), which the new page clears
too when it is complete. Left out: a page without `marked`, decoration, nested items.

### Preferences

The document is a revision and a value per setting; one field is a map and has several settings. A change is a
patch of whole fields with the values they had; `Resolve` keeps of a refused patch what does not disagree
with the document. `author`, `blind`, `upto`, `skipped` and `choice` are history: who wrote a setting last, what each
user had seen and chosen, and whether an acknowledgement had named another revision than the next. The browser takes
that revision for its own although it never loaded the changes before it (`acknowledgements.js:90`; hints
that are not newer are ignored, `server-events.js:49`), and the server compares nothing of its later
patches (`sync_ops.go:291`): two devices can then overwrite each other's choices unseen. `NoBlindOverwrite` says that
there is no other way. Left out of `ChoicesAccounted`: a re-queued older patch merges over a newer waiting choice,
and takes the map's other entries along (`offline-store.js:591`, `preference-conflicts.js:24`); a page closed between
showing a change and queueing it. The code compares the JSON of a field (`preference.go:356`), so that a map whose
entries come in another order differs from itself: the model lets the server refuse any patch of the map (`Refusable`).

## Runs

| run | instance | properties | shows |
|---|---|---|---|
| `push` | 1 note, 2 devices, 3 operations, 1 restored profile, 1 crash, 1 retained acknowledgement | `ExactlyOnce`, `AcknowledgementsTrue`, `NoForkedRevision`, `ImplementsContract` | the push protocol |
| `files` | 2 notes, 1 device, 3 operations, 1 direct write, 2 faults, 2 crashes, quarantine after 2, 2 retained changes | `ContentDurable`, `OneFileOperationPerNote`, `FeedAgreesWithRows`, `PinOrderTotal`, `ReadsReturnTheirRevision` | files, feed and pins under failure; until the first failing call, reads return the content of their revision |
| `live` | 2 devices, 2 operations, 1 fault, 1 crash | `QueuesDrain` | queues are consumed |
| `cache` | 1 note, 1 fault | `CacheFollowsFile` violated | finding 1 |
| `tombstone` | 2 notes, 1 retained change | `DeletedNoteConflicts` violated | finding 2 |
| `pull` | 2 notes, pages of 1, 2 retained changes, 3 writes, 1 edit, 1 note opened by its address, 1 failing request | `CursorCovered`, `GuardedNotesKept`, `NeverBackwards`, `Converges` | following the feed |
| `pages` | 2 notes, pages of 2, 4 retained changes, 4 writes | `CommittedBeforeCursor` violated | finding 3 |
| `offline` | 1 note and its conflict copy, batches of 2, five budgets of typed edits, remote edits, actions and faults | `TypeOK`, `QueueOrdered`, `ResultsMatchQueue`, `LocalEditsKept`, `RemoteEditsKept`, `PendingHasWork`, `SettledIsServer`, `SentStaysAsItWas`, `Converges` | offline editing, conflicts and merges under lost replies and crashes |
| `refused` | the same, one of each | `RefusedEditsKept` violated | finding 4 |
| `scheduling` | 1 or 2 tabs, six budgets of edits, changes, events, faults and sessions | `OneSyncAtATime`, `WakeupKept`, `NewSignInStands`, `EveryRunEnds`, `Converges` | which tab syncs, and that requested work is done |
| `signin` | as `scheduling` | `SignInStands` violated | finding 5 |
| `client` | seven components, one per behaviour (below) | `MergeAppliesBoth`; `ScreenFollowsRoute`, `TypedTextIsSaved`; `LocalVaultConsistent`, `DatasetsStayApart`, `EditsKept`; `OnlyConfirmedSecrets`; `ShellIsWhole`; `PreviewShowsSource`, `EditsHitWhatIsShown`; `NoBlindOverwrite`, `ChoicesAccounted` | merge; navigation; vault in two tabs; its dialogs; app updates; preview; preferences |

Bounds. `MaxIssued` operations, `MaxDirect` direct writes, `MaxRollbacks`, `MaxFaults` and `MaxCrashes`
bound the environment; nothing bounds how often a device repeats a request. Three operations are
enough for a batch with a replayed prefix, a new operation and a conflicting one from the other
device; one retained acknowledgement makes every earlier one "compacted"; two retained changes make
compaction happen in the middle of a behaviour; quarantine after two failures is reached with two
faults. `CHECK_DEADLOCK FALSE` stands where the bounded environment may have nothing left to do with
the server down or its budget spent. The `live` run checks deadlock. The two devices are
interchangeable and `push` uses that symmetry (it checks no liveness).

Fairness (`FairSpec`). Weak fairness of the server's own steps and of the restart: a request in
progress runs to its end and a supervisor restarts the process. Strong fairness of `Retry(d)`, a push
of the whole queue by a device with unacknowledged operations: browsers retry for as long as work
remains, and `sync.Mutex` hands the lock to waiters that have starved, so a device's request gets its
turn although others keep coming. Quarantine needs more failures than the run allows: a quarantined
operation blocks its note until an operator intervenes, by design.

`ChangePull` is bounded by `MaxWrites` changes on the server, `MaxEdits` edits, `MaxRestores` notes opened by their
address and `MaxFailures` failing requests; pulls and reconciliations are not bounded. With pages of one change and two
retained changes, three writes give pulls of several pages, resets, compaction between the two queries, and notes that are
deleted and created again. One thing is outside the bounds: reconciliation compares revisions, and a
revision can be reused once its tombstone is compacted (finding 2), which takes five writes. The run
does not check deadlock: its environment may end.

Fairness of `ChangePull`. Weak fairness of the pull's steps: requests are answered or fail, and a failure
is a step of its own. Strong fairness of `StartReconcile`, which is taken between pulls: the browser
reconciles when it is loaded, signed in, comes online, and periodically while its event stream is not
healthy (`app.js`, `sync/server-events.js`). Nothing is assumed of the user or of pushes.

`offline` gives each behaviour one of five budgets (typed edits, remote edits, other actions, faults): (1,1,1,1),
(2,1,0,2), (2,0,1,1), (1,2,1,0), (1,0,1,2). Its invariants were also checked with wider budgets, each on its own and up to 3.8 million states:
(1,1,3,0), (0,1,3,1), (2,1,1,1), (1,2,1,1), (1,0,2,2), (2,2,1,0), (1,2,2,0); and 13.8 million states of (2,1,2,1), not to
the end. One remote edit and two typed ones are what a merge with a save
between its transactions needs; a forgotten result needs two faults, the lost reply and the forgetting. (2,1,1,0)
and (1,1,1,2) pass as runs of their own. `scheduling` has one tab with edits, changes and a fault, with edits,
changes and an event, or with a change, a fault and two sessions; and two tabs with locks and a change, with
leases and a fault, or with leases, an edit and an event.

`client`: the components share no state, so that a behaviour is about one of them and the others rest. `TextMerge`:
every triple of texts of at most four lines over two contents. `Navigation`: two navigations at once, four
events of the user. `VaultClient`: two tabs, two databases of either kind, three vaults, three events of the user or the server, of
which two may be sign-ins. `VaultSetup`: two
passphrases, three keys, two openings. `AppUpdate`: one tab, two revisions, two deployments, one optional file. `Preview`: two items,
an undo history of two. `Preferences`: two devices, one plain field and a map with two entries, two
changes, a document of at most five revisions; a behaviour begins with nothing chosen or where two devices have chosen and one
was taken past the other's choice (`Skipped`), with one change left. The run has 2.6 million distinct states, half of them
the vault's. Larger instances were checked on their own: navigation with two openings, five events and two notes
(5.5 million states), the vault with four events, two of them migrations or changes of credentials (5.9 million), the
dialogs with three openings (3.4 million), two tabs and two deployments (3.0 million), the preview with four events
(693 000).

Fairness of `OfflineSync`. Weak fairness of the saver, of a confirmed action, of the push loop, of answers and of
pages: the page is open again after a crash, timers fire, and a request that is not lost is answered. Nothing is
assumed of the user, the other device or the faults. Fairness of `SyncScheduling`: weak, for each tab, of its
lifecycle and renewals, timers, hint handling, reconnection, periodic check and the end of a sign-in, and of the
expiry of a lease whose owner is closed. `Converges` is conditional: some tab stays visible, signed in and not
paused. The components of `client` make no liveness claim.

Every property of a passing run has a mutant: a definition ending in a suffix (`Due_Replayed`,
`Referenced_Unquarantined`, ...) is the code with a plausible bug, and replacing the original by it
violates the property.

## Proofs

The constants are arbitrary: any sets of notes, devices and contents, any limits. The assumptions are
`MaxSyncChangesAssumption` (at least one change is retained), `DraftsAssumption` (operations have
passed `Validate`), `NamesAssumption` (the values that stand for "no content" and "no device" are
neither), `LimitsAssumption` and `BoundsAssumption` (numbers), `StoreAssumption` (null is no text, note, number or
record it stands beside); for the client components
`ClientAssumption` (the value that stands for "absent" is no number, text or record of theirs, and a
setting is a field or an entry of the map, not both), `NavigationAssumption` (a note that is created is none of
those there were) and `VaultAssumption` (the first vault has a number, and "absent" is no configuration).

- `TypeCorrect`. `TypeInv` adds to `TypeOK` that the change counter bounds every sequence and that
  finite sets have the maxima the queries ask for (`Counted`), and which fields of the request are set
  at which `pc` (`RequestInv`).
- `ContentIsDurable`, `FileOperationsUnique`. `ContentDurable` alone is not inductive: that the staged
  file of a recorded operation is still there depends on orphan removal sparing it, and that no older
  operation overwrites it on the note being blocked. `FilesInv` adds that a request past recovery has
  no blocked operation, that every file operation is for the content last committed, and what a
  request in progress has outstanding.
- `ReadsAreCurrent`. `ReadsReturnTheirRevision` speaks of moments without a request, and a write replaces row, file
  and cache in separate steps. `ReadsInv` adds that, until the first failing call, a file operation outlives its request
  only in a crash, which empties the cache too, and is carried out before anything else is done
  (`FileOpsInHand`), and that a cached content is the committed one, except of the note whose file operation the
  request has yet to carry out (`CacheCurrent`).
- `PushesExactlyOnce`, `AcknowledgementsAreTrue`. `PushInv` adds that an identifier stands at one place
  of one queue and has not been consumed at another, that retained acknowledgements are outcomes,
  that a batch is a part of its device's queue, and that a staged save is the next operation. It
  survives restored profiles because dropped identifiers are never issued again.
- `FeedIsTrue`, `PinsAreOrdered`, `RevisionsNeverFork`. Every write is the same kind of step (`Write`)
  with the next revision of its note; the lemmas of `NoteStore_proofs` say what it preserves. For
  revisions, as long as nothing has been compacted, every applied write is at or below the current
  revision of its note, which survives a deletion in the tombstone.
- `ServerImplementsContract`. Consuming an operation adds the result of the next sequence to those
  of its device (`ConsumedOutcome`, from `ExactlyOnce`), a commit is the matching change (`WriteIsChange`), every other
  step leaves the mapped state alone.

- `CacheCoversCursor`, `PullTypeCorrect`. `CursorCovered` is not inductive. `Kept` says it of guarded notes
  too, since a guard may go at any time, and that a note in conflict with a deletion was gone. `PullInv`
  says of a pull in progress that its page is a part of the feed without a gap (`PageFits`, which needs
  that the retained changes are the newest ones, `Retained`), that what was downloaded is as new as
  the page or the baseline (`FreshEnough`, from `StoredIsLast`: a note is what its last change left), and
  that a listed snapshot lacks only notes that were gone (`SnapshotFits`). `Reflects` survives later
  writes (`ReflectsLater`), and `AdvanceKept` is the argument for both transactions. The
  answer of a `restoreNote` says of its note what the cursor says, unless a page came between. Assumption:
  `PullAssumption` (a page has room for a change).
- `PullsKeepGuarded`. Both transactions read the guards they respect.
- `CacheNeverGoesBack`. No version, stored or cached, is newer than the last change of its note; and while a pull runs,
  what it has fetched is at least as new as what is cached (`Aged`), since a push waits for the pull to end; a note
  opened by its address is excepted once it is stored during a pull, and its answer is, if a newer version was stored
  since it came.

- `SecretsConfirmed`. `OnlyConfirmedSecrets` speaks of the last call only. What is handed over is read from the
  dialog, or from work that was started from it, before one or two awaits during which the user may close it
  and open another. `Inv` therefore ties what the dialog and the work hold to the opening they belong to: which
  fields a kind of dialog has (`KindsFitMode`), that a key being created is awaited by its own opening and by one
  only (`CreationPending`, `OneCreation`), that the last page is reached with both secrets confirmed
  (`FinalChecked`, `Repeated`) and that a secret which was verified is the one given (`KeyVerified`).

- `QueueOrderedHolds`, `ResultsMatchQueueHolds`, `NoGapHolds`, `SentStaysAsItWasHolds`. The proofs look at the identity,
  the sequence and the attempted flag of an operation, never at texts. `Inv` says that the queue is complete above
  what the server has consumed (`QueueComplete`), that whatever a request under way carries is in the queue under its
  sequence or has been consumed (`RequestsClaimed`), that no such request has a gap (`NoGap`), what the push in
  progress may assume of the queue at each of its steps (`TaskFollows`), and that every result is of an operation
  that was sent (`ResultsKnown`). `ResultsMatchQueue` needs all of them: a queue with a hole would let the repair at a
  gap give a consumed sequence to another operation. Assumption: `SyncAssumption`.

- `OneSyncAtATimeHolds`, `WakeupKeptHolds`, `NewSignInStandsHolds`. Three independent parts of one invariant. Leadership:
  a tab at work owns the lock or the fresh lease, or it outlived it. Hints: what covers a change a tab was told of,
  by the step it is at; a request covers it only if it was neither aborted nor sent before the last sign-in, which
  the property does not say and its induction needs. Sessions: the valid ones are the latest, and every request or stream
  that could still undo a tab's sign-in belongs to its session or a later one, except where the sign-in overlapped it.
  The attempt to prove the last one found that the exception has to include event streams opened with the old
  cookie. Assumption: `SchedulingAssumption`.

`TypeCorrect`, `PullTypeCorrect` and `NoGapHolds` are proved and not repeated as run properties.

- `ShellIsWholeHolds`. Caches hold optional files beside those of the shell; the invariant speaks of the latter, and says
  that a page answered by its worker got nothing but optional files of another build. What was fetched for the worker
  that installs is of the server's revision, and that is the worker's own once the shell was fetched
  (`InstallFetched`); the active worker's cache is whole; a page is answered by the active worker and shows its
  revision unless it was taken over (`PageFollows`). Assumption: `ClientAssumption`.
- `NoBlindOverwriteHolds`, `ChoicesAccountedHolds`. That a patch compared with nothing overwrites nothing unseen needs what
  a browser knows: unless an acknowledgement took it past one, it has seen every change up to its revision (`Knows`,
  and `PatchKnown` and `DeviceKnown` of its patches and downloads), so that a later author is later than its patch,
  which is then compared. A patch speaks of whole fields (`PatchesFit`), so that every setting it changes is. A choice
  rests on a patch that is not the one about to be removed (`Backed`), and of the patches not yet queued the last one
  on a setting has the choice (`LastSaving`), since it will be merged over the others. Trying to prove it found that a
  re-queued older patch overrides a newer choice of every entry of the
  map, not only of those it is about; the case needs three entries and was then confirmed by TLC, and the
  property says now what the code does.
- `PreviewShowsSourceHolds`, `EditsHitWhatIsShownHolds`. The properties speak of a page at rest and of the moment of an
  edit; `PreviewInv` accounts for the page at every moment. Its elements and their ranges are those of one text
  (`PageFits`, also while a batch or a slice of them is missing); a request out means that no older answer or batch will
  still be drawn (`RequestFits`); a visible page of another text has an answer, a batch or a timer ahead of it that
  will bring the text or look again, and so has a page marked busy (`Follows`); a drag, once armed, keeps the page it
  was armed on (`DragFits`); and the recorded edits follow each other and end at the text (`HistoryFits`), which is
  why an undo that still finds what it inserted restores the text before it. All of it holds until the first recorded
  flaw; the types hold always. Patching keeps only elements of items both texts share (`SharedItems`,
  `SharedTailItems`). Assumption: `ClientAssumption`.

- `TypedTextIsSavedHolds`. `EditInv` accounts for the unsaved text at every moment (`EditsSafe`): while a navigation
  waits for a save, the save under way carries the text or will be repeated (`Covered`; a save that joins a running one
  asks for the repetition), and once it no longer waits the text has an excuse that stays true until the session
  ends (`Excused`: its last save failed, it was typed while the navigation was already past the save), or the navigation
  is a restore of the preferences that looks for another note than the one edited (`Passing`, `Apart`): that one
  saves when it finds its note, and passes the text by when it does not. So whatever was replaced had a reason
  (`LostExcused`). Assumptions: `NavigationAssumption`, `ClientAssumption`.
- `ScreenFollowsRouteHolds`. The property speaks of a page at rest. `ScreenInv` says of every moment, until the first
  recorded gap, that the latest restoration aims at the address there is (`LatestFits`) and that the screen is right,
  or that a restoration, a traversal of the history, a first save, an opening or the end of a step back is still to
  come (`RightOrDue`): an earlier navigation may end later, but then a generation is newer and it does nothing. It
  stands on `GroundsInv`: no two navigations share a generation, a note in the history is on the device or is the
  editor's and will be saved, a note that is being made is nobody else's (`NewNotesFresh`) and has no address
  (`NoAddressYet`), a save under way works for the session it was taken from (`SaverSees`), and nothing else runs while
  the page starts (`Starting`). Same assumptions.

- `LocalVaultConsistentHolds`. A conversion takes one transaction per store, and between any two another tab may discard,
  switch or convert. `VaultInv` says which configuration and key a task has at each of its steps (`TaskFits`,
  `KeysFit`: a conversion always has a vault to convert to), that a marker of a vault names it and that a
  discard leaves nothing (`MarkerFits`), and that the stores a converting tab has passed are in its form as
  long as the marker is still its own (`ConversionFits`), unless it was told to reload. Whatever else is written passes
  `withOfflineStore` and so has the form the marker tells (`DataStep`). Assumption: `VaultAssumption`.

- `TypeOKHolds`. That a program stores whole notes depends on what the steps before it prepared: `TypeInv` adds which
  programs there are and which field of the task each has set by the step it is at, what a request carries, and that
  an answer is of the batch it was asked for; and `NewNotesUnused`, that the identifiers kept for copies are
  spoken of nowhere until `keepCopy` takes one, without which a copy could overwrite a note. Assumptions:
  `SyncAssumption`, `StoreAssumption`.

Only model-checked: `QueuesDrain`, the three `Converges` and `EveryRunEnds` (liveness, out of the prover's reach);
`MergeAppliesBoth` (`TextMerge` is defined by recursion over data, out of its reach too); `DatasetsStayApart` and
`EditsKept` (they hold because a vault's number is never used again, which the model bounds by a small set); and of `OfflineSync`
`PendingHasWork`, `LocalEditsKept`, `RemoteEditsKept` and `SettledIsServer`, which follow a text through every program
of the acknowledgements: their invariants were found with TLC, and they are not proved here.

## Findings

1. `cache`: after one failing completion, recovery replaces the file but not the cached content; reads
   return the previous content with the new revision until the entry is evicted or the process
   restarts. `note/cache.go:19` calls the file the source of truth.
2. `tombstone`: `store/queries.go:319` says a deleted note always conflicts. After the tombstone has been
   compacted away, a save that expects revision 0 creates the note again.
3. `pages`: `docs/api/client-protocol.md:81` asks to commit cache changes before advancing the cursor.
   `pull` downloads a note once for all pages (`remote-notes.js:178`); if it is written again meanwhile, the
   old copy is stored for the later page and the cursor passes the newer revision. A reconciliation
   repairs it.
4. `refused`: `client-protocol.md:80` says never to replace an unresolved local edit with a remote snapshot
   silently. Pinning a note whose save was refused deletes the record of the refusal (`offline-store.js:606`), the
   pin's acknowledgement settles the note, and the next change of another device replaces the text.
5. `signin`: `core/api-client.js:23` says that a delayed rejection of the old cookie must not undo a newer
   sign-in. The revision is raised when the login is sent, not when it succeeds: a sync started in between carries
   the old cookie with the new revision, and its 401 locks the tab that has just signed in.

## Not modelled

On the server: staging, cutover and cleanup of vault files, archives, and the encrypted pushes (`vault_*.go`;
seen only through their fences and their effect on browsers); the compaction of operation payloads (nothing
reads them back); expiry and renewal of sessions and the limiter of logins; listing and search; schema
migrations and backups; routing, configuration and static assets; file names and hashes as such; which values
preferences may have.

In the browser: `repairSyncSequenceGap`, which the modelled code never needs; a change of server instance in the
middle of a pull; the formatting, caret, toolbar and overlay code of the editors, which only looks at the page;
the dashboard, appearance and layout; cryptography, which is a key that opens what it closed.

Three hazards have no property for that reason (`sync_ops.go:74`, `offline-store.js:728`, `vault_migration.go:174`);
their notes in `PROJECT.json` say more.

## Plan

Done: `NoteStore`, `NoteServer` and `SyncContract`; `ChangePull`; `OfflineStore` and `OfflineSync`; `SyncScheduling`;
`TextMerge`; `Navigation`; `VaultClient` and `VaultSetup`; `AppUpdate`; `Preview`; `Preferences`. Next, in this order:

1. Theorems: `PendingHasWork`, `SettledIsServer`, `LocalEditsKept` and `RemoteEditsKept` of `OfflineSync`;
   `DatasetsStayApart` and `EditsKept`, once `VaultClient` has the numbers of the vaults as a counter.
2. `VaultMigration`: the server's migration, cutover, cleanup and reset, each step interrupted by a crash;
   either side is complete at all times. Then the vault's push and file operations.
3. `Sessions`: revocation against renewal and login, the limiter's window.
4. `OfflineSync` with a change of server instance, and with `repairSyncSequenceGap` after a restored profile.
