----------------------------- MODULE VaultClient -----------------------------
(***************************************************************************)
(* What a browser holds and which database it belongs to: two tabs of one  *)
(* browser share a local store and a cookie, notes are plaintext or        *)
(* encrypted with a vault key, and the server may come back with another   *)
(* database or another vault (core/vault-session.js, the vault and dataset *)
(* parts of core/offline-store.js, ui/dataset-switch.js, ui/auth.js and    *)
(* app.js).  A tab runs one task at a time; each of its steps is a request *)
(* to the server or a transaction of the local store.                      *)
(***************************************************************************)
EXTENDS Integers, FiniteSets

CONSTANTS
  Tabs,
  None,
  MaxVaults,   \* bound: vaults ever made (a reset makes one, and an epoch with it)
  Budget       \* bounds: [edits, faults, signIns, changes, elsewhere, syncs], their sum [all]

VARIABLES
  disk,     \* the browser's local store
  tab,      \* the tabs
  server,   \* the two databases a server may run on
  net,      \* the database in service, and the one the browser's cookie is a session of
  fate,     \* edits that reached a database, and edits dropped
  spent     \* what the behaviour has spent of Budget

vars == <<disk, tab, server, net, fate, spent>>

Databases == {1, 2}
Live == server[net.live]
SignedIn == net.cookie = net.live

\* What the bounds leave of a kind of event.
Left(what) ==
  /\ spent[what] < Budget[what]
  /\ spent.edits + spent.faults + spent.signIns + spent.changes + spent.elsewhere + spent.syncs
       < Budget.all
Spend(what) == spent' = [spent EXCEPT ![what] = @ + 1]

(***************************************************************************)
(* Records.  A vault is numbered from 1 in the order made, and stands for  *)
(* its identity and its epoch; 0 is none, and the form of plaintext.       *)
(***************************************************************************)
Bootstrap == [mode |-> Live.mode, vault |-> Live.vault, gen |-> Live.gen, inst |-> net.live]
Wrappers == [vault |-> Live.vault, gen |-> Live.gen]

Marker(value, vault) == [value |-> value, vault |-> vault]
\* A note of database inst (crossed: the page of changes that named it was another's).
Note(form, inst, crossed) == [form |-> form, inst |-> inst, crossed |-> crossed]
Marked(v) == disk.marker = Marker(1, v)

Fresh ==
  [pc |-> "bootFetch", then |-> "start", config |-> None, root |-> 0, local |-> 0, bound |-> -1,
   expected |-> 0, target |-> None, screen |-> "login", sees |-> 0, got |-> None, key |-> 0,
   wraps |-> None, ops |-> {}, inst |-> 0, saw |-> Marker(0, 0), told |-> FALSE]

Ended(x) == [x EXCEPT !.pc = "idle", !.then = "none", !.got = None, !.key = 0, !.wraps = None, !.ops = {},
                     !.inst = 0, !.saw = Marker(0, 0)]
At(x, pc) == [x EXCEPT !.pc = pc]
Begin(x, then, pc) == [x EXCEPT !.pc = pc, !.then = then]
Become(t, x) == tab' = [tab EXCEPT ![t] = x]

Encrypted(x) == x.config # None /\ x.config.mode = "encrypted"
Paused(x) == x.target # None
VaultOf(c) == IF c = None THEN 0 ELSE c.vault

(***************************************************************************)
(* Transactions.  Every one reads the database's identity and the format   *)
(* marker with the data, so that IndexedDB orders it with a switch or a    *)
(* conversion another tab makes.                                           *)
(***************************************************************************)

\* bindDatasetIdentity
Bind(x) ==
  IF x.bound = -1 \/ (x.bound = 0 /\ disk.initial) THEN disk.identity ELSE x.bound

\* Mutated: a transaction runs whatever the identity of the local data.
Fenced_Never(x) == TRUE
\* assertDataset
Fenced(x) == disk.identity = Bind(x)

\* withBoundTransaction: the work d of a transaction and what its task does then, or its
\* error, which ends the task.  (disk.late: a tab that another tab's switch has told to
\* reload still wrote before it did.)
BoundWhen(t, fits, d, x) ==
  LET y == [tab[t] EXCEPT !.bound = Bind(tab[t])]
  IN  IF Fenced(tab[t]) /\ fits
      THEN /\ disk' = [d EXCEPT !.late = @ \/ y.told]
           /\ Become(t, [x EXCEPT !.bound = y.bound])
      ELSE UNCHANGED disk /\ Become(t, Ended(y))

\* Mutated: only a conversion under way is looked for.
Unlocked_Late(x) == disk.marker.value # 2
\* withOfflineStore: the local format is the one this tab reads and writes.
Unlocked(x) ==
  CASE disk.marker.value = 2 -> FALSE
    [] disk.marker.value = 1 -> x.local # 0 /\ disk.marker.vault \in {0, x.local}
    [] OTHER -> x.local = 0

OpenStore(t, fits, d, x) == BoundWhen(t, Unlocked(tab[t]) /\ fits, d, x)

(***************************************************************************)
(* Requests                                                                *)
(***************************************************************************)

\* The vault keys a sign-in or a reset gets, when they are those of the vault it is for.
Unwrap(x, w) ==
  IF w = None \/ w.vault # VaultOf(x.config) \/ w.gen # x.config.gen THEN Ended(x)
  ELSE [x EXCEPT !.key = w.vault, !.pc = "unlock"]

\* bootstrap has a configuration: its caller goes on.
AfterBootstrap(x) ==
  CASE x.then = "start" ->
         IF x.config.mode = "preparing" THEN Ended(x)
         ELSE At(x, IF Encrypted(x) THEN "resume" ELSE "startApp")
    [] x.then \in {"signIn", "migrated"} -> At(x, "login")
    [] x.then = "migrate" -> At(x, "stage")
    [] x.then \in {"reset", "changed"} -> At(x, "wrappers")
    [] x.then = "lock" -> At(x, "lock")

\* A step whose request gets no answer goes on with what the store has cached, if it may.
Unreached(x) ==
  CASE x.pc = "bootFetch" /\ x.then = "peer" -> Ended(x)
    [] x.pc = "bootFetch" /\ x.then # "peer" /\ disk.boot # None ->
         AfterBootstrap([x EXCEPT !.config = disk.boot, !.saw = None])
    [] x.pc = "bootFetch" /\ disk.boot = None /\ x.then = "lock" -> At(x, "lock")
    [] x.pc = "bootFetch" /\ disk.boot = None /\ x.then = "start" ->
         IF disk.marker.value = 0 THEN At(x, "startApp") ELSE Ended(x)
    [] x.pc = "resumeCheck" -> At(x, "unlock")
    [] x.pc \in {"login", "wrappers"} /\ x.then = "signIn" /\ Encrypted(x) ->
         Unwrap([x EXCEPT !.got = None], disk.wraps)
    [] OTHER -> Ended(x)

Requests ==
  {"bootFetch", "resumeCheck", "login", "wrappers", "page", "notes", "send", "migrationStart",
   "stage", "verify", "commit", "resetPost", "credential", "switchFetch", "logout", "switchVerify"}

\* A request of tab t is not answered: it was lost on the way.
NoAnswer(t) ==
  /\ tab[t].pc \in Requests
  /\ Left("faults")
  /\ Spend("faults")
  /\ Become(t, Unreached(tab[t]))
  /\ UNCHANGED <<disk, server, net, fate>>

\* The answer of a request that changed the server arrives, or is lost.
Answered(t, x) ==
  \/ Become(t, x) /\ UNCHANGED spent
  \/ Left("faults") /\ Spend("faults") /\ Become(t, Unreached(tab[t]))

\* requireAuthentication: an unlocked tab checks the database before it locks.
NeedAuthentication(x) ==
  IF Paused(x) THEN Ended(x)
  ELSE IF Encrypted(x) /\ x.root # 0 THEN Begin(Ended(x), "lock", "bootFetch")
  ELSE [Ended(x) EXCEPT !.screen = "login"]

\* The server answers a request that needs a session with x.
Asked(t, x) == Become(t, IF SignedIn THEN x ELSE NeedAuthentication(tab[t]))

\* Whether tab x and the server exchange notes in the same form.
Agrees(x) ==
  IF Live.mode = "encrypted" THEN Encrypted(x) /\ x.config.vault = Live.vault ELSE ~Encrypted(x)

(***************************************************************************)
(* Bootstrap: every sign-in and every other change of the vault asks the   *)
(* server for its configuration, and compares it with the local data.      *)
(***************************************************************************)
FetchBootstrap(t) ==
  /\ tab[t].pc = "bootFetch"
  /\ Become(t, [tab[t] EXCEPT !.got = Bootstrap, !.pc = "inspect"])
  /\ UNCHANGED <<disk, server, net, fate, spent>>

Previous == IF disk.identity # 0 THEN disk.identity
            ELSE IF disk.srv.form = 0 THEN disk.srv.value ELSE 0

\* Mutated: the vault of the local data is not compared.
DatasetChanged_Instance(x) ==
  \/ Previous \notin {0, x.got.inst}
  \/ x.expected \notin {0, x.got.inst}
  \/ disk.identity # Bind(x)
\* Whether the server's configuration is of another database than the local data.
DatasetChanged(x) ==
  \/ Previous \notin {0, x.got.inst}
  \/ x.expected \notin {0, x.got.inst}
  \/ disk.marker.vault \notin {0, x.got.vault}
  \/ disk.identity # Bind(x)

\* bootstrap once the database is known to be the one of the local data.
Bootstrapped(x) ==
  IF x.then = "peer" THEN Ended(x)
  ELSE LET y == [x EXCEPT !.config = x.got]
       IN  IF x.got.mode = "legacy" THEN AfterBootstrap(y) ELSE At(y, "cacheBoot")

\* inspectDataset and datasetSwitch.inspect: another database pauses the tab and shows
\* the dialog; the same one takes a pause back.
Inspect(t) ==
  LET x == tab[t]
      here == [x EXCEPT !.bound = x.got.inst, !.expected = x.got.inst, !.target = None,
                        !.saw = disk.marker]
  IN  /\ x.pc \in {"inspect", "identify"}
      /\ IF DatasetChanged(x)
         THEN /\ Become(t, Ended([x EXCEPT !.target = x.got, !.bound = Bind(x),
                                           !.expected = IF @ # 0 THEN @ ELSE Previous]))
              /\ UNCHANGED disk
         ELSE /\ disk' = [disk EXCEPT !.identity = x.got.inst,
                                      !.initial = IF disk.identity # 0 THEN @ ELSE TRUE,
                                      !.origin = IF @ # 0 THEN @ ELSE x.got.inst]
              /\ Become(t, IF x.pc = "inspect" THEN Bootstrapped(here)
                           ELSE IF x.then = "switch" THEN Ended(here)
                           ELSE At(here, "serverID"))
      /\ UNCHANGED <<server, net, fate, spent>>

CacheVaultBootstrap(t) ==
  /\ tab[t].pc = "cacheBoot"
  /\ BoundWhen(t, TRUE, [disk EXCEPT !.boot = tab[t].got], AfterBootstrap(tab[t]))
  /\ UNCHANGED <<server, net, fate, spent>>

\* checkServerIdentity: an identity that is not the cached one stops a tab with edits.
CheckServerIdentity(t) ==
  LET x == tab[t]
      blocked == disk.srv.value \notin {0, x.got.inst} /\ disk.queue # {}
  IN  /\ x.pc = "serverID"
      /\ OpenStore(t, ~blocked,
           [disk EXCEPT !.srv = IF @.value = x.got.inst THEN @
                                ELSE [value |-> x.got.inst, form |-> x.local]],
           At(x, IF x.then = "signIn" THEN "startApp" ELSE "notes"))
      /\ UNCHANGED <<server, net, fate, spent>>

(***************************************************************************)
(* A start resumes with the key this browser remembers, if the server      *)
(* still has the vault it belongs to and the session is valid.             *)
(***************************************************************************)
ResumeRemembered(t) ==
  LET x == tab[t]
  IN  /\ x.pc = "resume"
      /\ BoundWhen(t, TRUE, disk,
           IF disk.root = 0 THEN Ended(x) ELSE [x EXCEPT !.key = disk.root, !.pc = "resumeMarker"])
      /\ UNCHANGED <<server, net, fate, spent>>

ResumeMarker(t) ==
  LET x == tab[t]
  IN  /\ x.pc = "resumeMarker"
      /\ Become(t, At(x, IF x.key = x.config.vault /\ Marked(x.key) THEN "resumeCheck" ELSE "forget"))
      /\ UNCHANGED <<disk, server, net, fate, spent>>

\* The session must be of a vault with the epoch of the key; the vault of another database
\* may have the same.
ResumeCheck(t) ==
  LET x == tab[t]
      own == Live.vault = x.key
  IN  /\ x.pc = "resumeCheck"
      /\ \/ /\ SignedIn /\ Live.mode = "encrypted" /\ (own \/ net.live # disk.origin)
            /\ Become(t, At(x, "unlock"))
         \/ /\ ~(SignedIn /\ Live.mode = "encrypted" /\ own)
            /\ Become(t, At(x, "forget"))
      /\ UNCHANGED <<disk, server, net, fate, spent>>

ForgetRememberedRoot(t) ==
  /\ tab[t].pc = "forget"
  /\ BoundWhen(t, TRUE, [disk EXCEPT !.root = 0], [Ended(tab[t]) EXCEPT !.screen = "login"])
  /\ UNCHANGED <<server, net, fate, spent>>

\* restoreCachedStartup shows what the local store has; a start, and a sign-in the server
\* answered, go on with a sync.
StartApp(t) ==
  LET x == tab[t]
      shown == [Ended(x) EXCEPT !.screen = "app", !.sees = disk.origin]
      offline == x.then = "signIn" /\ x.got = None
  IN  /\ x.pc = "startApp"
      /\ OpenStore(t, TRUE, disk, IF offline THEN shown ELSE Begin(shown, "sync", "page"))
      /\ UNCHANGED <<server, net, fate, spent>>

(***************************************************************************)
(* unlockVaultLocal: local data of another vault is discarded, plaintext   *)
(* is converted store by store, and the marker says how far that is.       *)
(***************************************************************************)
Unlock(t) ==
  LET x == tab[t]
      m == disk.marker
  IN  /\ x.pc = "unlock"
      /\ Become(t, At(x, IF m.value # 0 /\ m.vault \notin {0, x.key} THEN "discard"
                         ELSE IF m.value = 1 THEN "unlocked" ELSE "mark"))
      /\ UNCHANGED <<disk, server, net, fate, spent>>

Keeps(cached, vault) == IF VaultOf(cached) = vault /\ vault # 0 THEN cached ELSE None
Empty(d) ==
  [d EXCEPT !.notes = {}, !.queue = {}, !.srv = [value |-> 0, form |-> 0], !.root = 0]
Drop(why) == {[id |-> o.id, why |-> why] : o \in disk.queue}

\* discardVaultLocalData, with what a sign-in has cached of its own vault.
DiscardVaultLocalData(t) ==
  LET x == [tab[t] EXCEPT !.local = 0]
      keep == IF x.pc = "discard" THEN x.key ELSE 0
      why == IF x.then = "reset" THEN "reset"
             ELSE IF disk.marker # x.saw THEN "raced" ELSE "discard"
  IN  /\ x.pc \in {"discard", "resetDiscard"}
      /\ BoundWhen(t, TRUE,
           [Empty(disk) EXCEPT !.marker = Marker(2, 0),
                               !.boot = Keeps(@, keep), !.wraps = Keeps(@, keep)],
           At(x, IF x.pc = "discard" THEN "mark" ELSE "bootFetch"))
      /\ fate' = IF Fenced(x) THEN [fate EXCEPT !.dropped = @ \cup Drop(why)] ELSE fate
      /\ UNCHANGED <<server, net, spent>>

MarkConversion(t) ==
  LET x == tab[t]
  IN  /\ x.pc = "mark"
      /\ BoundWhen(t, Marked(x.key) \/ disk.marker.value = 0 \/
                      disk.marker \in {Marker(2, 0), Marker(2, x.key)},
           IF Marked(x.key) THEN disk ELSE [disk EXCEPT !.marker = Marker(2, x.key)],
           At(x, IF Marked(x.key) THEN "unlocked" ELSE "convertNotes"))
      /\ UNCHANGED <<server, net, fate, spent>>

Encrypt(record, key) == [record EXCEPT !.form = IF @ = 0 THEN key ELSE @]

\* One store of migrateVaultLocal, or the marker that ends it.
Convert(t) ==
  LET x == tab[t]
      d == CASE x.pc = "convertNotes" -> [disk EXCEPT !.notes = {Encrypt(r, x.key) : r \in @}]
             [] x.pc = "convertQueue" -> [disk EXCEPT !.queue = {Encrypt(r, x.key) : r \in @}]
             [] x.pc = "convertState" -> [disk EXCEPT !.srv = Encrypt(@, x.key)]
             [] x.pc = "converted" -> [disk EXCEPT !.marker = Marker(1, x.key)]
      next == [convertNotes |-> "convertQueue", convertQueue |-> "convertState",
               convertState |-> "converted", converted |-> "unlocked"]
  IN  /\ x.pc \in DOMAIN next
      /\ BoundWhen(t, Marked(x.key) \/ disk.marker = Marker(2, x.key),
           IF Marked(x.key) THEN disk ELSE d, At(x, next[x.pc]))
      /\ UNCHANGED <<server, net, fate, spent>>

\* The last transaction of unlockVaultLocal, and setRoot or the caller's next step.
UnlockVaultLocal(t, remember) ==
  LET x == tab[t]
      y == [x EXCEPT !.local = x.key]
  IN  /\ x.pc = "unlocked"
      /\ remember \/ x.then \in {"migrate", "reset"}
      /\ BoundWhen(t, disk.marker.value = 1 /\ disk.marker.vault \in {0, x.key},
           [disk EXCEPT !.root = IF remember THEN x.key ELSE 0, !.marker = Marker(1, x.key)],
           CASE x.then = "migrate" -> At(y, "commit")
             [] x.then = "reset" -> Fresh
             [] x.then = "start" -> At([y EXCEPT !.root = x.key], "startApp")
             [] x.then = "signIn" ->
                  [y EXCEPT !.root = x.key, !.pc = IF x.got = None THEN "startApp" ELSE "identify"])
      /\ UNCHANGED <<server, net, fate, spent>>

(***************************************************************************)
(* Sign-in                                                                 *)
(***************************************************************************)
SignIn(t) ==
  /\ tab[t].pc = "idle" /\ tab[t].screen = "login" /\ ~Paused(tab[t])
  /\ Left("signIns") /\ Spend("signIns")
  /\ Become(t, Begin(tab[t], "signIn", "bootFetch"))
  /\ UNCHANGED <<disk, server, net, fate>>

\* The proof that the secret the user types makes with the configuration's salt.
ProofFits(x) == Live.mode = "encrypted" /\ Live.vault = x.config.vault /\ Live.gen = x.config.gen

\* POST /api/login, in a sign-in and at the end of a migration; the password of a server
\* without encryption is the user's.
Login(t) ==
  LET x == tab[t]
      ok == IF Encrypted(x) THEN ProofFits(x) ELSE Live.mode # "encrypted"
      y == [x EXCEPT !.got = [x.config EXCEPT !.inst = net.live]]
      next == IF Encrypted(x) THEN At(y, "wrappers")
              ELSE IF x.config.mode = "preparing" THEN Ended(x) ELSE At(y, "identify")
  IN  /\ x.pc = "login"
      /\ IF ok THEN net' = [net EXCEPT !.cookie = net.live] /\ Answered(t, next)
         ELSE Become(t, Ended(x)) /\ UNCHANGED <<net, spent>>
      /\ UNCHANGED <<disk, server, fate>>

\* GET /api/vault/keys; a reset keeps only the keys of the vault it made.
FetchWrappers(t) ==
  LET x == tab[t]
      made == x.then # "reset" \/ (Live.vault = x.key /\ x.config.vault = x.key)
  IN  /\ x.pc = "wrappers"
      /\ Asked(t, IF made THEN [x EXCEPT !.wraps = Wrappers, !.pc = "cacheWraps"] ELSE Ended(x))
      /\ UNCHANGED <<disk, server, net, fate, spent>>

CacheVaultWrappers(t) ==
  LET x == tab[t]
  IN  /\ x.pc = "cacheWraps"
      /\ BoundWhen(t, TRUE, [disk EXCEPT !.wraps = x.wraps],
           CASE x.then = "migrated" -> Fresh
             [] x.then = "changed" -> Ended(x)
             [] OTHER -> Unwrap(x, x.wraps))
      /\ UNCHANGED <<server, net, fate, spent>>

\* lockRevokedSession, when the database is still the one of the local data.
Lock(t) ==
  /\ tab[t].pc = "lock"
  /\ Become(t, [tab[t] EXCEPT !.root = 0, !.local = 0, !.pc = "forget"])
  /\ UNCHANGED <<disk, server, net, fate, spent>>

(***************************************************************************)
(* Sync: the identity with the page of changes, the notes it names, and    *)
(* the edits, each request and each transaction with its own check.        *)
(***************************************************************************)
Sync(t) ==
  /\ tab[t].pc = "idle" /\ tab[t].screen = "app" /\ ~Paused(tab[t])
  /\ Left("syncs") /\ Spend("syncs")
  /\ Become(t, Begin(tab[t], "sync", "page"))
  /\ UNCHANGED <<disk, server, net, fate>>

FetchPage(t) ==
  LET x == tab[t]
      base == IF x.config = None THEN [Bootstrap EXCEPT !.mode = "legacy", !.vault = 0] ELSE x.config
  IN  /\ x.pc = "page"
      /\ Asked(t, [x EXCEPT !.got = [base EXCEPT !.inst = net.live], !.pc = "identify"])
      /\ UNCHANGED <<disk, server, net, fate, spent>>

\* The notes arrive, with the database they are from: their answer does not name it, and
\* another tab may have signed in to another one since the page.
FetchNotes(t) ==
  LET x == tab[t]
  IN  /\ x.pc = "notes"
      /\ Asked(t, IF Agrees(x) THEN [x EXCEPT !.inst = net.live, !.pc = "apply"] ELSE Ended(x))
      /\ UNCHANGED <<disk, server, net, fate, spent>>

ApplyNotes(t) ==
  LET x == tab[t]
  IN  /\ x.pc = "apply"
      /\ OpenStore(t, TRUE,
           [disk EXCEPT !.notes = @ \cup {Note(x.local, x.inst, x.inst # x.got.inst)}], At(x, "claim"))
      /\ UNCHANGED <<server, net, fate, spent>>

ClaimBatch(t) ==
  LET x == tab[t]
      y == [x EXCEPT !.ops = disk.queue]
  IN  /\ x.pc = "claim"
      /\ OpenStore(t, \A o \in disk.queue : o.form = x.local, disk,
           IF disk.queue = {} THEN Ended(x) ELSE At(y, "header"))
      /\ UNCHANGED <<server, net, fate, spent>>

GetInstanceID(t) ==
  /\ tab[t].pc = "header"
  /\ OpenStore(t, TRUE, disk, [tab[t] EXCEPT !.inst = disk.srv.value, !.pc = "send"])
  /\ UNCHANGED <<server, net, fate, spent>>

\* The server takes edits for its own identity, and of its own vault and epoch.
Push(t) ==
  LET x == tab[t]
      ok == x.inst = net.live /\ Live.mode # "preparing" /\ Agrees(x)
      arrived == {[edit |-> o, inst |-> net.live, vault |-> Live.vault] : o \in x.ops}
  IN  /\ x.pc = "send"
      /\ IF SignedIn /\ ok
         THEN fate' = [fate EXCEPT !.pushed = @ \cup arrived] /\ Answered(t, At(x, "acknowledge"))
         ELSE Asked(t, Ended(x)) /\ UNCHANGED <<fate, spent>>
      /\ UNCHANGED <<disk, server, net>>

Acknowledge(t) ==
  LET done == {o.id : o \in tab[t].ops}
  IN  /\ tab[t].pc = "acknowledge"
      /\ OpenStore(t, TRUE, [disk EXCEPT !.queue = {o \in @ : o.id \notin done}], Ended(tab[t]))
      /\ UNCHANGED <<server, net, fate, spent>>

\* saveLocalNoteAndQueue: an edit of the notes this tab shows.
Edit(t) ==
  LET x == tab[t]
      id == spent.edits + 1
      o == [id |-> id, form |-> x.local, inst |-> x.sees, vault |-> x.local]
  IN  /\ x.screen = "app" /\ ~Paused(x)
      /\ x.then \notin {"migrate", "migrated", "reset"}
      /\ Fenced(x) /\ Unlocked(x)
      /\ Left("edits") /\ Spend("edits")
      /\ disk' = [disk EXCEPT !.queue = @ \cup {o},
                              !.notes = @ \cup {Note(x.local, x.sees, FALSE)}]
      /\ Become(t, [x EXCEPT !.bound = Bind(x)])
      /\ UNCHANGED <<server, net, fate>>

(***************************************************************************)
(* Changes of the vault: encrypting a database, starting a new vault, a    *)
(* new credential.                                                         *)
(***************************************************************************)
MayChange(t) == tab[t].pc = "idle" /\ ~Paused(tab[t]) /\ tab[t].config # None /\ Left("changes")
Vaults == {server[d].vault : d \in Databases} \cup {tab[t].key : t \in Tabs} \cup {disk.marker.vault}
NewVault == 1 + CHOOSE v \in Vaults : \A w \in Vaults : w <= v

Migrate(t) ==
  LET x == tab[t]
  IN  /\ MayChange(t) /\ Spend("changes")
      /\ \/ x.config.mode = "legacy" /\ x.screen = "app"
         \/ x.config.mode = "preparing"
      /\ IF x.config.mode = "preparing"
         THEN Become(t, [Begin(x, "migrate", "migrationStart") EXCEPT !.key = x.config.vault])
         ELSE /\ NewVault <= MaxVaults
              /\ Become(t, [Begin(x, "migrate", "migrationStart") EXCEPT !.key = NewVault])
      /\ UNCHANGED <<disk, server, net, fate>>

\* /api/vault/migration/start: the first one makes the vault, a later one must name it.
MigrationStart(t) ==
  LET x == tab[t]
      resumed == x.config.mode = "preparing"
      ok == Live.mode = "legacy" \/ (Live.mode = "preparing" /\ Live.vault = x.key)
  IN  /\ x.pc = "migrationStart"
      /\ IF SignedIn /\ ok
         THEN /\ server' = [server EXCEPT ![net.live].mode = "preparing", ![net.live].vault = x.key]
              /\ Answered(t, At(x, IF resumed THEN "stage" ELSE "bootFetch"))
         ELSE Asked(t, Ended(x)) /\ UNCHANGED <<server, spent>>
      /\ UNCHANGED <<disk, net, fate>>

\* The note that is left is read, encrypted and staged, then read back and verified.
StageNote(t) ==
  LET x == tab[t]
      ok == Live.mode = "preparing"
  IN  /\ x.pc = "stage"
      /\ IF SignedIn /\ ok /\ Live.staged # "verified"
         THEN /\ server' = [server EXCEPT ![net.live].staged = "staged"]
              /\ Become(t, At(x, "verify"))
         ELSE Asked(t, IF ok THEN At(x, "unlock") ELSE Ended(x)) /\ UNCHANGED server
      /\ UNCHANGED <<disk, net, fate, spent>>

VerifyNote(t) ==
  LET x == tab[t]
  IN  /\ x.pc = "verify"
      /\ IF SignedIn /\ Live.mode = "preparing" /\ Live.staged # "none"
         THEN /\ server' = [server EXCEPT ![net.live].staged = "verified"]
              /\ Become(t, At(x, "stage"))
         ELSE Asked(t, Ended(x)) /\ UNCHANGED server
      /\ UNCHANGED <<disk, net, fate, spent>>

\* The commit makes the encrypted notes the only ones, and ends every session.
CommitMigration(t) ==
  LET x == tab[t]
  IN  /\ x.pc = "commit"
      /\ IF SignedIn /\ Live.mode = "preparing" /\ Live.staged = "verified"
         THEN /\ server' = [server EXCEPT ![net.live].mode = "encrypted"]
              /\ net' = [net EXCEPT !.cookie = 0]
              /\ Answered(t, Begin(x, "migrated", "bootFetch"))
         ELSE Asked(t, Ended(x)) /\ UNCHANGED <<server, net, spent>>
      /\ UNCHANGED <<disk, fate>>

Reset(t) ==
  /\ MayChange(t) /\ Spend("changes")
  /\ Encrypted(tab[t]) /\ NewVault <= MaxVaults
  /\ Become(t, [Begin(tab[t], "reset", "resetPost") EXCEPT !.key = NewVault])
  /\ UNCHANGED <<disk, server, net, fate>>

\* /api/vault/reset: a new vault, with no notes, and a session for the one who asked.
PostReset(t) ==
  LET x == tab[t]
  IN  /\ x.pc = "resetPost"
      /\ IF Live.mode = "encrypted"
         THEN /\ server' = [server EXCEPT ![net.live].vault = x.key, ![net.live].gen = 1]
              /\ net' = [net EXCEPT !.cookie = net.live]
              /\ Answered(t, At(x, "resetDiscard"))
         ELSE Become(t, Ended(x)) /\ UNCHANGED <<server, net, spent>>
      /\ UNCHANGED <<disk, fate>>

ChangeCredential(t) ==
  /\ MayChange(t) /\ Spend("changes")
  /\ Encrypted(tab[t]) /\ tab[t].root # 0
  /\ Become(t, Begin(tab[t], "change", "credential"))
  /\ UNCHANGED <<disk, server, net, fate>>

\* The current secret still opens the key this tab has; the server takes its proof, and
\* the sign-in with the new one renews what is cached.
PostCredential(t) ==
  LET x == tab[t]
  IN  /\ x.pc = "credential"
      /\ IF SignedIn /\ ProofFits(x) /\ Live.vault = x.root
         THEN /\ server' = [server EXCEPT ![net.live].gen = @ + 1]
              /\ Answered(t, Begin(x, "changed", "bootFetch"))
         ELSE Asked(t, Ended(x)) /\ UNCHANGED <<server, spent>>
      /\ UNCHANGED <<disk, net, fate>>

(***************************************************************************)
(* The user gives up the local data for the database in service.           *)
(***************************************************************************)
ConfirmSwitch(t) ==
  /\ tab[t].pc = "idle" /\ Paused(tab[t])
  /\ Left("changes") /\ Spend("changes")
  /\ Become(t, Begin(tab[t], "switch", "switchFetch"))
  /\ UNCHANGED <<disk, server, net, fate>>

\* fetchBootstrap, before and after the session is ended: the database must stay the one
\* that was shown.
SwitchFetch(t) ==
  LET x == tab[t]
      shown == IF x.pc = "switchFetch" THEN x.target.inst ELSE x.got.inst
      next == CASE net.live # shown -> "identify"
                [] x.pc = "switchFetch" -> "logout"
                [] OTHER -> "switch"
  IN  /\ x.pc \in {"switchFetch", "switchVerify"}
      /\ Become(t, [x EXCEPT !.got = Bootstrap, !.pc = next])
      /\ UNCHANGED <<disk, server, net, fate, spent>>

EndSession(t) ==
  /\ tab[t].pc = "logout"
  /\ net' = [net EXCEPT !.cookie = 0]
  /\ Answered(t, At(tab[t], "switchVerify"))
  /\ UNCHANGED <<disk, server, fate>>

\* offlineStore.switchDataset: unless another tab has made this switch, every store is
\* cleared at once; the other tabs are told to reload.  (raced: a switch to another
\* vault of the same database, to which another tab has moved the local data meanwhile.)
SwitchDataset(t) ==
  LET x == tab[t]
      own == {o \in disk.queue : o.inst = x.got.inst /\ o.vault = x.got.vault}
      why == IF own = {} THEN "switch" ELSE IF x.bound = x.got.inst THEN "raced" ELSE "unasked"
      made == disk.identity = x.got.inst /\ x.bound # x.got.inst
      d == [Empty(disk) EXCEPT
              !.identity = x.got.inst, !.initial = FALSE, !.origin = x.got.inst,
              !.srv = [value |-> x.got.inst, form |-> 0], !.marker = Marker(0, 0),
              !.boot = x.got, !.wraps = None, !.late = @ \/ x.told]
  IN  /\ x.pc = "switch"
      /\ IF made \/ Fenced(x)
         THEN /\ disk' = IF made THEN disk ELSE d
              /\ tab' = [u \in Tabs |-> IF u = t THEN Fresh ELSE [tab[u] EXCEPT !.told = TRUE]]
              /\ fate' = IF made THEN fate
                         ELSE [fate EXCEPT !.dropped = @ \cup Drop(why)]
         ELSE Become(t, Ended(x)) /\ UNCHANGED <<disk, fate>>
      /\ UNCHANGED <<server, net, spent>>

\* dataset-switched arrives.
Told(t) ==
  /\ tab[t].told
  /\ Become(t, Fresh)
  /\ UNCHANGED <<disk, server, net, fate, spent>>

\* dataset-changed and session-locked: a tab that hears of it asks the server itself.
VerifyPeer(t) ==
  /\ tab[t].pc = "idle" /\ ~Paused(tab[t])
  /\ \E u \in Tabs \ {t} : Paused(tab[u])
  /\ Left("syncs") /\ Spend("syncs")
  /\ Become(t, Begin(tab[t], "peer", "bootFetch"))
  /\ UNCHANGED <<disk, server, net, fate>>

(***************************************************************************)
(* The world around the browser                                            *)
(***************************************************************************)

\* A tab is closed or crashes, and is opened again; no transaction is left half done.
Reload(t) ==
  /\ Left("faults") /\ Spend("faults")
  /\ Become(t, Fresh)
  /\ UNCHANGED <<disk, server, net, fate>>

\* The server is stopped and started with its other database.
SwapDatabase ==
  /\ Left("elsewhere") /\ Spend("elsewhere")
  /\ net' = [net EXCEPT !.live = 3 - @]
  /\ UNCHANGED <<disk, tab, server, fate>>

\* Another device encrypts the notes, starts a new vault, or changes the credential.
ChangedElsewhere ==
  /\ Left("elsewhere") /\ Spend("elsewhere")
  /\ NewVault <= MaxVaults
  /\ \/ Live.mode = "legacy" /\ server' = [server EXCEPT ![net.live] =
          [mode |-> "encrypted", vault |-> NewVault, gen |-> 1, staged |-> "verified"]]
     \/ Live.mode = "encrypted" /\ server' = [server EXCEPT ![net.live].vault = NewVault, ![net.live].gen = 1]
     \/ Live.mode = "encrypted" /\ server' = [server EXCEPT ![net.live].gen = @ + 1]
  /\ net' = [net EXCEPT !.cookie = IF SignedIn THEN 0 ELSE @]
  /\ UNCHANGED <<disk, tab, fate>>

(***************************************************************************)
(* Specification                                                           *)
(***************************************************************************)
Legacy == [mode |-> "legacy", vault |-> 0, gen |-> 1, staged |-> "none"]
EncryptedWith(v) == [mode |-> "encrypted", vault |-> v, gen |-> 1, staged |-> "verified"]

NoData == [identity |-> 0, initial |-> FALSE, origin |-> 0, srv |-> [value |-> 0, form |-> 0],
           marker |-> Marker(0, 0), boot |-> None, wraps |-> None, root |-> 0,
           notes |-> {}, queue |-> {}, late |-> FALSE]
\* What an app without vaults left, and what one with vault v did.
LegacyData == [NoData EXCEPT !.origin = 1, !.srv = [value |-> 1, form |-> 0],
                             !.notes = {Note(0, 1, FALSE)}]
VaultData(v) ==
  [NoData EXCEPT !.identity = 1, !.initial = TRUE, !.origin = 1,
                 !.srv = [value |-> 1, form |-> v], !.marker = Marker(1, v), !.root = v,
                 !.boot = [mode |-> "encrypted", vault |-> v, gen |-> 1, inst |-> 1],
                 !.wraps = [vault |-> v, gen |-> 1], !.notes = {Note(v, 1, FALSE)}]

\* Either database may be plaintext; a browser has the session of the data it keeps.
Init ==
  /\ server \in {<<first, second>> : first \in {Legacy, EncryptedWith(1)},
                                     second \in {Legacy, EncryptedWith(2)}}
  /\ disk \in IF server[1] = Legacy THEN {NoData, LegacyData} ELSE {VaultData(1)}
  /\ tab = [t \in Tabs |-> Fresh]
  /\ net = [live |-> 1, cookie |-> IF disk = NoData THEN 0 ELSE 1]
  /\ fate = [pushed |-> {}, dropped |-> {}]
  /\ spent = [b \in DOMAIN Budget \ {"all"} |-> 0]

Step(t) ==
  \/ FetchBootstrap(t) \/ Inspect(t) \/ CacheVaultBootstrap(t) \/ CheckServerIdentity(t)
  \/ ResumeRemembered(t) \/ ResumeMarker(t) \/ ResumeCheck(t) \/ ForgetRememberedRoot(t) \/ StartApp(t)
  \/ Unlock(t) \/ DiscardVaultLocalData(t) \/ MarkConversion(t) \/ Convert(t)
  \/ \E remember \in BOOLEAN : UnlockVaultLocal(t, remember)
  \/ Login(t) \/ FetchWrappers(t) \/ CacheVaultWrappers(t) \/ Lock(t)
  \/ FetchPage(t) \/ FetchNotes(t) \/ ApplyNotes(t) \/ ClaimBatch(t) \/ GetInstanceID(t)
  \/ Push(t) \/ Acknowledge(t)
  \/ MigrationStart(t) \/ StageNote(t) \/ VerifyNote(t) \/ CommitMigration(t)
  \/ PostReset(t) \/ PostCredential(t)
  \/ SwitchFetch(t) \/ EndSession(t) \/ SwitchDataset(t)

Next ==
  \/ \E t \in Tabs :
       \/ Step(t) \/ NoAnswer(t) \/ Told(t) \/ VerifyPeer(t) \/ Reload(t) \/ Edit(t)
       \/ SignIn(t) \/ Sync(t) \/ Migrate(t) \/ Reset(t) \/ ChangeCredential(t) \/ ConfirmSwitch(t)
  \/ SwapDatabase \/ ChangedElsewhere

Spec == Init /\ [][Next]_vars

(***************************************************************************)
(* Properties                                                              *)
(***************************************************************************)

\* The format marker tells what the local records are: a tab that waited through another
\* tab's conversion, discard or switch has written none in the old form.
LocalVaultConsistent ==
  LET forms == {r.form : r \in disk.notes} \cup {o.form : o \in disk.queue} \cup
               (IF disk.srv.value = 0 THEN {} ELSE {disk.srv.form})
  IN  ~disk.late =>
      CASE disk.marker.value = 2 -> forms \subseteq {0, disk.marker.vault}
        [] disk.marker.value = 1 -> forms \subseteq {disk.marker.vault}
        [] OTHER -> forms \subseteq {0}

\* Notes and edits of one database stay with it: the local store never holds those of
\* two, and an edit reaches no other database, and no vault but the one it was made in
\* (an edit made in plaintext goes with its notes when they are encrypted).  The exception
\* is a sync in whose midst the server was restarted with another database and another tab
\* signed in to it: the notes it asks for are then the other database's.
DatasetsStayApart ==
  /\ \A r \in disk.notes : r.inst \in {0, disk.origin} \/ r.crossed
  /\ \A o \in disk.queue : o.inst \in {0, disk.origin}
  /\ \A p \in fate.pushed : p.edit.inst \in {0, p.inst} /\ p.edit.vault \in {0, p.vault}

\* An edit is queued, or a database has it, or the user gave up the data it belonged to:
\* no sign-in, conversion or restart drops it by itself, and a switch from another database
\* drops no edit of the vault it switches to.  ("raced": another tab changed the local vault
\* after this one's bootstrap had compared it.)
EditsKept ==
  \A i \in 1 .. spent.edits :
    \/ \E o \in disk.queue : o.id = i
    \/ \E p \in fate.pushed : p.edit.id = i
    \/ \E d \in fate.dropped : d.id = i /\ d.why \notin {"discard", "unasked"}
=============================================================================
