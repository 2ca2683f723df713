------------------------------ MODULE MCClient ------------------------------
(***************************************************************************)
(* The client components that share no state, in one run: each behaviour   *)
(* is a behaviour of one of them, the others stay where they began.        *)
(***************************************************************************)
EXTENDS VaultSetup, Sequences, TLC

CONSTANTS
  Lines, MaxLines, Titles, MaxDiffCells, Refused, l1, l2, l3,   \* TextMerge
  Notes, NewNotes, MaxTasks,                                    \* Navigation
  Tabs, MaxVaults,                                              \* VaultClient
  Pages, MaxRevision, MaxDeploys,                               \* AppUpdate
  Names, MaxHistory,                                            \* Preview
  Devices, Plain, Nested, Values, Default, v1, v2,              \* Preferences
  MaxChanges, MaxLoads, MaxDocument

VARIABLES
  active,                                   \* the component this behaviour is about
  versions, merged,                         \* TextMerge
  page, tasks, saver, store, lost, used,    \* Navigation
  disk, tab, server, net, fate, spent,      \* VaultClient
  site, caches, worker, jobs, views, gaps,  \* AppUpdate
  editor, preview, edit, uses,              \* Preview
  document, device, author, blind, edited   \* Preferences

\* What the preview may have or lack: a text, a request, an answer to it, slices of ranges to
\* set, and a drag with a target.
Item    == [name : Names, done : BOOLEAN]
Text    == Seq(Item)
Hows    == {"blocks", "long", "chunks", "html", "fallback"}
Asked   == [text : Text, at : {"frame", "worker"}]
Got     == [text : Text \cup {None}, how : Hows, fresh : BOOLEAN]
Slices  == [text : Text, next : Nat \ {0}]
Target  == [to : Nat, after : BOOLEAN, name : Names]
Dragged == [from : Nat, name : Names, armed : BOOLEAN, target : {None} \cup Target]

\* None stands for no number, no name, no text and no record; a setting is a field of its own
\* or an entry of the map.
ASSUME ClientAssumption ==
  /\ MaxRevision \in Nat \ {0}
  /\ None \notin Nat /\ None \notin {"applied", "conflict"}
  /\ None \notin [step : {"remove"}]
  /\ None \notin Text \cup Asked \cup Got \cup Slices \cup Dragged \cup Target
  /\ Plain \cap Nested = {}

\* A note made here is none of those the device held or could fetch.
ASSUME NavigationAssumption == None \notin Notes \cup NewNotes /\ Notes \cap NewNotes = {}

\* The vaults of the two databases have numbers, and None stands for no configuration.
ASSUME VaultAssumption ==
  /\ MaxVaults \in Nat \ {0, 1}
  /\ None \notin [mode : {"legacy", "preparing", "encrypted"}, vault : Nat, gen : Nat, inst : Nat]

NavigationBudget ==
  [moves |-> 2, opens |-> 1, types |-> 2, news |-> 1, faults |-> 1, all |-> 4]

VaultBudget ==
  [edits |-> 1, faults |-> 1, signIns |-> 2, changes |-> 1, elsewhere |-> 1, syncs |-> 1, all |-> 3]

PreviewBudget ==
  [types |-> 2, adopts |-> 1, opens |-> 1, panels |-> 1, edits |-> 2, faults |-> 1, all |-> 3]

\* VaultSetup is extended, and its property holds of the other components too, where its
\* variables are None.
T == INSTANCE TextMerge
N == INSTANCE Navigation WITH Budget <- NavigationBudget
V == INSTANCE VaultClient WITH Budget <- VaultBudget
U == INSTANCE AppUpdate
P == INSTANCE Preview WITH Budget <- PreviewBudget
S == INSTANCE Preferences WITH MaxEdits <- MaxChanges, MaxRevision <- MaxDocument

mergeVars == <<versions, merged>>
navigationVars == <<page, tasks, saver, store, lost, used>>
vaultVars == <<disk, tab, server, net, fate, spent>>
updateVars == <<site, caches, worker, jobs, views, gaps>>
previewVars == <<editor, preview, edit, uses>>
preferenceVars == <<document, device, author, blind, edited>>
vars == <<active, mergeVars, navigationVars, vaultVars, setupVars, updateVars, previewVars,
          preferenceVars>>

\* Each of these sets has two elements. A behaviour sees those of one component, so that they
\* may all be swapped together, which keeps the group small.
Actors == Tabs \cup Phrases \cup Names \cup Devices
Swap(two) == [x \in two |-> CHOOSE y \in two : y # x]
Swapped == Swap(Tabs) @@ Swap(Phrases) @@ Swap(Names) @@ Swap(Devices)
Symmetry == {f @@ g : f \in {Swapped, [x \in Actors |-> x]}, g \in Permutations(Nested)}

ClientInit ==
  /\ active \in {"merge", "navigation", "vault", "setup", "update", "preview", "preferences"}
  /\ IF active = "merge" THEN T!Init ELSE versions = None /\ merged = None
  /\ IF active = "navigation" THEN N!Init
     ELSE /\ page = None /\ tasks = None /\ saver = None
          /\ store = None /\ lost = None /\ used = None
  /\ IF active = "vault" THEN V!Init
     ELSE /\ disk = None /\ tab = None /\ server = None
          /\ net = None /\ fate = None /\ spent = None
  /\ IF active = "setup" THEN Init
     ELSE /\ dialog = None /\ opens = None /\ keys = None /\ working = None
          /\ busy = None /\ vault = None /\ call = None /\ edits = None
  /\ IF active = "update" THEN U!Init
     ELSE /\ site = None /\ caches = None /\ worker = None
          /\ jobs = None /\ views = None /\ gaps = None
  /\ IF active = "preview" THEN P!Init
     ELSE editor = None /\ preview = None /\ edit = None /\ uses = None
  /\ IF active = "preferences" THEN S!Init
     ELSE /\ document = None /\ device = None /\ author = None
          /\ blind = None /\ edited = None

ClientNext ==
  /\ UNCHANGED active
  /\ \/ /\ active = "merge" /\ T!Next
        /\ UNCHANGED <<navigationVars, vaultVars, setupVars, updateVars,
                       previewVars, preferenceVars>>
     \/ /\ active = "navigation" /\ N!Next
        /\ UNCHANGED <<mergeVars, vaultVars, setupVars, updateVars,
                       previewVars, preferenceVars>>
     \/ /\ active = "vault" /\ V!Next
        /\ UNCHANGED <<mergeVars, navigationVars, setupVars, updateVars,
                       previewVars, preferenceVars>>
     \/ /\ active = "setup" /\ Next
        /\ UNCHANGED <<mergeVars, navigationVars, vaultVars, updateVars,
                       previewVars, preferenceVars>>
     \/ /\ active = "update" /\ U!Next
        /\ UNCHANGED <<mergeVars, navigationVars, vaultVars, setupVars,
                       previewVars, preferenceVars>>
     \/ /\ active = "preview" /\ P!Next
        /\ UNCHANGED <<mergeVars, navigationVars, vaultVars, setupVars,
                       updateVars, preferenceVars>>
     \/ /\ active = "preferences" /\ S!Next
        /\ UNCHANGED <<mergeVars, navigationVars, vaultVars, setupVars,
                       updateVars, previewVars>>

ClientSpec == ClientInit /\ [][ClientNext]_vars

\* A successful merge is what each side gets by making the other's changes to its own
\* text (editor/merge.js).
MergeAppliesBoth == active = "merge" => T!MergeAppliesBoth

\* When every navigation has ended, the screen shows what the address names
\* (ui/navigation-controller.js).
ScreenFollowsRoute == active = "navigation" => N!ScreenFollowsRoute

\* Text the user typed is saved, still in the editor, or lost in a way that is listed: its
\* save failed and said so, it came while a navigation was under way, or the address of the
\* preferences put up the dashboard over it, with no look at the editor
\* (editor/note-saver.js, ui/navigation-controller.js).
TypedTextIsSaved == active = "navigation" => N!TypedTextIsSaved

\* The local store's marker tells the form of its records (core/offline-store.js).
LocalVaultConsistent == active = "vault" => V!LocalVaultConsistent

\* The notes and edits of two databases are mixed only where one sync got its page and its
\* notes from different ones (ui/dataset-switch.js, core/offline-store.js).
DatasetsStayApart == active = "vault" => V!DatasetsStayApart

\* An edit goes to its database or is given up by the user (core/vault-session.js).
EditsKept == active = "vault" => V!EditsKept

\* The service worker serves the files of one build, all of them (sw.js).
ShellIsWhole == active = "update" => U!ShellIsWhole

\* A preview at rest shows the editor's text (editor/preview-renderer.js).
PreviewShowsSource == active = "preview" => P!PreviewShowsSource

\* An edit through the preview changes the item it was made on
\* (editor/interactive-preview-session.js).
EditsHitWhatIsShown == active = "preview" => P!EditsHitWhatIsShown

\* A patch of the preferences undoes another device's change, unseen, only if an
\* acknowledgement had taken its browser past a change (sync/acknowledgements.js).
NoBlindOverwrite == active = "preferences" => S!NoBlindOverwrite

\* What a user chose last is on its way, in force, or gave way to another device's choice
\* (sync/preference-conflicts.js).
ChoicesAccounted == active = "preferences" => S!ChoicesAccounted
=============================================================================
