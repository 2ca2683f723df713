----------------------------- MODULE Navigation -----------------------------
(***************************************************************************)
(* The screens of one tab and the browser's history                        *)
(* (ui/navigation-controller.js, core/routes.js, and the note saver and    *)
(* editor session they use).  Navigations are asynchronous tasks that      *)
(* overlap: each one started by the router carries a generation, and only  *)
(* the latest may still change the screen.                                 *)
(***************************************************************************)
EXTENDS Integers, Sequences, FiniteSets

CONSTANTS
  Notes,        \* notes a device may hold or fetch
  NewNotes,     \* identities for notes made here
  None,
  MaxTasks,     \* bound: navigations under way at once
  Budget        \* bounds: [moves, opens, types, news, faults], and their sum [all]

VARIABLES
  page,         \* history, screen and editor of the tab
  tasks,        \* the navigations under way
  saver,        \* the note saver: one save at a time, shared by its callers
  store,        \* local notes: the text of each, None when it is not on the device
  lost,         \* unsaved text whose editor session was replaced
  used          \* what the behaviour has spent of Budget

vars == <<page, tasks, saver, store, lost, used>>

Slots == 1 .. MaxTasks
Nothing == -1   \* the saved text of a new note: its first save always has something to save
AllNotes == Notes \cup NewNotes

Entry(screen, note) == [screen |-> screen, note |-> note]
DashboardEntry == Entry("dashboard", None)

Idle == [pc |-> "idle", gen |-> 0, note |-> None, route |-> "none", after |-> "idle",
         ok |-> TRUE, leaving |-> FALSE, fetch |-> FALSE, popped |-> FALSE, prefs |-> FALSE]
Rested == [busy |-> FALSE, again |-> FALSE, note |-> None, session |-> 0, text |-> 0]

\* What the bounds leave of a kind of event.
Left(what) ==
  /\ used[what] < Budget[what]
  /\ used.moves + used.opens + used.types + used.news + used.faults < Budget.all

(***************************************************************************)
(* Routes: the history entry in force, and the three ways to set it.       *)
(***************************************************************************)
Here(p) == p.stack[p.at]
URLNote(p) == IF Here(p).screen = "note" THEN Here(p).note ELSE None

Push(p, e) == [p EXCEPT !.stack = Append(SubSeq(@, 1, p.at), e), !.at = @ + 1]
Replace(p, e) == [p EXCEPT !.stack[p.at] = e]

\* setNote, setDashboard: an address already in place is kept.
SetRoute(p, e, replace) ==
  IF Here(p) = e THEN p ELSE IF replace THEN Replace(p, e) ELSE Push(p, e)

\* setPreferences remembers where it was opened from.
SetPreferences(p, replace) ==
  IF Here(p).screen = "preferences" THEN p
  ELSE IF replace THEN Replace(p, Entry("preferences", Here(p).note))
  ELSE Push(p, Entry("preferences", Here(p).note))

(***************************************************************************)
(* Screens.  Every change of the editor's session drops what it held.      *)
(***************************************************************************)
Unsaved(p) == p.dirty /\ p.current # None /\ p.text # store[p.current]

\* The unsaved edit a replaced session takes with it, when the page p becomes q.  It is
\* passed by when a restore of the preferences puts up the dashboard, which it does with
\* no look at the editor.
Dropped(p, q, prefs) ==
  IF p.session = q.session \/ ~Unsaved(p) THEN {}
  ELSE {[note |-> p.current, failed |-> p.failed, late |-> p.late,
         passed |-> prefs /\ q.screen = "dashboard"]}

Session(p, note, text) ==
  [p EXCEPT !.session = @ + 1, !.current = note, !.text = text, !.saved = text,
            !.dirty = FALSE, !.failed = FALSE, !.late = FALSE]

\* showNoteInEditor
Shown(p, note, text) == [Session(p, note, text) EXCEPT !.screen = "editor"]
\* startNewNote; readEditor gives a note without a title one, so the first save writes it.
StartNewNote(p, note) == [Shown(p, note, 0) EXCEPT !.saved = Nothing]
\* clearCurrentNote leaves the text in the editor's fields.
Cleared(p) == Session(p, None, p.text)
\* loadDashboard
Dashboard(p) == [p EXCEPT !.screen = "dashboard"]

Editing(p) == p.screen = "editor"

(***************************************************************************)
(* The note saver: save() joins a save under way and asks for one round    *)
(* more, so what its caller sees is saved when the promise resolves.       *)
(***************************************************************************)
Snapshot(p, again) ==
  [busy |-> TRUE, again |-> again, note |-> p.current, session |-> p.session, text |-> p.text]

\* Mutated: a caller that finds a save under way only waits for it.
Save_Joined(p) == IF saver.busy THEN saver ELSE Snapshot(p, FALSE)
\* The saver after a call of save(false).
Save(p) == IF saver.busy THEN [saver EXCEPT !.again = TRUE] ELSE Snapshot(p, FALSE)

SnapshotIsCurrent ==
  page.session = saver.session /\ page.current = saver.note /\ page.text = saver.text

RestoreUnderWay == \E i \in Slots : tasks[i].gen = page.generation

\* finishPersist: the address follows a new note unless a popstate's restore is under way.
Persisted(p) ==
  LET clean == [p EXCEPT !.dirty = FALSE, !.saved = p.text, !.failed = FALSE, !.late = FALSE]
      q == IF p.prefsOpen \/ p.restoring # RestoreUnderWay
           THEN [clean EXCEPT !.gaps = @ \cup {"late save"}] ELSE clean
  IN  IF URLNote(p) = p.current THEN clean
      ELSE IF p.restoring THEN q
      ELSE SetRoute(q, Entry("note", p.current), FALSE)

\* One round of the save loop ends; the last round's result goes to every caller.
SaveRound(ok) ==
  LET unchanged == SnapshotIsCurrent /\ saver.text = page.saved
      p == IF unchanged THEN [page EXCEPT !.dirty = FALSE]
           ELSE IF ~SnapshotIsCurrent THEN page
           ELSE IF ok THEN Persisted(page)
           ELSE [page EXCEPT !.failed = TRUE]
  IN  /\ saver.busy
      /\ ok \/ (~unchanged /\ Left("faults"))
      /\ page' = p
      /\ store' = [n \in AllNotes |->
           IF ok /\ ~unchanged /\ n = saver.note THEN saver.text ELSE store[n]]
      /\ used' = IF ok THEN used ELSE [used EXCEPT !.faults = @ + 1]
      /\ IF saver.again
         THEN saver' = Snapshot(p, FALSE) /\ UNCHANGED tasks
         ELSE /\ saver' = Rested
              /\ tasks' = [i \in Slots |->
                   IF tasks[i].pc # "saving" THEN tasks[i]
                   ELSE IF tasks[i].after = "idle" THEN Idle
                   ELSE [tasks[i] EXCEPT !.pc = tasks[i].after, !.ok = ok]]
      /\ UNCHANGED lost

(***************************************************************************)
(* What a navigation does up to its next await: its task, the page, and    *)
(* whether it called the note saver.                                       *)
(***************************************************************************)
Out(t, p, save) == [t |-> t, p |-> p, save |-> save]
End(p) == Out(Idle, p, FALSE)
At(t, pc, p) == Out([t EXCEPT !.pc = pc], p, FALSE)
Saving(t, after, p) == Out([t EXCEPT !.pc = "saving", !.after = after], p, TRUE)
Gap(p, gap) == [p EXCEPT !.gaps = @ \cup {gap}]

\* What ends beside a restore that still runs: opening the preferences and the shortcut
\* overtake none, and a click does not overtake one begun after it.
Beside(p) == IF RestoreUnderWay THEN Gap(p, "beside a restore") ELSE p

\* Mutated: a restore that was overtaken goes on.
Current_Always(t, p) == TRUE
\* isCurrent: clicks on a note carry no generation and are always current.
Current(t, p) == t.gen = 0 \/ t.gen = p.generation

\* openNote: every opening but a restore's overtakes the restore under way.
OpenNote(t, p) ==
  LET q == [p EXCEPT !.generation = @ + (IF t.route = "none" THEN 0 ELSE 1), !.timer = FALSE]
  IN  IF Editing(p) /\ p.current # t.note /\ (p.dirty \/ saver.busy)
      THEN Saving(t, "opened", q)
      ELSE At(t, "openRead", q)

OpenSaved(t, p) ==
  IF ~t.ok \/ ~Current(t, p) THEN End(IF t.ok THEN p ELSE Gap(p, "save failed"))
  ELSE At(t, "openRead", p)

\* The note was read; a restore for the preferences opens them over it.
OpenRead(t, p) ==
  IF store[t.note] = None \/ ~Current(t, p) THEN End(p)
  ELSE LET q == Shown(p, t.note, store[t.note])
           r == IF t.route = "none" THEN q
                ELSE SetRoute(q, Entry("note", t.note), t.route = "replace")
       IN  End(IF t.prefs THEN [r EXCEPT !.prefsOpen = TRUE]
               ELSE IF t.gen = 0 /\ RestoreUnderWay THEN Beside(r)
               ELSE IF r.prefsOpen THEN Gap(r, "under preferences")
               ELSE r)

\* restoreRoute when the note of the route cannot be had.
Missing(t, p) ==
  IF ~Current(t, p) THEN End(p)
  ELSE LET q == IF t.note = None THEN p ELSE SetRoute(p, DashboardEntry, TRUE)
           shown == Dashboard(Cleared(q))
           r == IF shown.prefsOpen THEN Gap(shown, "under preferences") ELSE shown
       IN  IF t.prefs /\ t.note = None THEN At(t, "prefsDashboard", r) ELSE End(r)

PrefsDashboard(t, p) ==
  End(IF Current(t, p) THEN [p EXCEPT !.prefsOpen = TRUE] ELSE p)

\* restoreNote
RestoreNote(t, p) == IF t.note = None THEN Missing(t, p) ELSE At(t, "readLocal", p)

ReadLocal(t, p) ==
  IF ~Current(t, p) THEN End(p)
  ELSE IF store[t.note] # None THEN OpenNote([t EXCEPT !.route = "none"], p)
  ELSE IF t.fetch THEN At(t, "fetch", p)
  ELSE Missing(t, p)

\* restoreRoute for the preferences: the screen they were opened over comes first.
RestorePreferences(t, p) ==
  IF \/ t.note # None /\ p.current = t.note /\ Editing(p)
     \/ t.note = None /\ p.screen = "dashboard"
  THEN End([p EXCEPT !.prefsOpen = TRUE])
  ELSE RestoreNote(t, p)

\* restoreRoute for a note or the dashboard, after the save it may have waited for.
RestoreScreen(t, p) ==
  IF ~Current(t, p) THEN End(p)
  ELSE LET q == IF t.leaving THEN [p EXCEPT !.prefsOpen = FALSE] ELSE p
       IN  IF \/ t.note # None /\ Here(p).screen = "note" /\ p.current = t.note /\ Editing(p)
              \/ t.note = None /\ p.screen = "dashboard"
           THEN End(q)
           ELSE RestoreNote(t, q)

\* A route that cannot be left, its note unsaved, is put back to the preferences.
BackToPreferences(p) == End([SetPreferences(p, TRUE) EXCEPT !.prefsOpen = TRUE])

RestoreSaved(t, p) ==
  IF t.after = "restoreSaved" THEN RestoreScreen(t, p)
  ELSE IF ~Current(t, p) THEN End(p)
  ELSE IF ~t.ok THEN BackToPreferences(p)
  ELSE IF t.prefs THEN RestorePreferences(t, p)
  ELSE RestoreScreen(t, p)

\* restoreRoute up to its first await.  For the preferences it saves the note they were
\* opened over and has no look at any other note in the editor.
RestoreRoute(p, fetch, popped) ==
  LET q == [p EXCEPT !.generation = @ + 1]
      prefs == Here(p).screen = "preferences"
      t == [Idle EXCEPT !.gen = q.generation, !.note = Here(p).note, !.prefs = prefs,
                        !.leaving = ~prefs /\ p.prefsOpen, !.fetch = fetch, !.popped = popped]
      same == t.note # None /\ p.current = t.note /\ p.dirty
  IN  IF (prefs \/ t.leaving) /\ same THEN Saving(t, "leaveSaved", q)
      ELSE IF prefs THEN RestorePreferences(t, q)
      ELSE IF Editing(p) /\ p.dirty THEN Saving(t, "restoreSaved", q)
      ELSE RestoreScreen(t, q)

\* restoreCachedStartup
StartRead(t, p) ==
  IF ~Current(t, p) THEN End(p)
  ELSE IF store[t.note] # None THEN OpenNote(t, p)
  ELSE At(t, "startList", p)

\* The list of notes was read: the dashboard is shown with no look at the generation.
StartList(t, p) == End(IF Current(t, p) THEN Dashboard(p) ELSE Gap(Dashboard(p), "late startup"))

\* The Back button after its save, whose result is not looked at.
BackSaved(t, p) ==
  LET q == Cleared(p)
  IN  IF Here(p).screen = "note" THEN At(t, "backWait", [q EXCEPT !.travel = @ + 1])
      ELSE At(t, "backDone", Dashboard(q))

\* The address is set after another await, with no look at what came meanwhile.
BackDone(t, p) ==
  End(SetRoute(IF p.prefsOpen \/ Editing(p) \/ RestoreUnderWay THEN Gap(p, "late back") ELSE p,
               DashboardEntry, TRUE))

\* Preferences opened from a screen whose text had to be saved first.
PrefsSaved(t, p) ==
  End(IF t.ok THEN Beside([SetPreferences(p, FALSE) EXCEPT !.prefsOpen = TRUE]) ELSE p)

\* A new note made by the shortcut after the save.
NewSaved(t, p) == End(IF t.ok THEN Beside(StartNewNote(p, t.note)) ELSE p)

\* A followed link: an existing note is opened in place, another is made and saved.
WikiSaved(t, p) ==
  IF store[t.note] # None THEN OpenNote([t EXCEPT !.route = "replace"], p)
  ELSE Saving(t, "idle", Beside(StartNewNote(p, t.note)))

(***************************************************************************)
(* The tasks                                                               *)
(***************************************************************************)

\* Slot i goes on to the outcome o; a restore that a popstate began ends by waking the
\* Back button that waits for it.
Apply(i, o) ==
  LET woken == {j \in Slots : tasks[j].pc = "backWait"}
      popped == o.t.pc = "idle" /\ tasks[i].popped
  IN  /\ tasks' = [j \in Slots |->
                     IF j = i THEN o.t
                     ELSE IF popped /\ j \in woken THEN Idle ELSE tasks[j]]
      /\ page' = IF popped THEN [o.p EXCEPT !.restoring = FALSE] ELSE o.p
      /\ saver' = IF o.save THEN Save(o.p) ELSE saver
      /\ lost' = lost \cup Dropped(page, o.p, tasks[i].prefs \/ o.t.prefs)

Runnable ==
  {"opened", "openRead", "readLocal", "prefsDashboard", "leaveSaved", "restoreSaved",
   "startRead", "startList", "backSaved", "backDone", "prefsSaved", "newSaved", "wikiSaved"}

\* A task's await is over and it runs to the next one.
Proceed(i) ==
  LET t == tasks[i]
      p == page
  IN  /\ t.pc \in Runnable
      /\ Apply(i, CASE t.pc = "opened" -> OpenSaved(t, p)
                    [] t.pc = "openRead" -> OpenRead(t, p)
                    [] t.pc = "readLocal" -> ReadLocal(t, p)
                    [] t.pc = "prefsDashboard" -> PrefsDashboard(t, p)
                    [] t.pc \in {"leaveSaved", "restoreSaved"} -> RestoreSaved(t, p)
                    [] t.pc = "startRead" -> StartRead(t, p)
                    [] t.pc = "startList" -> StartList(t, p)
                    [] t.pc = "backSaved" -> BackSaved(t, p)
                    [] t.pc = "backDone" -> BackDone(t, p)
                    [] t.pc = "prefsSaved" -> PrefsSaved(t, p)
                    [] t.pc = "newSaved" -> NewSaved(t, p)
                    [] t.pc = "wikiSaved" -> WikiSaved(t, p))
      /\ UNCHANGED <<store, used>>

\* The server's answer for a note that is not on the device: the note, nothing of that
\* name, or a failure, which leaves the screen as it was.
Fetched(i) ==
  LET t == tasks[i]
  IN  /\ t.pc = "fetch"
      /\ \/ /\ store' = IF Current(t, page) THEN [store EXCEPT ![t.note] = 0] ELSE store
            /\ Apply(i, IF Current(t, page) THEN OpenNote([t EXCEPT !.route = "none"], page)
                        ELSE End(page))
            /\ UNCHANGED used
         \/ Apply(i, Missing(t, page)) /\ UNCHANGED <<store, used>>
         \/ /\ Left("faults")
            /\ used' = [used EXCEPT !.faults = @ + 1]
            /\ Apply(i, End(Gap(page, "fetch failed")))
            /\ UNCHANGED store

\* A task begins in a free slot.
Begin(o) ==
  \E i \in Slots :
    /\ tasks[i] = Idle
    /\ \A j \in Slots : j < i => tasks[j] # Idle
    /\ Apply(i, o)

Begun(note, pc) == [Idle EXCEPT !.note = note, !.pc = pc]

(***************************************************************************)
(* The user and the browser                                                *)
(***************************************************************************)
Spend(what) == Left(what) /\ used' = [used EXCEPT ![what] = @ + 1]

BackUnderWay ==
  \E i \in Slots : \/ tasks[i].pc \in {"backSaved", "backWait", "backDone"}
                   \/ tasks[i].pc = "saving" /\ tasks[i].after = "backSaved"

\* popstate: restoring stands from the event to the end of its restore.
PopState(p) ==
  LET q == [p EXCEPT !.restoring = TRUE]
      o == RestoreRoute(q, FALSE, TRUE)
  IN  Begin(IF o.t.pc = "idle" THEN [o EXCEPT !.p.restoring = FALSE] ELSE o)

\* The browser's own Back and Forward.
Move(d) ==
  /\ page.at + d \in DOMAIN page.stack
  /\ Spend("moves")
  /\ PopState([page EXCEPT !.at = @ + d])
  /\ UNCHANGED store

\* The traversal that the Back button or closing the preferences asked for.
Travel ==
  /\ page.travel > 0
  /\ LET p == [page EXCEPT !.travel = @ - 1]
     IN  IF p.at = 1 THEN page' = Gap(p, "left") /\ UNCHANGED <<tasks, saver, lost>>
         ELSE PopState([p EXCEPT !.at = @ - 1])
  /\ UNCHANGED <<store, used>>

\* A note chosen on the dashboard.
ClickNote(n) ==
  /\ page.screen = "dashboard" /\ ~page.prefsOpen /\ store[n] # None
  /\ Spend("opens")
  /\ Begin(OpenNote([Begun(n, "idle") EXCEPT !.route = "push"], page))
  /\ UNCHANGED store

\* newLocalNoteID: an identity that nothing knows.
Unused(n) ==
  /\ n \in NewNotes /\ store[n] = None /\ n \notin {page.current, saver.note}
  /\ \A i \in Slots : tasks[i].note # n
  /\ \A l \in lost : l.note # n

\* A link in the open note's preview; unsaved text is saved first, the result ignored.
ClickLink(n) ==
  /\ Editing(page) /\ ~page.prefsOpen /\ page.current # None
  /\ store[n] # None \/ Unused(n)
  /\ Spend("opens")
  /\ Begin(IF page.dirty THEN Saving(Begun(n, "idle"), "wikiSaved", page)
           ELSE At(Begun(n, "idle"), "wikiSaved", page))
  /\ UNCHANGED store

NewNote(n) ==
  /\ page.screen = "dashboard" /\ ~page.prefsOpen /\ Unused(n)
  /\ Spend("news")
  /\ page' = StartNewNote([page EXCEPT !.generation = @ + 1, !.timer = FALSE], n)
  /\ lost' = lost \cup Dropped(page, page', FALSE)
  /\ UNCHANGED <<tasks, saver, store>>

\* The shortcut saves the open note before it makes another.
NewNoteByShortcut(n) ==
  /\ Editing(page) /\ ~page.prefsOpen /\ page.current # None /\ Unused(n)
  /\ Spend("news")
  /\ Begin(Saving(Begun(n, "idle"), "newSaved", page))
  /\ UNCHANGED store

BackButton ==
  /\ Editing(page) /\ ~page.prefsOpen /\ ~BackUnderWay
  /\ Spend("moves")
  /\ Begin(Saving(Idle, "backSaved", [page EXCEPT !.timer = FALSE]))
  /\ UNCHANGED store

OpenPreferences ==
  /\ ~page.prefsOpen /\ page.screen # "none"
  /\ Spend("opens")
  /\ IF Editing(page) /\ (page.dirty \/ saver.busy)
     THEN Begin(Saving(Idle, "prefsSaved", page))
     ELSE /\ page' = Beside([SetPreferences(page, FALSE) EXCEPT !.prefsOpen = TRUE])
          /\ UNCHANGED <<tasks, saver, lost>>
  /\ UNCHANGED store

\* closePreferences goes back in the history when the preferences are a route.
ClosePreferences ==
  /\ page.prefsOpen /\ page.travel = 0
  /\ page' = IF Here(page).screen = "preferences" THEN [page EXCEPT !.travel = @ + 1]
             ELSE [page EXCEPT !.prefsOpen = FALSE]
  /\ UNCHANGED <<tasks, saver, store, lost, used>>

\* A keystroke in the editor; it is late when a navigation is already on its way.
Type ==
  /\ Editing(page) /\ page.current # None /\ ~page.prefsOpen
  /\ Spend("types")
  /\ page' = [page EXCEPT !.text = used.types + 1, !.dirty = TRUE, !.timer = TRUE,
                          !.late = @ \/ \E i \in Slots : tasks[i] # Idle]
  /\ UNCHANGED <<tasks, saver, store, lost>>

AutoSave ==
  /\ page.timer
  /\ page' = [page EXCEPT !.timer = FALSE]
  /\ saver' = IF page.dirty THEN Save(page) ELSE saver
  /\ UNCHANGED <<tasks, store, lost, used>>

\* init and sign-in: once the server answers, the route is restored with its help.
ServerAnswers ==
  /\ \A i \in Slots : tasks[i].pc \notin {"startRead", "startList"}
  /\ page.screen # "none" /\ ~page.answered
  /\ Begin(RestoreRoute([page EXCEPT !.answered = TRUE], TRUE, FALSE))
  /\ UNCHANGED <<store, used>>

(***************************************************************************)
(* Specification                                                           *)
(***************************************************************************)

\* routes.initialize puts the dashboard under the address the page was opened at.
Openings ==
  {<<DashboardEntry>>} \cup
  {<<DashboardEntry, e>> : e \in {Entry("note", n) : n \in Notes} \cup {Entry("preferences", None)}}

Init ==
  /\ \E stack \in Openings :
       /\ page = [stack |-> stack, at |-> Len(stack), travel |-> 0, generation |-> 1,
                  restoring |-> FALSE, screen |-> "none", prefsOpen |-> FALSE,
                  current |-> None, session |-> 0, text |-> 0, saved |-> 0, dirty |-> FALSE,
                  timer |-> FALSE, failed |-> FALSE, late |-> FALSE, answered |-> FALSE,
                  gaps |-> {}]
       /\ LET n == Here([stack |-> stack, at |-> Len(stack)])
              note == IF n.screen = "note" THEN n.note ELSE None
              t == [Begun(note, IF note = None THEN "startList" ELSE "startRead") EXCEPT !.gen = 1]
          IN  tasks = [i \in Slots |-> IF i = 1 THEN t ELSE Idle]
  /\ store \in {f \in [AllNotes -> {0, None}] : \A n \in NewNotes : f[n] = None}
  /\ saver = Rested
  /\ lost = {}
  /\ used = [b \in DOMAIN Budget \ {"all"} |-> 0]

Next ==
  \/ \E i \in Slots : Proceed(i) \/ Fetched(i)
  \/ \E ok \in BOOLEAN : SaveRound(ok)
  \/ \E d \in {-1, 1} : Move(d)
  \/ Travel \/ BackButton \/ OpenPreferences \/ ClosePreferences \/ ServerAnswers
  \/ \E n \in AllNotes : ClickNote(n) \/ ClickLink(n) \/ NewNote(n) \/ NewNoteByShortcut(n)
  \/ Type \/ AutoSave

Spec == Init /\ [][Next]_vars

(***************************************************************************)
(* Properties                                                              *)
(***************************************************************************)

Quiet == page.answered /\ ~page.dirty /\ saver = Rested /\ page.travel = 0 /\ \A i \in Slots : tasks[i] = Idle

\* Once nothing is under way, the screen is the one the address names: whichever of the
\* overlapping navigations came last, no earlier one has the last word.  (A new note has
\* no address before its first save; page.gaps lists what the code lets through.)
ScreenFollowsRoute ==
  Quiet /\ page.gaps = {} =>
    LET e == Here(page)
        unsaved == page.current # None /\ store[page.current] = None
    IN  \/ Editing(page) /\ unsaved
        \/ /\ page.prefsOpen <=> e.screen = "preferences"
           /\ IF e.note = None THEN page.screen = "dashboard"
              ELSE Editing(page) /\ page.current = e.note

\* An editor session that is replaced while it holds unsaved text had told the user that its
\* save failed, or some of the text was typed while a navigation was already under way, or a
\* restore of the preferences over the dashboard, or over a note that is gone, replaced it:
\* navigation-controller.js clears the editor there without saving what it holds.
TypedTextIsSaved == \A l \in lost : l.failed \/ l.late \/ l.passed
=============================================================================
