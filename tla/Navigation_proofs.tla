------------------------- MODULE Navigation_proofs --------------------------
(***************************************************************************)
(* The editor behind the routes, for every number of notes, navigations,   *)
(* keystrokes, failures and late answers, in the composition of MCClient.  *)
(*                                                                         *)
(* First the text: EditInv accounts for what was typed at every moment -   *)
(* it is in the store, in the round trip that is saving it, in the editor  *)
(* with a save due, or its session was replaced with an excuse that stays  *)
(* true (EditsSafe, Covered, Excused, LostExcused).                        *)
(*                                                                         *)
(* Then the screen: GroundsInv says what the router relies on - which      *)
(* notes there are, whose generation is the latest, whom the saver works   *)
(* for, that a note being made is nobody else's - and ScreenInv that the   *)
(* latest restoration aims at the address, and that the screen is the      *)
(* address's or something that will make it so is under way (LatestFits,   *)
(* RightOrDue).                                                            *)
(***************************************************************************)
EXTENDS MCClient, TLAPS, SequenceTheorems

-----------------------------------------------------------------------------
(* The text: the types of the model's state.                                 *)
NoteOrNone == N!AllNotes \cup {None}

Entries == [screen : {"dashboard", "note", "preferences"}, note : NoteOrNone]

Stops == N!Runnable \cup {"idle", "saving", "fetch", "backWait"}

Afters == {"idle", "opened", "leaveSaved", "restoreSaved", "backSaved", "prefsSaved",
           "newSaved", "wikiSaved"}

Passes == {"late save", "beside a restore", "save failed", "under preferences", "late startup",
           "late back", "fetch failed", "left"}

PageType ==
  [stack : Seq(Entries), at : Nat, travel : Nat, generation : Nat, restoring : BOOLEAN,
   screen : {"none", "editor", "dashboard"}, prefsOpen : BOOLEAN, current : NoteOrNone,
   session : Nat, text : Nat, saved : Int, dirty : BOOLEAN, timer : BOOLEAN, failed : BOOLEAN,
   late : BOOLEAN, answered : BOOLEAN, gaps : SUBSET Passes]

TaskType ==
  [pc : Stops, gen : Nat, note : NoteOrNone, route : {"none", "push", "replace"},
   after : Afters, ok : BOOLEAN, leaving : BOOLEAN, fetch : BOOLEAN, popped : BOOLEAN,
   prefs : BOOLEAN]

SaverType == [busy : BOOLEAN, again : BOOLEAN, note : NoteOrNone, session : Nat, text : Nat]

(* Where a task is, or will be once its save is done.                        *)
Stop(t) == IF t.pc = "saving" THEN t.after ELSE t.pc

(* What a task that the router started may go through, and any other one.    *)
RouterStops ==
  {"opened", "openRead", "leaveSaved", "restoreSaved", "prefsDashboard", "readLocal", "fetch",
   "startRead", "startList"}
OtherStops ==
  {"idle", "opened", "openRead", "backSaved", "backWait", "backDone", "prefsSaved", "newSaved",
   "wikiSaved"}

(* What a task is like that stops at s.                                      *)
Shape(t, s) ==
  /\ s \in {"opened", "openRead", "readLocal", "fetch", "startRead", "newSaved", "wikiSaved"}
       => t.note # None
  /\ t.gen = 0 => s \in OtherStops /\ ~t.prefs /\ (s \in {"opened", "openRead"} => t.route # "none")
  /\ t.gen # 0 => s \in RouterStops /\ t.route = "none"
  /\ s = "restoreSaved" => ~t.prefs
  /\ s = "prefsDashboard" => t.prefs

TaskSound(t) ==
  /\ t \in TaskType
  /\ IF t.pc = "idle" THEN t = N!Idle ELSE Shape(t, Stop(t))
  /\ t.pc \in {"leaveSaved", "restoreSaved"} => t.after = t.pc

PageSound(p) == p \in PageType /\ p.at \in 1 .. Len(p.stack)

(* The texts there are: as many as keystrokes.                               *)
Number == 0 .. used.types
StoreSound == store \in [N!AllNotes -> {None} \cup Number]
TextsBounded == page.text \in Number /\ saver.text \in Number /\ StoreSound

UsedType == [{"moves", "opens", "types", "news", "faults"} -> Nat]

(* A note that is being opened is on the device.                             *)
OpensKnown ==
  \A i \in N!Slots : Stop(tasks[i]) \in {"opened", "openRead"} => store[tasks[i].note] # None

NavigationTypes ==
  /\ PageSound(page)
  /\ DOMAIN tasks = N!Slots /\ \A i \in N!Slots : TaskSound(tasks[i])
  /\ saver \in SaverType
  /\ used \in UsedType
  /\ TextsBounded /\ OpensKnown

-----------------------------------------------------------------------------
(* How pages compare.                                                        *)
SameRoute(p, q) == q.stack = p.stack /\ q.at = p.at
SameLook(p, q)  == q.screen = p.screen /\ q.prefsOpen = p.prefsOpen
SameEdit(p, q)  ==
  /\ q.current = p.current /\ q.session = p.session /\ q.text = p.text /\ q.saved = p.saved
  /\ q.dirty = p.dirty /\ q.failed = p.failed /\ q.late = p.late
SameRun(p, q)   ==
  /\ q.travel = p.travel /\ q.generation = p.generation /\ q.restoring = p.restoring
  /\ q.answered = p.answered

(* Every entry of q's history is one of p's, or about n.                     *)
StackFrom(p, q, n) ==
  \A k \in 1 .. Len(q.stack) :
    q.stack[k].note = n \/ \E j \in 1 .. Len(p.stack) : q.stack[k].note = p.stack[j].note

LEMMA HereTyped ==
  ASSUME NEW p, PageSound(p)
  PROVE  /\ N!Here(p) \in Entries /\ N!Here(p).note \in NoteOrNone
         /\ N!Here(p).screen \in {"dashboard", "note", "preferences"}
<1>1. p.stack \in Seq(Entries) /\ p.at \in 1 .. Len(p.stack)
  BY DEF PageSound, PageType
<1>2. p.stack[p.at] \in Entries
  BY <1>1, ElementOfSeq
<1> QED BY <1>2 DEF N!Here, Entries

(* A new top of the history, or another entry in its place.                  *)
LEMMA TopSet ==
  ASSUME NEW p, PageSound(p), NEW e \in Entries, NEW q, q \in {N!Push(p, e), N!Replace(p, e)}
  PROVE  /\ PageSound(q) /\ N!Here(q) = e /\ StackFrom(p, q, e.note)
         /\ SameLook(p, q) /\ SameEdit(p, q) /\ SameRun(p, q) /\ q.gaps = p.gaps
         /\ q.timer = p.timer
<1> DEFINE s == p.stack  a == p.at
<1>1. s \in Seq(Entries) /\ a \in 1 .. Len(s) /\ a \in Nat /\ Len(s) \in Nat
  BY LenProperties DEF PageSound, PageType
<1>2. PICK u : u = Append(SubSeq(s, 1, a), e)
  OBVIOUS
<1>3. /\ u \in Seq(Entries) /\ Len(u) = a + 1 /\ u[a + 1] = e
      /\ \A k \in 1 .. a : u[k] = s[k]
  <2>1. /\ SubSeq(s, 1, a) \in Seq(Entries) /\ Len(SubSeq(s, 1, a)) = a
        /\ \A k \in 1 .. a : SubSeq(s, 1, a)[k] = s[k]
    BY <1>1, SubSeqProperties
  <2> QED BY <1>2, <2>1, AppendProperties
<1>4. PICK v : v = [s EXCEPT ![a] = e]
  OBVIOUS
<1>5. /\ v \in Seq(Entries) /\ Len(v) = Len(s) /\ v[a] = e
      /\ \A k \in 1 .. Len(s) : k # a => v[k] = s[k]
  BY <1>1, <1>4, ExceptSeq
<1>6. CASE q = N!Push(p, e)
  <2>0. PICK b \in Nat : b = a + 1
    BY <1>1
  <2>1. q = [p EXCEPT !.stack = u, !.at = b]
    BY <1>2, <1>6, <2>0 DEF N!Push
  <2> HIDE DEF s, a
  <2>2. q.stack = u /\ q.at = a + 1
    BY <2>0, <2>1 DEF PageSound, PageType
  <2>3. /\ SameLook(p, q) /\ SameEdit(p, q) /\ SameRun(p, q) /\ q.gaps = p.gaps
        /\ q.timer = p.timer
    BY <2>1 DEF SameLook, SameEdit, SameRun, PageSound, PageType
  <2>4. q \in PageType
    BY <1>3, <2>0, <2>1 DEF PageSound, PageType
  <2>5. StackFrom(p, q, e.note)
    <3> SUFFICES ASSUME NEW k \in 1 .. Len(q.stack)
                 PROVE  \/ q.stack[k].note = e.note
                        \/ \E j \in 1 .. Len(p.stack) : q.stack[k].note = p.stack[j].note
      BY DEF StackFrom
    <3>1. k = a + 1 \/ k \in 1 .. a
      BY <1>1, <1>3, <2>2
    <3>2. \A j \in 1 .. a : j \in 1 .. Len(p.stack)
      BY <1>1 DEF s
    <3> QED BY <1>3, <2>2, <3>1, <3>2 DEF s
  <2> QED BY <1>1, <1>3, <2>2, <2>3, <2>4, <2>5 DEF PageSound, N!Here
<1>7. CASE q = N!Replace(p, e)
  <2>1. q = [p EXCEPT !.stack = v]
    BY <1>1, <1>4, <1>7 DEF N!Replace, PageSound, PageType
  <2> HIDE DEF s, a
  <2>2. q.stack = v /\ q.at = a
    BY <2>1 DEF PageSound, PageType, a
  <2>3. /\ SameLook(p, q) /\ SameEdit(p, q) /\ SameRun(p, q) /\ q.gaps = p.gaps
        /\ q.timer = p.timer
    BY <2>1 DEF SameLook, SameEdit, SameRun, PageSound, PageType
  <2>4. q \in PageType
    BY <1>1, <1>5, <2>1 DEF PageSound, PageType
  <2>5. StackFrom(p, q, e.note)
    BY <1>5, <2>2 DEF StackFrom, s
  <2> QED BY <1>1, <1>5, <2>2, <2>3, <2>4, <2>5 DEF PageSound, N!Here
<1> QED BY <1>6, <1>7

(* setNote, setDashboard and setPreferences: the address alone.              *)
AddressOnly(p, q) ==
  SameLook(p, q) /\ SameEdit(p, q) /\ SameRun(p, q) /\ q.gaps = p.gaps /\ q.timer = p.timer

LEMMA RouteSet ==
  ASSUME NEW p, PageSound(p), NEW e \in Entries, NEW replace \in BOOLEAN, NEW q,
         q = N!SetRoute(p, e, replace)
  PROVE  PageSound(q) /\ N!Here(q) = e /\ StackFrom(p, q, e.note) /\ AddressOnly(p, q)
<1>1. CASE N!Here(p) = e
  <2>1. q = p
    BY <1>1 DEF N!SetRoute
  <2> QED BY <1>1, <2>1 DEF AddressOnly, StackFrom, SameLook, SameEdit, SameRun
<1>2. CASE N!Here(p) # e
  <2>1. q \in {N!Push(p, e), N!Replace(p, e)}
    BY <1>2 DEF N!SetRoute
  <2> QED BY <2>1, TopSet DEF AddressOnly
<1> QED BY <1>1, <1>2

LEMMA PreferencesSet ==
  ASSUME NEW p, PageSound(p), NEW replace \in BOOLEAN, NEW q,
         q = N!SetPreferences(p, replace)
  PROVE  /\ PageSound(q) /\ StackFrom(p, q, N!Here(p).note) /\ AddressOnly(p, q)
         /\ N!Here(q).screen = "preferences" /\ N!Here(q).note = N!Here(p).note
<1>1. CASE N!Here(p).screen = "preferences"
  <2>1. q = p
    BY <1>1 DEF N!SetPreferences
  <2> QED BY <1>1, <2>1 DEF AddressOnly, StackFrom, SameLook, SameEdit, SameRun
<1>2. CASE N!Here(p).screen # "preferences"
  <2>1. PICK e : e = N!Entry("preferences", N!Here(p).note)
    OBVIOUS
  <2>2. e \in Entries /\ e.screen = "preferences" /\ e.note = N!Here(p).note
    BY <2>1, HereTyped DEF N!Entry, Entries
  <2>3. q \in {N!Push(p, e), N!Replace(p, e)}
    BY <1>2, <2>1 DEF N!SetPreferences
  <2> QED BY <2>2, <2>3, TopSet DEF AddressOnly
<1> QED BY <1>1, <1>2

(* A gap is noted; nothing else changes.                                     *)
LEMMA GapNoted ==
  ASSUME NEW p, PageSound(p), NEW gap \in Passes, NEW q, q = N!Gap(p, gap)
  PROVE  /\ PageSound(q) /\ N!Here(q) = N!Here(p) /\ SameRoute(p, q) /\ q.timer = p.timer
         /\ SameLook(p, q) /\ SameEdit(p, q) /\ SameRun(p, q) /\ q.gaps # {}
<1>1. PICK g \in SUBSET Passes : g = p.gaps \cup {gap}
  BY DEF PageSound, PageType
<1>2. q = [p EXCEPT !.gaps = g] /\ g # {}
  BY <1>1 DEF N!Gap, PageSound, PageType
<1>3. q \in PageType /\ SameRoute(p, q)
  <2>1. q \in PageType
    BY <1>2 DEF PageSound, PageType
  <2> QED BY <1>2, <2>1 DEF PageSound, PageType, SameRoute
<1> QED BY <1>2, <1>3 DEF PageSound, PageType, N!Here, SameRoute, SameLook, SameEdit, SameRun

(* A new session: what it shows is what is saved.                            *)
NewSession(p, q, note, text) ==
  /\ q.session = p.session + 1 /\ q.current = note /\ q.text = text /\ ~q.dirty /\ ~q.failed
  /\ ~q.late

LEMMA SessionShown ==
  ASSUME NEW p, PageSound(p), NEW note \in NoteOrNone, NEW text \in Nat, NEW q,
         q = N!Session(p, note, text)
  PROVE  /\ PageSound(q) /\ NewSession(p, q, note, text) /\ q.saved = text
         /\ SameRoute(p, q) /\ SameLook(p, q) /\ SameRun(p, q) /\ q.gaps = p.gaps
         /\ N!Here(q) = N!Here(p)
<1>1. PICK s \in Nat : s = p.session + 1
  BY DEF PageSound, PageType
<1>2. q = [p EXCEPT !.session = s, !.current = note, !.text = text, !.saved = text,
                    !.dirty = FALSE, !.failed = FALSE, !.late = FALSE]
  BY <1>1 DEF N!Session, PageSound, PageType
<1>3. q \in PageType /\ SameRoute(p, q)
  <2>1. PICK r : r = [p EXCEPT !.session = s, !.current = note, !.text = text, !.saved = text]
    OBVIOUS
  <2>2. text \in Int
    OBVIOUS
  <2>3. r \in PageType
    BY <2>1, <2>2 DEF PageSound, PageType
  <2>4. q = [r EXCEPT !.dirty = FALSE, !.failed = FALSE, !.late = FALSE]
    BY <1>2, <2>1 DEF PageSound, PageType
  <2>5. q \in PageType
    BY <2>3, <2>4 DEF PageType
  <2> QED BY <1>2, <2>5 DEF PageSound, PageType, SameRoute
<1> QED BY <1>1, <1>2, <1>3
        DEF PageSound, PageType, NewSession, N!Here, SameRoute, SameLook, SameRun

(* The editor shows a note, or a new one; or the dashboard is shown.         *)
LEMMA EditorShown ==
  ASSUME NEW p, PageSound(p), NEW note \in NoteOrNone, NEW text \in Nat, NEW q,
         \/ q = N!Shown(p, note, text)
         \/ text = 0 /\ q = N!StartNewNote(p, note)
  PROVE  /\ PageSound(q) /\ NewSession(p, q, note, text)
         /\ q.saved = IF q = N!Shown(p, note, text) THEN text ELSE N!Nothing
         /\ SameRoute(p, q) /\ q.screen = "editor" /\ q.prefsOpen = p.prefsOpen
         /\ SameRun(p, q) /\ q.gaps = p.gaps /\ N!Here(q) = N!Here(p)
<1>1. PICK r : r = N!Session(p, note, text)
  OBVIOUS
<1>2. /\ PageSound(r) /\ NewSession(p, r, note, text) /\ r.saved = text
      /\ SameRoute(p, r) /\ SameLook(p, r) /\ SameRun(p, r) /\ r.gaps = p.gaps
      /\ N!Here(r) = N!Here(p)
  BY <1>1, SessionShown
<1>3. PICK u : u = N!Shown(p, note, text)
  OBVIOUS
<1>4. u = [r EXCEPT !.screen = "editor"]
  BY <1>1, <1>3 DEF N!Shown
<1>5. /\ u \in PageType /\ SameRoute(p, u) /\ u.screen = "editor" /\ u.prefsOpen = p.prefsOpen
      /\ u.saved = text
      /\ NewSession(p, u, note, text) /\ SameRun(p, u) /\ u.gaps = p.gaps
  BY <1>2, <1>4 DEF PageSound, PageType, SameRoute, SameLook, SameRun, NewSession
<1>6. CASE q = u
  BY <1>2, <1>3, <1>5, <1>6 DEF PageSound, N!Here, SameRoute
<1>7. CASE q # u
  <2>1. text = 0 /\ q = [u EXCEPT !.saved = N!Nothing]
    BY <1>3, <1>7 DEF N!StartNewNote
  <2>2. N!Nothing \in Int
    BY DEF N!Nothing
  <2>3. q \in PageType /\ SameRoute(u, q) /\ q.saved = N!Nothing
    BY <1>5, <2>1, <2>2 DEF PageType, SameRoute
  <2>4. /\ NewSession(p, q, note, text) /\ q.screen = "editor" /\ q.prefsOpen = p.prefsOpen
        /\ SameRun(p, q) /\ q.gaps = p.gaps
    BY <1>5, <2>1 DEF PageType, SameRun, NewSession
  <2> QED BY <1>2, <1>3, <1>5, <1>7, <2>3, <2>4 DEF PageSound, N!Here, SameRoute
<1> QED BY <1>6, <1>7

LEMMA EditorCleared ==
  ASSUME NEW p, PageSound(p), NEW q, q = N!Cleared(p)
  PROVE  /\ PageSound(q) /\ NewSession(p, q, None, p.text) /\ q.saved = p.text
         /\ SameRoute(p, q) /\ SameLook(p, q) /\ SameRun(p, q) /\ q.gaps = p.gaps
         /\ N!Here(q) = N!Here(p)
<1>1. None \in NoteOrNone /\ p.text \in Nat
  BY DEF NoteOrNone, PageSound, PageType
<1> QED BY <1>1, SessionShown DEF N!Cleared

LEMMA DashboardShown ==
  ASSUME NEW p, PageSound(p), NEW q, q = N!Dashboard(p)
  PROVE  /\ PageSound(q) /\ SameEdit(p, q) /\ SameRoute(p, q) /\ SameRun(p, q)
         /\ q.screen = "dashboard" /\ q.prefsOpen = p.prefsOpen /\ q.gaps = p.gaps
         /\ N!Here(q) = N!Here(p)
BY DEF N!Dashboard, PageSound, PageType, N!Here, SameRoute, SameEdit, SameRun

LEMMA PreferencesShown ==
  ASSUME NEW p, PageSound(p), NEW open \in BOOLEAN, NEW q, q = [p EXCEPT !.prefsOpen = open]
  PROVE  /\ PageSound(q) /\ SameEdit(p, q) /\ SameRoute(p, q) /\ SameRun(p, q)
         /\ q.screen = p.screen /\ q.prefsOpen = open /\ q.gaps = p.gaps
         /\ N!Here(q) = N!Here(p)
BY DEF PageSound, PageType, N!Here, SameRoute, SameEdit, SameRun

-----------------------------------------------------------------------------
(* What a navigation does to the page: the text stays in the editor, or the  *)
(* editor's session is a new one.                                            *)
Kept(t, p, q) ==
  /\ q.current = p.current /\ q.session = p.session /\ q.text = p.text /\ q.saved = p.saved
  /\ q.dirty = p.dirty /\ q.failed = p.failed /\ (p.late => q.late)
  /\ q.screen = p.screen \/ (t.pc = "startList" /\ q.screen = "dashboard")

Renewed(t, p, q) ==
  /\ q.session = p.session + 1 /\ ~q.dirty /\ q.text \in Number
  /\ \/ q.current = None /\ q.saved = q.text
     \/ /\ q.current = t.note /\ t.note # None /\ q.screen = "editor"
        /\ \/ store[t.note] # None /\ q.saved = q.text
           \/ t.pc \in {"newSaved", "wikiSaved"} /\ q.saved = N!Nothing /\ q.stack = p.stack

ViewFollows(t, p, q) ==
  /\ PageSound(q)
  /\ Kept(t, p, q) \/ Renewed(t, p, q)
  /\ p.generation <= q.generation
  /\ q.answered = p.answered /\ p.travel <= q.travel /\ p.gaps \subseteq q.gaps
  /\ q.screen = "none" => p.screen = "none"
  /\ \A k \in 1 .. Len(q.stack) :
       \/ q.stack[k].note = None
       \/ q.stack[k].note = t.note /\ store[t.note] # None /\ q.saved # N!Nothing
       \/ \E j \in 1 .. Len(p.stack) : q.stack[k].note = p.stack[j].note

(* A task that goes on is about what it was.                                 *)
Carried(t, u) ==
  u.gen = t.gen /\ u.note = t.note /\ u.popped = t.popped /\ u.prefs = t.prefs
  /\ u.leaving = t.leaving

TaskFollows(t, u) ==
  /\ TaskSound(u)
  /\ u = N!Idle \/ Carried(t, u)
  /\ Stop(u) \in {"opened", "openRead"} => store[t.note] # None \/ t.pc = "fetch"

OutcomeSound(t, p, o) ==
  /\ TaskFollows(t, o.t) /\ ViewFollows(t, p, o.p)
  /\ o.save \in BOOLEAN /\ (o.save <=> o.t.pc = "saving") /\ o = N!Out(o.t, o.p, o.save)

LEMMA IdleSound == N!Idle \in TaskType /\ TaskSound(N!Idle) /\ Stop(N!Idle) = "idle"
<1>1. N!Idle \in TaskType
  BY DEF N!Idle, TaskType, Stops, Afters, NoteOrNone
<1> QED BY <1>1 DEF N!Idle, TaskSound, Stop

(* Where a navigation waits: nowhere, at its next await, or for the saver.   *)
LEMMA EndSound ==
  ASSUME NEW t \in TaskType, NEW p, NEW q, ViewFollows(t, p, q)
  PROVE  OutcomeSound(t, p, N!End(q)) /\ N!End(q).t = N!Idle /\ N!End(q).p = q
<1>1. N!End(q) = [t |-> N!Idle, p |-> q, save |-> FALSE]
  BY DEF N!End, N!Out
<1>2. N!Idle.pc = "idle"
  BY DEF N!Idle
<1> QED BY <1>1, <1>2, IdleSound DEF OutcomeSound, TaskFollows, N!Out

LEMMA AtSound ==
  ASSUME NEW t \in TaskType, NEW p, NEW q, ViewFollows(t, p, q),
         NEW s \in Stops \ {"idle", "saving", "leaveSaved", "restoreSaved"}, Shape(t, s),
         s \in {"opened", "openRead"} => store[t.note] # None \/ t.pc = "fetch"
  PROVE  /\ OutcomeSound(t, p, N!At(t, s, q)) /\ N!At(t, s, q).p = q
         /\ Carried(t, N!At(t, s, q).t) /\ N!At(t, s, q).t.pc = s
         /\ N!At(t, s, q).t.route = t.route
<1>1. PICK u : u = [t EXCEPT !.pc = s]
  OBVIOUS
<1>2. N!At(t, s, q) = [t |-> u, p |-> q, save |-> FALSE]
  BY <1>1 DEF N!At, N!Out
<1>3. /\ u \in TaskType /\ u.pc = s /\ Carried(t, u) /\ u.route = t.route
  BY <1>1 DEF TaskType, Carried
<1>4. Stop(u) = s /\ Shape(u, s)
  BY <1>3 DEF Stop, Shape, Carried
<1> QED BY <1>2, <1>3, <1>4 DEF OutcomeSound, TaskFollows, TaskSound, N!Out

LEMMA SavingSound ==
  ASSUME NEW t \in TaskType, NEW p, NEW q, ViewFollows(t, p, q), NEW s \in Afters, Shape(t, s),
         s = "opened" => store[t.note] # None \/ t.pc = "fetch"
  PROVE  /\ OutcomeSound(t, p, N!Saving(t, s, q)) /\ N!Saving(t, s, q).p = q
         /\ Carried(t, N!Saving(t, s, q).t) /\ N!Saving(t, s, q).t.pc = "saving"
         /\ N!Saving(t, s, q).t.after = s /\ N!Saving(t, s, q).t.route = t.route
<1>1. PICK u : u = [t EXCEPT !.pc = "saving", !.after = s]
  OBVIOUS
<1>2. N!Saving(t, s, q) = [t |-> u, p |-> q, save |-> TRUE]
  BY <1>1 DEF N!Saving, N!Out
<1>3. /\ u \in TaskType /\ u.pc = "saving" /\ u.after = s /\ Carried(t, u) /\ u.route = t.route
  BY <1>1 DEF TaskType, Carried, Stops
<1>4. Stop(u) = s /\ Shape(u, s) /\ s # "openRead"
  BY <1>3 DEF Stop, Shape, Carried, Afters
<1> QED BY <1>2, <1>3, <1>4 DEF OutcomeSound, TaskFollows, TaskSound, N!Out

-----------------------------------------------------------------------------
(* The page as it was, with a gap or a flag of the screen.                   *)
LEMMA PageKept ==
  ASSUME NEW t \in TaskType, NEW p, PageSound(p), NEW q, PageSound(q), SameEdit(p, q),
         SameRoute(p, q), SameRun(p, q), p.gaps \subseteq q.gaps,
         q.screen = p.screen \/ (t.pc = "startList" /\ q.screen = "dashboard")
  PROVE  ViewFollows(t, p, q)
<1>1. p.generation \in Nat /\ p.travel \in Nat
  BY DEF PageSound, PageType
<1> QED BY <1>1 DEF ViewFollows, Kept, SameEdit, SameRoute, SameRun

(* What follows a page much like this one follows this one.                  *)
LEMMA FollowsFrom ==
  ASSUME NEW t \in TaskType, NEW p, PageSound(p), NEW q, PageSound(q), SameRoute(p, q),
         q.screen = p.screen, q.gaps = p.gaps, q.current = p.current, q.session = p.session,
         q.text = p.text, q.saved = p.saved, q.dirty = p.dirty, q.failed = p.failed,
         p.late => q.late, q.travel = p.travel, p.generation <= q.generation,
         q.answered = p.answered, NEW o, OutcomeSound(t, q, o)
  PROVE  OutcomeSound(t, p, o)
<1>1. ViewFollows(t, q, o.p)
  BY DEF OutcomeSound
<1>2. Kept(t, q, o.p) => Kept(t, p, o.p)
  BY DEF Kept
<1>3. Renewed(t, q, o.p) => Renewed(t, p, o.p)
  BY DEF Renewed, SameRoute
<1>4. p.generation <= o.p.generation
  <2>1. p.generation \in Nat /\ q.generation \in Nat /\ o.p.generation \in Nat
    BY <1>1 DEF ViewFollows, PageSound, PageType
  <2>2. q.generation <= o.p.generation
    BY <1>1 DEF ViewFollows
  <2> QED BY <2>1, <2>2
<1>5. \A k \in 1 .. Len(o.p.stack) :
       \/ o.p.stack[k].note = None
       \/ o.p.stack[k].note = t.note /\ store[t.note] # None /\ o.p.saved # N!Nothing
       \/ \E j \in 1 .. Len(p.stack) : o.p.stack[k].note = p.stack[j].note
  BY <1>1 DEF ViewFollows, SameRoute
<1> QED BY <1>1, <1>2, <1>3, <1>4, <1>5 DEF ViewFollows, OutcomeSound

LEMMA PageStays ==
  ASSUME NEW t \in TaskType, NEW p, PageSound(p)
  PROVE  ViewFollows(t, p, p)
BY PageKept DEF SameEdit, SameRoute, SameRun

LEMMA GapFollows ==
  ASSUME NEW t \in TaskType, NEW p, PageSound(p), NEW gap \in Passes
  PROVE  ViewFollows(t, p, N!Gap(p, gap))
<1>1. p.gaps \subseteq N!Gap(p, gap).gaps
  BY DEF N!Gap, PageSound, PageType
<1> QED BY <1>1, GapNoted, PageKept DEF SameLook

(* openNote                                                                  *)
Ready(p) == PageSound(p) /\ p.text \in Number /\ 0 \in Number /\ StoreSound

LEMMA OpenNoteSound ==
  ASSUME NEW t \in TaskType, NEW p, Ready(p), t.note # None,
         store[t.note] # None \/ t.pc = "fetch",
         t.gen = 0 => t.route # "none" /\ ~t.prefs, t.gen # 0 => t.route = "none"
  PROVE  LET o == N!OpenNote(t, p) IN
         /\ OutcomeSound(t, p, o) /\ Carried(t, o.t) /\ o.t.route = t.route
         /\ o.t.pc = "openRead" \/ (o.t.pc = "saving" /\ o.t.after = "opened")
         /\ SameEdit(p, o.p) /\ SameLook(p, o.p) /\ SameRoute(p, o.p) /\ o.p.gaps = p.gaps
         /\ o.p.travel = p.travel /\ o.p.answered = p.answered
         /\ o.p.generation = p.generation + (IF t.route = "none" THEN 0 ELSE 1)
         /\ o.t.pc = "openRead" => ~N!Editing(p) \/ ~p.dirty \/ p.current = t.note
<1>1. PICK g \in Nat : /\ g = p.generation + (IF t.route = "none" THEN 0 ELSE 1)
                       /\ p.generation <= g
  BY DEF Ready, PageSound, PageType
<1>2. PICK q : q = [p EXCEPT !.generation = g, !.timer = FALSE]
  OBVIOUS
<1>3. /\ PageSound(q) /\ SameEdit(p, q) /\ SameLook(p, q) /\ SameRoute(p, q) /\ q.gaps = p.gaps
      /\ q.travel = p.travel /\ q.answered = p.answered /\ q.restoring = p.restoring
      /\ q.generation = g
  BY <1>2 DEF Ready, PageSound, PageType, SameEdit, SameLook, SameRoute
<1>4. ViewFollows(t, p, q)
  <2>1. p.travel \in Nat
    BY DEF Ready, PageSound, PageType
  <2>2. Kept(t, p, q)
    BY <1>3 DEF Kept, SameEdit, SameLook
  <2>3. \A k \in 1 .. Len(q.stack) : \E j \in 1 .. Len(p.stack) : q.stack[k].note = p.stack[j].note
    BY <1>3 DEF SameRoute
  <2> QED BY <1>1, <1>3, <2>1, <2>2, <2>3 DEF ViewFollows, SameLook
<1>5. Shape(t, "opened") /\ Shape(t, "openRead")
  BY DEF Shape, OtherStops, RouterStops
<1>6. "opened" \in Afters /\ "openRead" \in Stops \ {"idle", "saving", "leaveSaved", "restoreSaved"}
  BY DEF Afters, Stops, N!Runnable
<1>7. p.generation + (IF t.route = "none" THEN 0 ELSE 1) = g
  BY <1>1
<1>8. N!OpenNote(t, p) =
        IF N!Editing(p) /\ p.current # t.note /\ (p.dirty \/ saver.busy)
        THEN N!Saving(t, "opened", q) ELSE N!At(t, "openRead", q)
  BY <1>1, <1>2 DEF N!OpenNote
<1>9. CASE N!Editing(p) /\ p.current # t.note /\ (p.dirty \/ saver.busy)
  <2>1. N!OpenNote(t, p) = N!Saving(t, "opened", q)
    BY <1>8, <1>9
  <2>2. /\ OutcomeSound(t, p, N!Saving(t, "opened", q)) /\ N!Saving(t, "opened", q).p = q
        /\ Carried(t, N!Saving(t, "opened", q).t) /\ N!Saving(t, "opened", q).t.pc = "saving"
        /\ N!Saving(t, "opened", q).t.after = "opened" /\ N!Saving(t, "opened", q).t.route = t.route
    BY <1>4, <1>5, <1>6, SavingSound
  <2> QED BY <1>3, <1>7, <2>1, <2>2
<1>10. CASE ~(N!Editing(p) /\ p.current # t.note /\ (p.dirty \/ saver.busy))
  <2>1. N!OpenNote(t, p) = N!At(t, "openRead", q)
    BY <1>8, <1>10
  <2>2. /\ OutcomeSound(t, p, N!At(t, "openRead", q)) /\ N!At(t, "openRead", q).p = q
        /\ Carried(t, N!At(t, "openRead", q).t) /\ N!At(t, "openRead", q).t.pc = "openRead"
        /\ N!At(t, "openRead", q).t.route = t.route
    BY <1>4, <1>5, <1>6, AtSound
  <2> QED BY <1>3, <1>7, <1>10, <2>1, <2>2
<1> QED BY <1>9, <1>10

LEMMA OpenSavedSound ==
  ASSUME NEW t, TaskSound(t), t.pc = "opened", NEW p, Ready(p), store[t.note] # None
  PROVE  OutcomeSound(t, p, N!OpenSaved(t, p))
<1>1. t \in TaskType /\ Shape(t, "opened") /\ PageSound(p)
  BY DEF TaskSound, Stop, Ready
<1>2. Shape(t, "openRead")
  BY <1>1 DEF Shape, OtherStops, RouterStops
<1>3. "openRead" \in Stops \ {"idle", "saving", "leaveSaved", "restoreSaved"}
  BY DEF Stops, N!Runnable
<1>4. "save failed" \in Passes
  BY DEF Passes
<1>5. OutcomeSound(t, p, N!At(t, "openRead", p))
  BY <1>1, <1>2, <1>3, PageStays, AtSound
<1>6. OutcomeSound(t, p, N!End(p)) /\ OutcomeSound(t, p, N!End(N!Gap(p, "save failed")))
  BY Zenon, <1>1, <1>4, PageStays, GapFollows, EndSound
<1> QED BY Zenon, <1>5, <1>6 DEF N!OpenSaved

(* A note on the screen, a new session; its address set or kept.             *)
LEMMA ShownFollows ==
  ASSUME NEW t \in TaskType, NEW p, Ready(p), t.note # None, store[t.note] # None, NEW q,
         q = N!Shown(p, t.note, store[t.note]), NEW r,
         r = q \/ \E replace \in BOOLEAN : r = N!SetRoute(q, N!Entry("note", t.note), replace)
  PROVE  /\ ViewFollows(t, p, r) /\ Renewed(t, p, r) /\ r.screen = "editor"
         /\ r.prefsOpen = p.prefsOpen /\ r.gaps = p.gaps /\ SameRun(p, r)
         /\ r.current = t.note /\ ~r.dirty
         /\ N!Here(r) = IF r = q THEN N!Here(p) ELSE N!Entry("note", t.note)
<1>1. t.note \in NoteOrNone /\ t.note \in N!AllNotes
  BY DEF TaskType, NoteOrNone
<1>2. store[t.note] \in Number /\ store[t.note] \in Nat
  BY <1>1 DEF Ready, StoreSound, Number
<1>3. /\ PageSound(q) /\ NewSession(p, q, t.note, store[t.note]) /\ q.saved = store[t.note]
      /\ SameRoute(p, q) /\ q.screen = "editor" /\ q.prefsOpen = p.prefsOpen
      /\ SameRun(p, q) /\ q.gaps = p.gaps /\ N!Here(q) = N!Here(p)
  BY <1>1, <1>2, EditorShown DEF Ready
<1>4. /\ PageSound(r) /\ AddressOnly(q, r)
      /\ N!Here(r) = IF r = q THEN N!Here(p) ELSE N!Entry("note", t.note)
      /\ r = q \/ StackFrom(q, r, t.note)
  <2>1. CASE r = q
    BY <1>3, <2>1 DEF AddressOnly, SameLook, SameEdit, SameRun
  <2>2. CASE r # q
    <3>1. PICK replace \in BOOLEAN : r = N!SetRoute(q, N!Entry("note", t.note), replace)
      BY <2>2
    <3>2. N!Entry("note", t.note) \in Entries
      BY <1>1 DEF N!Entry, Entries
    <3>3. PageSound(r) /\ AddressOnly(q, r) /\ N!Here(r) = N!Entry("note", t.note) /\ StackFrom(q, r, t.note)
      <4>1. PICK e : e = N!Entry("note", t.note)
        OBVIOUS
      <4>2. e \in Entries /\ r = N!SetRoute(q, e, replace) /\ e.note = t.note
        BY <3>1, <3>2, <4>1 DEF N!Entry
      <4>3. PageSound(r) /\ N!Here(r) = e /\ StackFrom(q, r, e.note) /\ AddressOnly(q, r)
        BY <1>3, <4>2, RouteSet
      <4> QED BY <4>1, <4>2, <4>3
    <3> QED BY <2>2, <3>3
  <2> QED BY <2>1, <2>2
<1>5. /\ r.screen = "editor" /\ r.prefsOpen = p.prefsOpen /\ r.gaps = p.gaps /\ SameRun(p, r)
      /\ r.current = t.note /\ ~r.dirty
  BY <1>3, <1>4 DEF AddressOnly, SameLook, SameEdit, SameRun, NewSession
<1>6. Renewed(t, p, r)
  BY <1>2, <1>3, <1>4, <1>5 DEF Renewed, AddressOnly, SameEdit, NewSession
<1>7. \A k \in 1 .. Len(r.stack) :
       \/ r.stack[k].note = t.note
       \/ \E j \in 1 .. Len(p.stack) : r.stack[k].note = p.stack[j].note
  BY <1>3, <1>4 DEF StackFrom, SameRoute
<1>8. p.travel \in Nat /\ p.generation \in Nat
  BY DEF Ready, PageSound, PageType
<1>9. r.saved # N!Nothing
  BY <1>2, <1>3, <1>4 DEF N!Nothing, AddressOnly, SameEdit
<1> QED BY <1>4, <1>5, <1>6, <1>7, <1>8, <1>9 DEF ViewFollows, SameRun

(* The preferences over it, or a gap: the flag and the gaps alone.           *)
LEMMA CoverFollows ==
  ASSUME NEW t \in TaskType, NEW p, PageSound(p), NEW r, ViewFollows(t, p, r), NEW q, PageSound(q),
         SameEdit(r, q), SameRoute(r, q), SameRun(r, q), r.gaps \subseteq q.gaps,
         q.screen = r.screen
  PROVE  ViewFollows(t, p, q)
<1>1. Kept(t, p, r) => Kept(t, p, q)
  BY DEF Kept, SameEdit
<1>2. Renewed(t, p, r) => Renewed(t, p, q)
  BY DEF Renewed, SameEdit, SameRoute
<1>3. /\ p.generation <= q.generation
      /\ q.answered = p.answered /\ p.travel <= q.travel /\ p.gaps \subseteq q.gaps
      /\ q.screen = "none" => p.screen = "none"
  BY DEF ViewFollows, SameRun
<1>4. \A k \in 1 .. Len(q.stack) :
       \/ q.stack[k].note = None
       \/ q.stack[k].note = t.note /\ store[t.note] # None /\ q.saved # N!Nothing
       \/ \E j \in 1 .. Len(p.stack) : q.stack[k].note = p.stack[j].note
  BY DEF ViewFollows, SameRoute, SameEdit
<1> QED BY <1>1, <1>2, <1>3, <1>4 DEF ViewFollows

LEMMA GapCovers ==
  ASSUME NEW t \in TaskType, NEW p, PageSound(p), NEW r, ViewFollows(t, p, r), NEW gap \in Passes
  PROVE  ViewFollows(t, p, N!Gap(r, gap)) /\ N!Gap(r, gap).gaps # {}
<1>1. PageSound(r)
  BY DEF ViewFollows
<1>2. r.gaps \subseteq N!Gap(r, gap).gaps
  BY <1>1 DEF N!Gap, PageSound, PageType
<1> QED BY <1>1, <1>2, GapNoted, CoverFollows DEF SameLook

LEMMA BesideCovers ==
  ASSUME NEW t \in TaskType, NEW p, PageSound(p), NEW r, ViewFollows(t, p, r)
  PROVE  ViewFollows(t, p, N!Beside(r)) /\ (N!RestoreUnderWay => N!Beside(r).gaps # {})
         /\ (~N!RestoreUnderWay => N!Beside(r) = r)
<1>1. "beside a restore" \in Passes
  BY DEF Passes
<1> QED BY Zenon, <1>1, GapCovers DEF N!Beside

LEMMA PreferencesCover ==
  ASSUME NEW t \in TaskType, NEW p, PageSound(p), NEW r, ViewFollows(t, p, r), NEW open \in BOOLEAN
  PROVE  ViewFollows(t, p, [r EXCEPT !.prefsOpen = open])
<1>1. PageSound(r)
  BY DEF ViewFollows
<1>2. PICK q : q = [r EXCEPT !.prefsOpen = open]
  OBVIOUS
<1>3. /\ PageSound(q) /\ SameEdit(r, q) /\ SameRoute(r, q) /\ SameRun(r, q)
      /\ q.screen = r.screen /\ q.prefsOpen = open /\ q.gaps = r.gaps
  BY <1>1, <1>2, PreferencesShown
<1> QED BY <1>2, <1>3, CoverFollows

LEMMA OpenReadSound ==
  ASSUME NEW t, TaskSound(t), t.pc = "openRead", NEW p, Ready(p)
  PROVE  OutcomeSound(t, p, N!OpenRead(t, p))
<1>1. t \in TaskType /\ t.note # None /\ PageSound(p)
  BY DEF TaskSound, Stop, Shape, Ready
<1>2. CASE store[t.note] = None \/ ~N!Current(t, p)
  BY Zenon, <1>1, <1>2, PageStays, EndSound DEF N!OpenRead
<1>3. CASE store[t.note] # None /\ N!Current(t, p)
  <2>1. PICK q : q = N!Shown(p, t.note, store[t.note])
    OBVIOUS
  <2>2. PICK r : r = IF t.route = "none" THEN q
                     ELSE N!SetRoute(q, N!Entry("note", t.note), t.route = "replace")
    OBVIOUS
  <2>3. r = q \/ \E replace \in BOOLEAN : r = N!SetRoute(q, N!Entry("note", t.note), replace)
    BY <2>2
  <2>4. ViewFollows(t, p, r)
    BY <1>1, <1>3, <2>1, <2>3, ShownFollows
  <2>5. "under preferences" \in Passes
    BY DEF Passes
  <2>6. PICK z : z = IF t.prefs THEN [r EXCEPT !.prefsOpen = TRUE]
                     ELSE IF t.gen = 0 /\ N!RestoreUnderWay THEN N!Beside(r)
                     ELSE IF r.prefsOpen THEN N!Gap(r, "under preferences") ELSE r
    BY Zenon
  <2>7. ViewFollows(t, p, z)
    BY Zenon, <1>1, <2>4, <2>5, <2>6, PreferencesCover, BesideCovers, GapCovers
  <2>8. N!OpenRead(t, p) = N!End(z)
    BY Zenon, <1>3, <2>1, <2>2, <2>6 DEF N!OpenRead
  <2> QED BY <1>1, <2>7, <2>8, EndSound
<1> QED BY <1>2, <1>3

-----------------------------------------------------------------------------
(* The restore of a route.                                                   *)
RouterTask(t) == t \in TaskType /\ t.gen # 0 /\ t.route = "none"

LEMMA RouterTasks ==
  ASSUME NEW t, TaskSound(t), t.pc # "idle",
         Stop(t) \in {"readLocal", "fetch", "leaveSaved", "restoreSaved", "prefsDashboard",
                     "startRead", "startList"}
  PROVE  RouterTask(t)
BY DEF TaskSound, Shape, OtherStops, RouterTask

(* The dashboard for a route whose note cannot be had.                       *)
MissingPage(t, p) ==
  N!Dashboard(N!Cleared(IF t.note = None THEN p ELSE N!SetRoute(p, N!DashboardEntry, TRUE)))

LEMMA MissingPageFollows ==
  ASSUME NEW t \in TaskType, NEW p, Ready(p), NEW r, r = MissingPage(t, p)
  PROVE  /\ ViewFollows(t, p, r) /\ Renewed(t, p, r) /\ r.screen = "dashboard" /\ r.current = None
         /\ r.prefsOpen = p.prefsOpen /\ r.gaps = p.gaps /\ SameRun(p, r) /\ ~r.dirty
         /\ N!Here(r) = IF t.note = None THEN N!Here(p) ELSE N!DashboardEntry
<1>1. PICK e : e = N!DashboardEntry
  OBVIOUS
<1>2. e \in Entries /\ e.note = None
  BY <1>1 DEF N!DashboardEntry, N!Entry, Entries, NoteOrNone
<1>3. PICK u : u = IF t.note = None THEN p ELSE N!SetRoute(p, e, TRUE)
  OBVIOUS
<1>4. /\ PageSound(u) /\ AddressOnly(p, u) /\ N!Here(u) = IF t.note = None THEN N!Here(p) ELSE e
      /\ u = p \/ StackFrom(p, u, None)
  <2>1. CASE t.note = None
    BY <1>3, <2>1 DEF Ready, AddressOnly, SameLook, SameEdit, SameRun
  <2>2. CASE t.note # None
    <3>1. u = N!SetRoute(p, e, TRUE) /\ PageSound(p)
      BY <1>3, <2>2 DEF Ready
    <3>2. PageSound(u) /\ N!Here(u) = e /\ StackFrom(p, u, e.note) /\ AddressOnly(p, u)
      BY <1>2, <3>1, RouteSet
    <3> QED BY <1>2, <2>2, <3>2
  <2> QED BY <2>1, <2>2
<1>5. PICK v : v = N!Cleared(u)
  OBVIOUS
<1>6. /\ PageSound(v) /\ NewSession(u, v, None, u.text) /\ v.saved = u.text
      /\ SameRoute(u, v) /\ SameLook(u, v) /\ SameRun(u, v) /\ v.gaps = u.gaps
      /\ N!Here(v) = N!Here(u)
  BY <1>4, <1>5, EditorCleared
<1>7. /\ PageSound(r) /\ SameEdit(v, r) /\ SameRoute(v, r) /\ SameRun(v, r)
      /\ r.screen = "dashboard" /\ r.prefsOpen = v.prefsOpen /\ r.gaps = v.gaps
      /\ N!Here(r) = N!Here(v)
  BY <1>1, <1>3, <1>5, <1>6, DashboardShown DEF MissingPage
<1>8. Renewed(t, p, r)
  BY <1>4, <1>6, <1>7 DEF Renewed, NewSession, SameEdit, AddressOnly, Ready
<1>9. /\ r.current = None /\ r.prefsOpen = p.prefsOpen /\ r.gaps = p.gaps /\ SameRun(p, r)
      /\ ~r.dirty
  BY <1>4, <1>6, <1>7 DEF NewSession, SameEdit, AddressOnly, SameLook, SameRun
<1>10. \A k \in 1 .. Len(r.stack) :
       \/ r.stack[k].note = None
       \/ \E j \in 1 .. Len(p.stack) : r.stack[k].note = p.stack[j].note
  BY <1>4, <1>6, <1>7 DEF StackFrom, SameRoute
<1>11. p.travel \in Nat /\ p.generation \in Nat
  BY DEF Ready, PageSound, PageType
<1>12. ViewFollows(t, p, r)
  BY <1>7, <1>8, <1>9, <1>10, <1>11 DEF ViewFollows, SameRun
<1> QED BY <1>1, <1>4, <1>6, <1>7, <1>8, <1>9, <1>12

LEMMA MissingSound ==
  ASSUME NEW t, RouterTask(t), NEW p, Ready(p)
  PROVE  LET o == N!Missing(t, p) IN
         /\ OutcomeSound(t, p, o)
         /\ o.t.pc = "idle" \/ Renewed(t, p, o.p)
         /\ Renewed(t, p, o.p) => o.p.screen = "dashboard" /\ (t.prefs /\ t.note = None => o.t.prefs)
<1>1. t \in TaskType /\ PageSound(p)
  BY DEF RouterTask, Ready
<1>0. N!Idle.pc = "idle"
  BY DEF N!Idle
<1>2. CASE ~N!Current(t, p)
  <2>1. N!Missing(t, p) = N!End(p)
    BY <1>2 DEF N!Missing
  <2>2. ~Renewed(t, p, p)
    BY <1>1 DEF Renewed, PageSound, PageType
  <2> QED BY <1>0, <1>1, <2>1, <2>2, PageStays, EndSound
<1>3. CASE N!Current(t, p)
  <2>1. PICK r : r = MissingPage(t, p)
    OBVIOUS
  <2>2. ViewFollows(t, p, r) /\ r.screen = "dashboard" /\ Renewed(t, p, r)
    BY <1>1, <2>1, MissingPageFollows
  <2>3. PICK z : z = IF r.prefsOpen THEN N!Gap(r, "under preferences") ELSE r
    BY Zenon
  <2>4. "under preferences" \in Passes /\ PageSound(r)
    BY <2>2 DEF Passes, ViewFollows
  <2>5. ViewFollows(t, p, z) /\ SameEdit(r, z) /\ SameRoute(r, z) /\ z.screen = "dashboard"
    <3>1. CASE r.prefsOpen
      <4>1. z = N!Gap(r, "under preferences")
        BY <2>3, <3>1
      <4>2. ViewFollows(t, p, z)
        BY Zenon, <1>1, <2>2, <2>4, <4>1, GapCovers
      <4>3. SameEdit(r, z) /\ SameRoute(r, z) /\ SameLook(r, z)
        BY Zenon, <2>4, <4>1, GapNoted
      <4> QED BY <2>2, <4>2, <4>3 DEF SameLook
    <3>2. CASE ~r.prefsOpen
      BY <2>2, <2>3, <3>2 DEF SameEdit, SameRoute
    <3> QED BY <3>1, <3>2
  <2>9. Renewed(t, p, z)
    BY <2>2, <2>5 DEF Renewed, SameEdit, SameRoute
  <2>6. N!Missing(t, p) = IF t.prefs /\ t.note = None THEN N!At(t, "prefsDashboard", z) ELSE N!End(z)
    BY Zenon, <1>3, <2>1, <2>3 DEF N!Missing, MissingPage
  <2>7. CASE t.prefs /\ t.note = None
    <3>1. "prefsDashboard" \in Stops \ {"idle", "saving", "leaveSaved", "restoreSaved"}
      BY DEF Stops, N!Runnable
    <3>2. Shape(t, "prefsDashboard")
      BY <2>7 DEF Shape, RouterStops, RouterTask
    <3>3. PICK o : o = N!At(t, "prefsDashboard", z)
      OBVIOUS
    <3>4. OutcomeSound(t, p, o) /\ o.p = z /\ Carried(t, o.t)
      BY <1>1, <2>5, <3>1, <3>2, <3>3, AtSound
    <3>5. o.t.prefs
      BY <2>7, <3>4 DEF Carried
    <3> QED BY <2>5, <2>6, <2>7, <2>9, <3>3, <3>4, <3>5
  <2>8. CASE ~(t.prefs /\ t.note = None)
    BY <1>0, <1>1, <2>5, <2>6, <2>8, <2>9, EndSound
  <2> QED BY <2>7, <2>8
<1> QED BY <1>2, <1>3

LEMMA PrefsDashboardSound ==
  ASSUME NEW t \in TaskType, NEW p, Ready(p)
  PROVE  OutcomeSound(t, p, N!PrefsDashboard(t, p))
<1>1. ViewFollows(t, p, p) /\ PageSound(p)
  BY PageStays DEF Ready
<1>2. ViewFollows(t, p, [p EXCEPT !.prefsOpen = TRUE])
  BY <1>1, PreferencesCover
<1> QED BY <1>1, <1>2, EndSound DEF N!PrefsDashboard

LEMMA RestoreNoteSound ==
  ASSUME NEW t, RouterTask(t), NEW p, Ready(p)
  PROVE  LET o == N!RestoreNote(t, p) IN
         /\ OutcomeSound(t, p, o)
         /\ Renewed(t, p, o.p) => o.p.screen = "dashboard" /\ (t.prefs => o.t.prefs)
         /\ \/ o.t.pc = "idle" \/ Renewed(t, p, o.p)
            \/ o.t.pc = "readLocal" /\ Carried(t, o.t) /\ t.note # None
<1>1. CASE t.note = None
  BY <1>1, MissingSound DEF N!RestoreNote
<1>2. CASE t.note # None
  <2>1. "readLocal" \in Stops \ {"idle", "saving", "leaveSaved", "restoreSaved"}
    BY DEF Stops, N!Runnable
  <2>2. Shape(t, "readLocal") /\ t \in TaskType
    BY <1>2 DEF Shape, RouterStops, RouterTask
  <2>3. ~Renewed(t, p, p) /\ PageSound(p)
    BY DEF Renewed, Ready, PageSound, PageType
  <2>4. /\ OutcomeSound(t, p, N!At(t, "readLocal", p)) /\ N!At(t, "readLocal", p).p = p
        /\ Carried(t, N!At(t, "readLocal", p).t) /\ N!At(t, "readLocal", p).t.pc = "readLocal"
    BY <2>1, <2>2, <2>3, PageStays, AtSound
  <2> QED BY <1>2, <2>3, <2>4 DEF N!RestoreNote
<1> QED BY <1>1, <1>2

(* A restore of the preferences that looks for the note they were opened     *)
(* over: it saves what the editor holds when it finds the note, and puts up  *)
(* the dashboard over it when it does not.                                   *)
Passing(t) == t.prefs /\ t.pc \in {"readLocal", "fetch"}

PassesBy(t, p, o) ==
  /\ Kept(t, p, o.p) => o.t.pc \in {"idle", "saving"} \/ (Passing(o.t) /\ o.t.note = t.note)
  /\ Renewed(t, p, o.p) => o.p.screen = "dashboard"

LEMMA MissingPasses ==
  ASSUME NEW t, RouterTask(t), NEW p, Ready(p)
  PROVE  PassesBy(t, p, N!Missing(t, p))
<1>1. PICK o : o = N!Missing(t, p)
  OBVIOUS
<1>2. /\ o.t.pc = "idle" \/ Renewed(t, p, o.p)
      /\ Renewed(t, p, o.p) => o.p.screen = "dashboard"
  BY <1>1, MissingSound
<1>3. Kept(t, p, o.p) => ~Renewed(t, p, o.p)
  BY DEF Kept, Renewed, Ready, PageSound, PageType
<1> QED BY <1>1, <1>2, <1>3 DEF PassesBy

LEMMA EndPasses ==
  ASSUME NEW t, NEW p, Ready(p), NEW q, q.session = p.session
  PROVE  PassesBy(t, p, N!End(q))
<1>1. N!End(q).t.pc = "idle" /\ N!End(q).p = q
  BY DEF N!End, N!Out, N!Idle
<1>2. ~Renewed(t, p, q)
  BY DEF Renewed, Ready, PageSound, PageType
<1> QED BY <1>1, <1>2 DEF PassesBy

\* A note that is found is opened: the edit of another one is saved first.
LEMMA OpenNotePasses ==
  ASSUME NEW t, RouterTask(t), t.note # None, NEW p, Ready(p), store[t.note] # None \/ t.pc = "fetch",
         N!Editing(p), p.dirty, p.current # t.note
  PROVE  PassesBy(t, p, N!OpenNote(t, p))
<1>1. PICK o : o = N!OpenNote(t, p)
  OBVIOUS
<1>2. o.t.pc = "saving" /\ SameEdit(p, o.p)
  BY <1>1, OpenNoteSound DEF RouterTask
<1>3. ~Renewed(t, p, o.p)
  BY <1>2 DEF Renewed, SameEdit, Ready, PageSound, PageType
<1> QED BY <1>1, <1>2, <1>3 DEF PassesBy

LEMMA ReadLocalPasses ==
  ASSUME NEW t, RouterTask(t), t.note # None, t.prefs, NEW p, Ready(p), N!Editing(p), p.dirty,
         p.current # t.note
  PROVE  PassesBy(t, p, N!ReadLocal(t, p))
<1>1. t \in TaskType /\ t.gen # 0 /\ t.route = "none" /\ PageSound(p)
  BY DEF RouterTask, Ready
<1>2. [t EXCEPT !.route = "none"] = t
  BY <1>1 DEF TaskType
<1>3. PassesBy(t, p, N!End(p)) /\ PassesBy(t, p, N!Missing(t, p))
  BY MissingPasses, EndPasses
<1>4. store[t.note] # None => PassesBy(t, p, N!OpenNote(t, p))
  BY OpenNotePasses
<1>5. PassesBy(t, p, N!At(t, "fetch", p))
  <2>1. PICK u : u = [t EXCEPT !.pc = "fetch"]
    OBVIOUS
  <2>2. u.prefs /\ u.pc = "fetch" /\ u.note = t.note
    BY <1>1, <2>1 DEF TaskType
  <2>3. N!At(t, "fetch", p) = [t |-> u, p |-> p, save |-> FALSE]
    BY <2>1 DEF N!At, N!Out
  <2>4. ~Renewed(t, p, p)
    BY <1>1 DEF Renewed, PageSound, PageType
  <2> QED BY <2>2, <2>3, <2>4 DEF PassesBy, Passing
<1> QED BY <1>2, <1>3, <1>4, <1>5 DEF N!ReadLocal

LEMMA ReadLocalSound ==
  ASSUME NEW t, RouterTask(t), t.note # None, NEW p, Ready(p)
  PROVE  OutcomeSound(t, p, N!ReadLocal(t, p))
<1>1. t \in TaskType /\ t.gen # 0 /\ t.route = "none" /\ PageSound(p)
  BY DEF RouterTask, Ready
<1>2. [t EXCEPT !.route = "none"] = t
  BY <1>1 DEF TaskType
<1>3. "fetch" \in Stops \ {"idle", "saving", "leaveSaved", "restoreSaved"} /\ Shape(t, "fetch")
  BY <1>1 DEF Stops, Shape, RouterStops
<1>4. CASE store[t.note] # None
  <2>1. OutcomeSound(t, p, N!OpenNote(t, p))
    BY <1>1, <1>4, OpenNoteSound
  <2> QED BY <1>1, <1>2, <1>4, <2>1, PageStays, EndSound DEF N!ReadLocal
<1>5. CASE store[t.note] = None
  <2>1. OutcomeSound(t, p, N!End(p)) /\ OutcomeSound(t, p, N!At(t, "fetch", p))
    BY <1>1, <1>3, PageStays, EndSound, AtSound
  <2>2. OutcomeSound(t, p, N!Missing(t, p))
    BY MissingSound
  <2> QED BY <1>5, <2>1, <2>2 DEF N!ReadLocal
<1> QED BY <1>4, <1>5

LEMMA RestorePreferencesSound ==
  ASSUME NEW t, RouterTask(t), NEW p, Ready(p)
  PROVE  LET o == N!RestorePreferences(t, p) IN
         /\ OutcomeSound(t, p, o)
         /\ Renewed(t, p, o.p) => o.p.screen = "dashboard" /\ (t.prefs => o.t.prefs)
         /\ \/ o.t.pc = "idle" \/ Renewed(t, p, o.p)
            \/ o.t.pc = "readLocal" /\ Carried(t, o.t) /\ t.note # None
<1>1. t \in TaskType /\ PageSound(p)
  BY DEF RouterTask, Ready
<1>2. PICK q : q = [p EXCEPT !.prefsOpen = TRUE]
  OBVIOUS
<1>3. ViewFollows(t, p, q) /\ N!Here(q) = N!Here(p)
  BY <1>1, <1>2, PageStays, PreferencesCover, PreferencesShown
<1>4. N!RestorePreferences(t, p) \in {N!End(q), N!RestoreNote(t, p)}
  BY <1>2 DEF N!RestorePreferences
<1>5. CASE N!RestorePreferences(t, p) = N!End(q)
  <2>1. ~Renewed(t, p, q)
    BY <1>1, <1>2 DEF Renewed, PageSound, PageType
  <2>2. N!Idle.pc = "idle"
    BY DEF N!Idle
  <2> QED BY <1>1, <1>3, <1>5, <2>1, <2>2, EndSound
<1>6. CASE N!RestorePreferences(t, p) = N!RestoreNote(t, p)
  BY <1>6, RestoreNoteSound
<1> QED BY <1>4, <1>5, <1>6

LEMMA RestoreScreenSound ==
  ASSUME NEW t, RouterTask(t), NEW p, Ready(p)
  PROVE  OutcomeSound(t, p, N!RestoreScreen(t, p))
<1>1. t \in TaskType /\ PageSound(p)
  BY DEF RouterTask, Ready
<1>2. PICK q : q = IF t.leaving THEN [p EXCEPT !.prefsOpen = FALSE] ELSE p
  OBVIOUS
<1>3. /\ ViewFollows(t, p, q) /\ PageSound(q) /\ SameEdit(p, q) /\ SameRoute(p, q) /\ SameRun(p, q)
      /\ q.screen = p.screen /\ q.gaps = p.gaps
  <2>1. CASE t.leaving
    BY <1>1, <1>2, <2>1, PageStays, PreferencesCover, PreferencesShown
  <2>2. CASE ~t.leaving
    BY <1>1, <1>2, <2>2, PageStays DEF SameEdit, SameRoute, SameRun
  <2> QED BY <2>1, <2>2
<1>4. N!RestoreScreen(t, p) \in {N!End(p), N!End(q), N!RestoreNote(t, q)}
  BY <1>2 DEF N!RestoreScreen
<1>5. CASE N!RestoreScreen(t, p) \in {N!End(p), N!End(q)}
  BY <1>1, <1>3, <1>5, PageStays, EndSound
<1>6. CASE N!RestoreScreen(t, p) = N!RestoreNote(t, q)
  <2>1. Ready(q)
    BY <1>3 DEF Ready, SameEdit
  <2>2. OutcomeSound(t, q, N!RestoreNote(t, q))
    BY <2>1, RestoreNoteSound
  <2>3. p.generation \in Nat
    BY <1>1 DEF PageSound, PageType
  <2> QED BY <1>1, <1>3, <1>6, <2>2, <2>3, FollowsFrom DEF SameEdit, SameRun
<1> QED BY <1>4, <1>5, <1>6

(* The address and the flag of the preferences.                              *)
LEMMA PreferencesRoute ==
  ASSUME NEW t \in TaskType, NEW p, PageSound(p), NEW replace \in BOOLEAN, NEW q,
         q = [N!SetPreferences(p, replace) EXCEPT !.prefsOpen = TRUE]
  PROVE  /\ ViewFollows(t, p, q) /\ SameEdit(p, q) /\ q.screen = p.screen /\ q.prefsOpen
         /\ SameRun(p, q) /\ q.gaps = p.gaps
         /\ N!Here(q).screen = "preferences" /\ N!Here(q).note = N!Here(p).note
<1>1. PICK u : u = N!SetPreferences(p, replace)
  OBVIOUS
<1>2. /\ PageSound(u) /\ StackFrom(p, u, N!Here(p).note) /\ AddressOnly(p, u)
      /\ N!Here(u).screen = "preferences" /\ N!Here(u).note = N!Here(p).note
  BY <1>1, PreferencesSet
<1>3. /\ PageSound(q) /\ SameEdit(u, q) /\ SameRoute(u, q) /\ SameRun(u, q)
      /\ q.screen = u.screen /\ q.prefsOpen /\ q.gaps = u.gaps /\ N!Here(q) = N!Here(u)
  <2>1. q = [u EXCEPT !.prefsOpen = TRUE] /\ PageSound(u)
    BY <1>1, <1>2
  <2>2. PICK open \in BOOLEAN : open = TRUE
    OBVIOUS
  <2>3. q = [u EXCEPT !.prefsOpen = open]
    BY <2>1, <2>2
  <2> QED BY <2>1, <2>2, <2>3, PreferencesShown
<1>4. \A k \in 1 .. Len(q.stack) : \E j \in 1 .. Len(p.stack) : q.stack[k].note = p.stack[j].note
  <2>1. N!Here(p).note = p.stack[p.at].note /\ p.at \in 1 .. Len(p.stack)
    BY DEF N!Here, PageSound
  <2> QED BY <1>2, <1>3, <2>1 DEF StackFrom, SameRoute
<1>5. p.generation \in Nat /\ p.travel \in Nat
  BY DEF PageSound, PageType
<1>6. SameEdit(p, q) /\ q.screen = p.screen /\ SameRun(p, q) /\ q.gaps = p.gaps
  BY <1>2, <1>3 DEF AddressOnly, SameEdit, SameLook, SameRun
<1>7. Kept(t, p, q)
  BY <1>6 DEF Kept, SameEdit
<1> QED BY <1>2, <1>3, <1>4, <1>5, <1>6, <1>7 DEF ViewFollows, SameRun

LEMMA RestoreSavedSound ==
  ASSUME NEW t, TaskSound(t), t.pc \in {"leaveSaved", "restoreSaved"}, NEW p, Ready(p)
  PROVE  OutcomeSound(t, p, N!RestoreSaved(t, p))
<1>1. RouterTask(t) /\ t \in TaskType /\ PageSound(p)
  BY RouterTasks DEF Stop, RouterTask, Ready
<1>2. /\ OutcomeSound(t, p, N!RestoreScreen(t, p)) /\ OutcomeSound(t, p, N!RestorePreferences(t, p))
      /\ OutcomeSound(t, p, N!End(p))
  BY <1>1, RestoreScreenSound, RestorePreferencesSound, PageStays, EndSound
<1>3. OutcomeSound(t, p, N!BackToPreferences(p))
  BY <1>1, PreferencesRoute, EndSound DEF N!BackToPreferences
<1> QED BY <1>2, <1>3 DEF N!RestoreSaved

(* The task of a restore that begins at the page p.                          *)
RestoreTask(p, fetch, popped) ==
  [N!Idle EXCEPT !.gen = p.generation + 1, !.note = N!Here(p).note,
                 !.prefs = (N!Here(p).screen = "preferences"),
                 !.leaving = (N!Here(p).screen # "preferences" /\ p.prefsOpen),
                 !.fetch = fetch, !.popped = popped]

LEMMA RestoreTaskSound ==
  ASSUME NEW p, Ready(p), NEW fetch \in BOOLEAN, NEW popped \in BOOLEAN, NEW t,
         t = RestoreTask(p, fetch, popped)
  PROVE  /\ RouterTask(t) /\ t.gen = p.generation + 1 /\ t.note = N!Here(p).note
         /\ t.prefs = (N!Here(p).screen = "preferences")
         /\ t.leaving = (N!Here(p).screen # "preferences" /\ p.prefsOpen)
         /\ t.popped = popped /\ t.pc = "idle" /\ t.after = "idle"
<1>1. PICK g \in Nat : g = p.generation + 1 /\ g # 0
  BY DEF Ready, PageSound, PageType
<1>2. PICK n \in NoteOrNone : n = N!Here(p).note
  BY HereTyped DEF Ready
<1>3. PICK a \in BOOLEAN : a = (N!Here(p).screen = "preferences")
  OBVIOUS
<1>4. PICK b \in BOOLEAN : b = (N!Here(p).screen # "preferences" /\ p.prefsOpen)
  BY DEF Ready, PageSound, PageType
<1>5. t = [N!Idle EXCEPT !.gen = g, !.note = n, !.prefs = a, !.leaving = b, !.fetch = fetch,
                         !.popped = popped]
  BY <1>1, <1>2, <1>3, <1>4 DEF RestoreTask
<1>6. t \in TaskType
  <2>1. PICK u : u = [N!Idle EXCEPT !.gen = g, !.note = n, !.prefs = a]
    OBVIOUS
  <2>2. u \in TaskType
    BY <2>1, IdleSound DEF TaskType
  <2>3. t = [u EXCEPT !.leaving = b, !.fetch = fetch, !.popped = popped]
    BY <1>5, <2>1
  <2> QED BY <2>2, <2>3 DEF TaskType
<1> QED BY <1>1, <1>2, <1>3, <1>4, <1>5, <1>6 DEF N!Idle, RouterTask

LEMMA RestoreRouteSound ==
  ASSUME NEW p, Ready(p), NEW fetch \in BOOLEAN, NEW popped \in BOOLEAN, NEW t,
         t = RestoreTask(p, fetch, popped), NEW o, o = N!RestoreRoute(p, fetch, popped)
  PROVE  /\ OutcomeSound(t, p, o)
         /\ Renewed(t, p, o.p) => \/ o.p.screen = "dashboard" /\ o.t.prefs
                                  \/ ~N!Editing(p) \/ ~p.dirty
         /\ \/ o.t.pc \in {"idle", "saving"} \/ Renewed(t, p, o.p)
            \/ Passing(o.t) /\ o.t.note # p.current
            \/ ~N!Editing(p) \/ ~p.dirty
<1>1. /\ RouterTask(t) /\ t.gen = p.generation + 1 /\ t.note = N!Here(p).note
      /\ t.prefs = (N!Here(p).screen = "preferences")
      /\ t.leaving = (N!Here(p).screen # "preferences" /\ p.prefsOpen)
      /\ t.pc = "idle" /\ t \in TaskType
  BY RestoreTaskSound DEF RouterTask
<1>2. PICK g \in Nat : g = p.generation + 1 /\ p.generation <= g
  BY DEF Ready, PageSound, PageType
<1>3. PICK q : q = [p EXCEPT !.generation = g]
  OBVIOUS
<1>4. /\ PageSound(q) /\ SameEdit(p, q) /\ SameLook(p, q) /\ SameRoute(p, q) /\ q.gaps = p.gaps
      /\ q.travel = p.travel /\ q.answered = p.answered /\ q.restoring = p.restoring
      /\ q.generation = g
  BY <1>3 DEF Ready, PageSound, PageType, SameEdit, SameLook, SameRoute
<1>8. Ready(q)
  BY <1>4 DEF Ready, SameEdit
<1>9. p.travel \in Nat /\ PageSound(p)
  BY DEF Ready, PageSound, PageType
<1>10. ViewFollows(t, p, q)
  BY <1>2, <1>4, <1>9 DEF ViewFollows, Kept, SameEdit, SameLook, SameRoute
<1>11. N!RestoreRoute(p, fetch, popped) =
         LET same == t.note # None /\ p.current = t.note /\ p.dirty
         IN  IF (t.prefs \/ t.leaving) /\ same THEN N!Saving(t, "leaveSaved", q)
             ELSE IF t.prefs THEN N!RestorePreferences(t, q)
             ELSE IF N!Editing(p) /\ p.dirty THEN N!Saving(t, "restoreSaved", q)
             ELSE N!RestoreScreen(t, q)
  <2>1. t = [N!Idle EXCEPT !.gen = q.generation, !.note = N!Here(p).note,
                           !.prefs = (N!Here(p).screen = "preferences"),
                           !.leaving = (~(N!Here(p).screen = "preferences") /\ p.prefsOpen),
                           !.fetch = fetch, !.popped = popped]
    BY <1>2, <1>4 DEF RestoreTask
  <2>2. q = [p EXCEPT !.generation = @ + 1]
    BY <1>2, <1>3
  <2>3. N!RestoreRoute(p, fetch, popped) =
          LET same == t.note # None /\ p.current = t.note /\ p.dirty
          IN  IF (N!Here(p).screen = "preferences" \/ t.leaving) /\ same THEN N!Saving(t, "leaveSaved", q)
              ELSE IF N!Here(p).screen = "preferences" THEN N!RestorePreferences(t, q)
              ELSE IF N!Editing(p) /\ p.dirty THEN N!Saving(t, "restoreSaved", q)
              ELSE N!RestoreScreen(t, q)
    BY <2>1, <2>2 DEF N!RestoreRoute
  <2>4. N!Here(p).screen = "preferences" <=> t.prefs
    BY <1>1
  <2> QED BY <2>3, <2>4
<1>12. CASE o = N!Saving(t, "leaveSaved", q) \/ (o = N!Saving(t, "restoreSaved", q) /\ ~t.prefs)
  <2>1. "leaveSaved" \in Afters /\ "restoreSaved" \in Afters
    BY DEF Afters
  <2>2. Shape(t, "leaveSaved") /\ (~t.prefs => Shape(t, "restoreSaved"))
    BY <1>1 DEF Shape, RouterStops, RouterTask
  <2>3. OutcomeSound(t, p, o) /\ o.p = q /\ o.t.pc = "saving"
    BY <1>1, <1>10, <1>12, <2>1, <2>2, SavingSound
  <2>4. ~Renewed(t, p, o.p)
    BY <1>4, <1>9, <2>3 DEF Renewed, SameEdit, PageSound, PageType
  <2> QED BY <2>3, <2>4
<1>13. CASE /\ o = N!RestorePreferences(t, q) /\ t.prefs
            /\ ~(t.note # None /\ p.current = t.note /\ p.dirty)
  <2>1. /\ OutcomeSound(t, q, o)
        /\ Renewed(t, q, o.p) => o.p.screen = "dashboard" /\ (t.prefs => o.t.prefs)
        /\ \/ o.t.pc = "idle" \/ Renewed(t, q, o.p)
           \/ o.t.pc = "readLocal" /\ Carried(t, o.t) /\ t.note # None
    BY <1>1, <1>8, <1>13, RestorePreferencesSound
  <2>2. OutcomeSound(t, p, o)
    BY <1>1, <1>2, <1>4, <1>9, <2>1, FollowsFrom DEF SameEdit, SameLook
  <2>3. Renewed(t, p, o.p) <=> Renewed(t, q, o.p)
    BY <1>4 DEF Renewed, SameRoute, SameEdit
  <2>4. o.t.pc = "readLocal" /\ Carried(t, o.t) /\ t.note # None /\ p.dirty
          => Passing(o.t) /\ o.t.note # p.current
    BY <1>13 DEF Carried, Passing
  <2> QED BY <1>13, <2>1, <2>2, <2>3, <2>4
<1>14. CASE o = N!RestoreScreen(t, q) /\ ~(N!Editing(p) /\ p.dirty)
  <2>1. OutcomeSound(t, q, o)
    BY <1>1, <1>8, <1>14, RestoreScreenSound
  <2>2. OutcomeSound(t, p, o)
    BY <1>1, <1>2, <1>4, <1>9, <2>1, FollowsFrom DEF SameEdit, SameLook
  <2> QED BY <1>14, <2>2
<1> QED BY <1>1, <1>11, <1>12, <1>13, <1>14

-----------------------------------------------------------------------------
(* The other tasks.                                                          *)
LEMMA StartReadSound ==
  ASSUME NEW t, TaskSound(t), t.pc = "startRead", NEW p, Ready(p)
  PROVE  OutcomeSound(t, p, N!StartRead(t, p))
<1>1. RouterTask(t) /\ t \in TaskType /\ PageSound(p) /\ t.note # None /\ t.gen # 0 /\ t.route = "none"
  BY RouterTasks DEF Stop, RouterTask, Ready, TaskSound, Shape
<1>2. "startList" \in Stops \ {"idle", "saving", "leaveSaved", "restoreSaved"} /\ Shape(t, "startList")
  BY <1>1 DEF Stops, N!Runnable, Shape, RouterStops
<1>3. OutcomeSound(t, p, N!End(p)) /\ OutcomeSound(t, p, N!At(t, "startList", p))
  BY <1>1, <1>2, PageStays, EndSound, AtSound
<1>4. store[t.note] # None => OutcomeSound(t, p, N!OpenNote(t, p))
  BY <1>1, OpenNoteSound
<1> QED BY <1>3, <1>4 DEF N!StartRead

LEMMA StartListSound ==
  ASSUME NEW t, TaskSound(t), t.pc = "startList", NEW p, Ready(p)
  PROVE  OutcomeSound(t, p, N!StartList(t, p))
<1>1. t \in TaskType /\ PageSound(p)
  BY DEF TaskSound, Ready
<1>2. PICK q : q = N!Dashboard(p)
  OBVIOUS
<1>3. ViewFollows(t, p, q)
  BY <1>1, <1>2, DashboardShown, PageKept
<1>4. "late startup" \in Passes
  BY DEF Passes
<1>5. ViewFollows(t, p, N!Gap(q, "late startup"))
  BY Zenon, <1>1, <1>3, <1>4, GapCovers
<1> QED BY Zenon, <1>1, <1>2, <1>3, <1>5, EndSound DEF N!StartList

(* The editor emptied by the Back button.                                    *)
LEMMA ClearedFollows ==
  ASSUME NEW t \in TaskType, NEW p, Ready(p), NEW z, PageSound(z), NewSession(p, z, None, p.text),
         z.saved = p.text, SameRoute(p, z), p.gaps = z.gaps, z.generation = p.generation,
         z.restoring = p.restoring, z.answered = p.answered, p.travel <= z.travel,
         z.screen = "none" => p.screen = "none"
  PROVE  ViewFollows(t, p, z) /\ Renewed(t, p, z)
<1>1. p.generation \in Nat
  BY DEF Ready, PageSound, PageType
<1>2. Renewed(t, p, z)
  BY DEF Renewed, NewSession, Ready
<1> QED BY <1>1, <1>2 DEF ViewFollows, SameRoute

LEMMA BackSavedSound ==
  ASSUME NEW t, TaskSound(t), t.pc = "backSaved", NEW p, Ready(p)
  PROVE  LET o == N!BackSaved(t, p) IN
         /\ OutcomeSound(t, p, o) /\ Renewed(t, p, o.p) /\ SameRoute(p, o.p) /\ o.p.gaps = p.gaps
         /\ o.p.current = None /\ o.p.prefsOpen = p.prefsOpen /\ o.p.generation = p.generation
         /\ \/ N!Here(p).screen = "note" /\ o.p.travel > 0 /\ o.t.pc = "backWait" /\ o.p.screen = p.screen
            \/ o.t.pc = "backDone" /\ o.p.screen = "dashboard"
<1>1. t \in TaskType /\ PageSound(p) /\ t.gen = 0 /\ ~t.prefs
  BY DEF TaskSound, Stop, Shape, RouterStops, Ready
<1>2. /\ "backWait" \in Stops \ {"idle", "saving", "leaveSaved", "restoreSaved"}
      /\ "backDone" \in Stops \ {"idle", "saving", "leaveSaved", "restoreSaved"}
      /\ Shape(t, "backWait") /\ Shape(t, "backDone")
  BY <1>1 DEF Stops, N!Runnable, Shape, OtherStops
<1>3. PICK q : q = N!Cleared(p)
  OBVIOUS
<1>4. /\ PageSound(q) /\ NewSession(p, q, None, p.text) /\ q.saved = p.text
      /\ SameRoute(p, q) /\ SameLook(p, q) /\ SameRun(p, q) /\ q.gaps = p.gaps
  BY <1>1, <1>3, EditorCleared
<1>5. CASE N!Here(p).screen = "note"
  <2>0. q.travel \in Nat /\ q.travel = p.travel
    BY <1>4 DEF PageSound, PageType, SameRun
  <2>1. PICK k \in Nat : k = q.travel + 1 /\ k > 0 /\ p.travel <= k
    BY <2>0
  <2>2. PICK z : z = [q EXCEPT !.travel = k]
    OBVIOUS
  <2>3. /\ PageSound(z) /\ NewSession(p, z, None, p.text) /\ z.saved = p.text /\ SameRoute(p, z)
        /\ z.gaps = p.gaps /\ z.generation = p.generation /\ z.restoring = p.restoring
        /\ z.answered = p.answered /\ z.travel = k /\ SameLook(p, z)
    BY <1>4, <2>2 DEF PageSound, PageType, NewSession, SameRoute, SameRun, SameLook
  <2>4. ViewFollows(t, p, z) /\ Renewed(t, p, z)
    BY <1>1, <2>1, <2>3, ClearedFollows DEF SameLook
  <2>5. N!BackSaved(t, p) = N!At(t, "backWait", z)
    BY <1>3, <1>5, <2>1, <2>2 DEF N!BackSaved
  <2>6. /\ OutcomeSound(t, p, N!At(t, "backWait", z)) /\ N!At(t, "backWait", z).p = z
        /\ N!At(t, "backWait", z).t.pc = "backWait"
    BY <1>1, <1>2, <2>4, AtSound
  <2> QED BY <1>5, <2>1, <2>3, <2>4, <2>5, <2>6 DEF NewSession, SameLook
<1>6. CASE N!Here(p).screen # "note"
  <2>1. PICK z : z = N!Dashboard(q)
    OBVIOUS
  <2>2. /\ PageSound(z) /\ SameEdit(q, z) /\ SameRoute(q, z) /\ SameRun(q, z)
        /\ z.screen = "dashboard" /\ z.prefsOpen = q.prefsOpen /\ z.gaps = q.gaps
    BY <1>4, <2>1, DashboardShown
  <2>3. /\ NewSession(p, z, None, p.text) /\ z.saved = p.text /\ SameRoute(p, z)
        /\ z.gaps = p.gaps /\ SameRun(p, z) /\ z.prefsOpen = p.prefsOpen
    BY <1>4, <2>2 DEF NewSession, SameEdit, SameRoute, SameRun, SameLook
  <2>4. p.travel \in Nat
    BY <1>1 DEF PageSound, PageType
  <2>5. ViewFollows(t, p, z) /\ Renewed(t, p, z)
    BY <1>1, <2>2, <2>3, <2>4, ClearedFollows DEF SameRun
  <2>6. N!BackSaved(t, p) = N!At(t, "backDone", z)
    BY <1>3, <1>6, <2>1 DEF N!BackSaved
  <2>7. /\ OutcomeSound(t, p, N!At(t, "backDone", z)) /\ N!At(t, "backDone", z).p = z
        /\ N!At(t, "backDone", z).t.pc = "backDone"
    BY <1>1, <1>2, <2>5, AtSound
  <2> QED BY <2>2, <2>3, <2>5, <2>6, <2>7 DEF NewSession, SameRun
<1> QED BY <1>5, <1>6

LEMMA BackDoneSound ==
  ASSUME NEW t \in TaskType, NEW p, Ready(p)
  PROVE  LET o == N!BackDone(t, p) IN
         /\ OutcomeSound(t, p, o) /\ o.t = N!Idle /\ Kept(t, p, o.p) /\ o.p.screen = p.screen
         /\ N!Here(o.p) = N!DashboardEntry
         /\ \/ o.p.gaps # {}
            \/ /\ ~p.prefsOpen /\ ~N!Editing(p) /\ ~N!RestoreUnderWay
               /\ SameEdit(p, o.p) /\ o.p.prefsOpen = p.prefsOpen
               /\ SameRun(p, o.p) /\ o.p.gaps = p.gaps
<1>1. PageSound(p)
  BY DEF Ready
<1>2. PICK g : g = IF p.prefsOpen \/ N!Editing(p) \/ N!RestoreUnderWay THEN N!Gap(p, "late back") ELSE p
  BY Zenon
<1>3. "late back" \in Passes
  BY DEF Passes
<1>4. /\ PageSound(g) /\ N!Here(g) = N!Here(p) /\ SameRoute(p, g) /\ SameLook(p, g) /\ SameEdit(p, g)
      /\ SameRun(p, g) /\ ViewFollows(t, p, g)
      /\ \/ g.gaps # {}
         \/ ~p.prefsOpen /\ ~N!Editing(p) /\ ~N!RestoreUnderWay /\ g.gaps = p.gaps
  <2>1. CASE p.prefsOpen \/ N!Editing(p) \/ N!RestoreUnderWay
    BY Zenon, <1>1, <1>2, <1>3, <2>1, GapNoted, GapFollows
  <2>2. CASE ~(p.prefsOpen \/ N!Editing(p) \/ N!RestoreUnderWay)
    BY <1>1, <1>2, <2>2, PageStays DEF SameRoute, SameLook, SameEdit, SameRun
  <2> QED BY <2>1, <2>2
<1>5. PICK e : e = N!DashboardEntry
  OBVIOUS
<1>6. e \in Entries /\ e.note = None
  BY <1>5 DEF N!DashboardEntry, N!Entry, Entries, NoteOrNone
<1>7. PICK r : r = N!SetRoute(g, e, TRUE)
  OBVIOUS
<1>8. PageSound(r) /\ N!Here(r) = e /\ StackFrom(g, r, e.note) /\ AddressOnly(g, r)
  <2>1. PICK b \in BOOLEAN : b = TRUE
    OBVIOUS
  <2>2. r = N!SetRoute(g, e, b) /\ PageSound(g) /\ e \in Entries
    BY <1>4, <1>6, <1>7, <2>1
  <2> QED BY <2>2, RouteSet
<1>9. /\ SameEdit(p, r) /\ r.screen = p.screen /\ r.prefsOpen = p.prefsOpen /\ SameRun(p, r)
      /\ r.gaps = g.gaps
  BY <1>4, <1>8 DEF AddressOnly, SameEdit, SameLook, SameRun
<1>10. Kept(t, p, r)
  BY <1>9 DEF Kept, SameEdit
<1>11. p.gaps \subseteq g.gaps /\ p.generation \in Nat /\ p.travel \in Nat
  BY <1>1, <1>4 DEF ViewFollows, PageSound, PageType
<1>12. \A k \in 1 .. Len(r.stack) :
       \/ r.stack[k].note = None
       \/ \E j \in 1 .. Len(p.stack) : r.stack[k].note = p.stack[j].note
  BY <1>4, <1>6, <1>8 DEF StackFrom, SameRoute
<1>13. ViewFollows(t, p, r)
  BY <1>8, <1>9, <1>10, <1>11, <1>12 DEF ViewFollows, SameRun
<1>14. N!BackDone(t, p) = N!End(r)
  BY Zenon, <1>2, <1>5, <1>7 DEF N!BackDone
<1> QED BY <1>4, <1>5, <1>8, <1>9, <1>10, <1>13, <1>14, EndSound

LEMMA PrefsSavedSound ==
  ASSUME NEW t \in TaskType, NEW p, Ready(p)
  PROVE  OutcomeSound(t, p, N!PrefsSaved(t, p))
<1>1. PICK q : q = [N!SetPreferences(p, FALSE) EXCEPT !.prefsOpen = TRUE]
  OBVIOUS
<1>2. PageSound(p) /\ FALSE \in BOOLEAN
  BY DEF Ready
<1>3. ViewFollows(t, p, q)
  BY <1>1, <1>2, PreferencesRoute
<1>4. ViewFollows(t, p, N!Beside(q)) /\ ViewFollows(t, p, p)
  BY <1>2, <1>3, BesideCovers, PageStays
<1> QED BY <1>1, <1>4, EndSound DEF N!PrefsSaved

(* A new note in the editor.                                                 *)
LEMMA NewNoteFollows ==
  ASSUME NEW t \in TaskType, t.pc \in {"newSaved", "wikiSaved"}, t.note # None, NEW p, Ready(p), NEW q,
         q = N!StartNewNote(p, t.note)
  PROVE  /\ ViewFollows(t, p, q) /\ Renewed(t, p, q) /\ q.screen = "editor" /\ q.current = t.note
         /\ SameRoute(p, q) /\ SameRun(p, q) /\ q.gaps = p.gaps /\ q.saved = N!Nothing
<1>1. t.note \in NoteOrNone /\ PageSound(p) /\ 0 \in Nat
  BY DEF TaskType, Ready
<1>2. /\ PageSound(q) /\ NewSession(p, q, t.note, 0)
      /\ SameRoute(p, q) /\ q.screen = "editor" /\ SameRun(p, q) /\ q.gaps = p.gaps
  BY <1>1, EditorShown
<1>3. q.saved = N!Nothing
  <2>1. PICK u : u = N!Shown(p, t.note, 0)
    OBVIOUS
  <2>2. PageSound(u)
    BY <1>1, <2>1, EditorShown
  <2>3. q = [u EXCEPT !.saved = N!Nothing]
    BY <2>1 DEF N!StartNewNote
  <2> QED BY <2>2, <2>3 DEF PageSound, PageType
<1>4. Renewed(t, p, q)
  <2>1. 0 \in Number
    BY DEF Ready, Number
  <2> QED BY <1>2, <1>3, <2>1 DEF Renewed, NewSession, SameRoute
<1>5. p.generation \in Nat /\ p.travel \in Nat
  BY <1>1 DEF PageSound, PageType
<1>6. q.current = t.note
  BY <1>2 DEF NewSession
<1> QED BY <1>2, <1>3, <1>4, <1>5, <1>6 DEF ViewFollows, SameRun, SameRoute

LEMMA NewSavedSound ==
  ASSUME NEW t, TaskSound(t), t.pc = "newSaved", NEW p, Ready(p)
  PROVE  OutcomeSound(t, p, N!NewSaved(t, p))
<1>1. t \in TaskType /\ t.note # None /\ PageSound(p)
  BY DEF TaskSound, Stop, Shape, Ready
<1>2. PICK q : q = N!StartNewNote(p, t.note)
  OBVIOUS
<1>3. ViewFollows(t, p, N!Beside(q)) /\ ViewFollows(t, p, p)
  BY <1>1, <1>2, NewNoteFollows, BesideCovers, PageStays
<1> QED BY <1>1, <1>2, <1>3, EndSound DEF N!NewSaved

LEMMA WikiSavedSound ==
  ASSUME NEW t, TaskSound(t), t.pc = "wikiSaved", NEW p, Ready(p)
  PROVE  OutcomeSound(t, p, N!WikiSaved(t, p))
<1>1. t \in TaskType /\ t.note # None /\ PageSound(p) /\ t.gen = 0 /\ ~t.prefs
  BY DEF TaskSound, Stop, Shape, RouterStops, Ready
<1>2. CASE store[t.note] # None
  <2>1. PICK u : u = [t EXCEPT !.route = "replace"]
    OBVIOUS
  <2>2. /\ u \in TaskType /\ u.route = "replace" /\ Carried(t, u) /\ u.pc = t.pc
    BY <1>1, <2>1 DEF TaskType, Carried
  <2>3. OutcomeSound(u, p, N!OpenNote(u, p))
    BY <1>1, <1>2, <2>2, OpenNoteSound DEF Carried
  <2>4. OutcomeSound(t, p, N!OpenNote(u, p))
    BY <2>2, <2>3 DEF OutcomeSound, TaskFollows, ViewFollows, Kept, Renewed, Carried
  <2> QED BY <1>2, <2>1, <2>4 DEF N!WikiSaved
<1>3. CASE store[t.note] = None
  <2>1. PICK q : q = N!StartNewNote(p, t.note)
    OBVIOUS
  <2>2. ViewFollows(t, p, N!Beside(q))
    BY <1>1, <2>1, NewNoteFollows, BesideCovers
  <2>3. "idle" \in Afters /\ Shape(t, "idle")
    BY <1>1 DEF Afters, Shape, OtherStops
  <2>4. OutcomeSound(t, p, N!Saving(t, "idle", N!Beside(q)))
    BY <1>1, <2>2, <2>3, SavingSound
  <2> QED BY <1>3, <2>1, <2>4 DEF N!WikiSaved
<1> QED BY <1>2, <1>3

-----------------------------------------------------------------------------
(* One step of a task.                                                       *)

(* A page that differs from the one there is in its place in the history, in *)
(* what is asked of the browser and in the server's answer.                  *)
SamePage(p) ==
  /\ PageSound(p) /\ SameEdit(page, p) /\ SameLook(page, p) /\ p.stack = page.stack
  /\ p.generation = page.generation /\ p.gaps = page.gaps

LEMMA PagesAreReady ==
  ASSUME NavigationTypes, NEW p, SamePage(p)
  PROVE  Ready(p) /\ used.types \in Nat /\ StoreSound
<1>1. used.types \in Nat
  BY DEF NavigationTypes, UsedType
<1>2. 0 \in Number
  BY <1>1 DEF Number
<1> QED BY <1>1, <1>2 DEF NavigationTypes, TextsBounded, Ready, SamePage, SameEdit

LEMMA RestoringSet ==
  ASSUME NEW p, PageSound(p), NEW b \in BOOLEAN, NEW q, q = [p EXCEPT !.restoring = b]
  PROVE  /\ PageSound(q) /\ SameEdit(p, q) /\ SameLook(p, q) /\ SameRoute(p, q) /\ q.gaps = p.gaps
         /\ q.travel = p.travel /\ q.generation = p.generation /\ q.answered = p.answered
         /\ N!Here(q) = N!Here(p)
BY DEF PageSound, PageType, SameEdit, SameLook, SameRoute, N!Here

(* What the saver does with a call.                                          *)
LEMMA SaveCalled ==
  ASSUME saver \in SaverType, NEW p, PageSound(p), NEW s, s = N!Save(p)
  PROVE  /\ s \in SaverType /\ s.busy
         /\ \/ saver.busy /\ s.again /\ s.note = saver.note /\ s.session = saver.session /\ s.text = saver.text
            \/ ~saver.busy /\ ~s.again /\ s.note = p.current /\ s.session = p.session /\ s.text = p.text
BY DEF N!Save, N!Snapshot, SaverType, PageSound, PageType

LEMMA AppliedParts ==
  ASSUME NavigationTypes, NEW i \in N!Slots, NEW t \in TaskType, NEW p, SamePage(p), NEW o,
         OutcomeSound(t, p, o), N!Apply(i, o)
  PROVE  /\ PageSound(page') /\ ViewFollows(t, p, page')
         /\ SameEdit(o.p, page') /\ SameLook(o.p, page') /\ SameRoute(o.p, page') /\ page'.gaps = o.p.gaps
         /\ page'.travel = o.p.travel /\ page'.generation = o.p.generation /\ page'.answered = o.p.answered
         /\ N!Here(page') = N!Here(o.p)
         /\ DOMAIN tasks' = N!Slots /\ tasks'[i] = o.t
         /\ \A j \in N!Slots : j # i => \/ tasks'[j] = tasks[j]
                                        \/ tasks'[j] = N!Idle /\ tasks[j].pc = "backWait"
         /\ saver' \in SaverType
         /\ \/ o.t.pc # "saving" /\ saver' = saver
            \/ o.t.pc = "saving" /\ saver' = N!Save(o.p)
<1>1. PageSound(o.p) /\ ViewFollows(t, p, o.p)
  BY DEF OutcomeSound, ViewFollows
<1>2. /\ page' \in {o.p, [o.p EXCEPT !.restoring = FALSE]}
      /\ saver' = IF o.save THEN N!Save(o.p) ELSE saver
  BY DEF N!Apply
<1>3. \A j \in N!Slots : tasks'[j] = IF j = i THEN o.t
        ELSE IF (o.t.pc = "idle" /\ tasks[i].popped) /\ j \in {k \in N!Slots : tasks[k].pc = "backWait"}
             THEN N!Idle ELSE tasks[j]
  BY DEF N!Apply
<1>4. DOMAIN tasks' = N!Slots
  BY DEF N!Apply
<1>5. /\ PageSound(page') /\ SameEdit(o.p, page') /\ SameLook(o.p, page') /\ SameRoute(o.p, page')
      /\ page'.gaps = o.p.gaps /\ N!Here(page') = N!Here(o.p)
      /\ page'.travel = o.p.travel /\ page'.generation = o.p.generation /\ page'.answered = o.p.answered
  <2>1. CASE page' = o.p
    BY <1>1, <2>1 DEF SameEdit, SameLook, SameRoute
  <2>2. CASE page' = [o.p EXCEPT !.restoring = FALSE]
    <3>1. PICK b \in BOOLEAN : b = FALSE
      OBVIOUS
    <3>2. page' = [o.p EXCEPT !.restoring = b]
      BY <2>2, <3>1
    <3> QED BY <1>1, <3>2, RestoringSet
  <2> QED BY <1>2, <2>1, <2>2
<1>6. ViewFollows(t, p, page')
  <2>1. Kept(t, p, o.p) => Kept(t, p, page')
    BY <1>5 DEF Kept, SameEdit, SameLook
  <2>2. Renewed(t, p, o.p) => Renewed(t, p, page')
    BY <1>5 DEF Renewed, SameEdit, SameLook, SameRoute
  <2>3. \A k \in 1 .. Len(page'.stack) :
       \/ page'.stack[k].note = None
       \/ page'.stack[k].note = t.note /\ store[t.note] # None /\ page'.saved # N!Nothing
       \/ \E j \in 1 .. Len(p.stack) : page'.stack[k].note = p.stack[j].note
    BY <1>1, <1>5 DEF ViewFollows, SameRoute, SameEdit
  <2> QED BY <1>1, <1>5, <2>1, <2>2, <2>3 DEF ViewFollows, SameLook
<1>7. saver' \in SaverType
  BY <1>1, <1>2, SaveCalled DEF NavigationTypes
<1>8. tasks'[i] = o.t
  BY <1>3
<1>9. \A j \in N!Slots : j # i => \/ tasks'[j] = tasks[j]
                                  \/ tasks'[j] = N!Idle /\ tasks[j].pc = "backWait"
  <2> SUFFICES ASSUME NEW j \in N!Slots, j # i, tasks'[j] # tasks[j]
               PROVE  tasks'[j] = N!Idle /\ tasks[j].pc = "backWait"
    OBVIOUS
  <2>1. tasks'[j] = IF (o.t.pc = "idle" /\ tasks[i].popped) /\ j \in {k \in N!Slots : tasks[k].pc = "backWait"}
                    THEN N!Idle ELSE tasks[j]
    BY <1>3
  <2>2. j \in {k \in N!Slots : tasks[k].pc = "backWait"}
    BY <2>1
  <2> QED BY <2>1, <2>2
<1>10. \/ o.t.pc # "saving" /\ saver' = saver
       \/ o.t.pc = "saving" /\ saver' = N!Save(o.p)
  BY <1>2 DEF OutcomeSound
<1> QED BY <1>4, <1>5, <1>6, <1>7, <1>8, <1>9, <1>10

LEMMA AppliedTypes ==
  ASSUME NavigationTypes, NEW i \in N!Slots, NEW t \in TaskType, NEW p, SamePage(p), NEW o,
         OutcomeSound(t, p, o), N!Apply(i, o), used' \in UsedType, used'.types = used.types,
         store' = store \/ (t.note \in N!AllNotes /\ store' = [store EXCEPT ![t.note] = 0]),
         Stop(o.t) \in {"opened", "openRead"} => store'[t.note] # None
  PROVE  NavigationTypes'
<1>1. Ready(p) /\ StoreSound /\ used.types \in Nat
  BY PagesAreReady
<1>2. Number' = Number
  BY DEF Number
<1>3. /\ PageSound(page') /\ ViewFollows(t, p, page')
      /\ DOMAIN tasks' = N!Slots /\ tasks'[i] = o.t
      /\ \A j \in N!Slots : j # i => \/ tasks'[j] = tasks[j]
                                     \/ tasks'[j] = N!Idle /\ tasks[j].pc = "backWait"
      /\ saver' \in SaverType
      /\ \/ o.t.pc # "saving" /\ saver' = saver
         \/ o.t.pc = "saving" /\ saver' = N!Save(o.p)
      /\ SameEdit(o.p, page')
  BY AppliedParts
<1>4. TaskSound(o.t) /\ (o.t = N!Idle \/ o.t.note = t.note) /\ PageSound(o.p)
  BY DEF OutcomeSound, TaskFollows, Carried, ViewFollows
<1>5. \A j \in N!Slots : TaskSound(tasks'[j])
  BY <1>3, <1>4, IdleSound DEF NavigationTypes
<1>6. page'.text \in Number
  BY <1>1, <1>3 DEF ViewFollows, Kept, Renewed, Ready
<1>7. saver'.text \in Number
  <2>1. o.p.text = page'.text
    BY <1>3 DEF SameEdit
  <2>2. saver.text \in Number /\ saver \in SaverType
    BY DEF NavigationTypes, TextsBounded
  <2> QED BY <1>3, <1>4, <1>6, <2>1, <2>2, SaveCalled
<1>8. StoreSound' /\ \A n \in N!AllNotes : store[n] # None => store'[n] # None
  <2>1. 0 \in Number /\ None # 0
    BY <1>1, ClientAssumption DEF Ready
  <2>2. StoreSound'
    BY <1>1, <1>2, <2>1 DEF StoreSound
  <2> QED BY <1>1, <2>1, <2>2 DEF StoreSound
<1>9. OpensKnown'
  <2> SUFFICES ASSUME NEW j \in N!Slots, Stop(tasks'[j]) \in {"opened", "openRead"}
               PROVE  store'[tasks'[j].note] # None
    BY DEF OpensKnown
  <2>1. tasks'[j] # N!Idle
    BY IdleSound
  <2>2. CASE j = i
    BY <1>3, <1>4, <2>1, <2>2
  <2>3. CASE j # i
    <3>1. tasks'[j] = tasks[j] /\ store[tasks[j].note] # None
      BY <1>3, <2>1, <2>3 DEF NavigationTypes, OpensKnown
    <3>2. tasks[j].note \in N!AllNotes
      <4>1. TaskSound(tasks[j]) /\ tasks[j].pc # "idle"
        BY <2>1, <3>1 DEF NavigationTypes, TaskSound
      <4> QED BY <3>1, <4>1 DEF TaskSound, Shape, TaskType, NoteOrNone
    <3> QED BY <1>8, <3>1, <3>2
  <2> QED BY <2>2, <2>3
<1> QED BY <1>2, <1>3, <1>5, <1>6, <1>7, <1>8, <1>9 DEF NavigationTypes, TextsBounded

-----------------------------------------------------------------------------
(* Typed text.  While a navigation may replace the editor's session, what    *)
(* was typed before it began is saved, or is being saved by the save that    *)
(* the navigation waits for, or that save failed.  A restore that looks for  *)
(* the note under the preferences is about another note than the one edited. *)
Edited  == page.dirty /\ page.current # None
Excused == page.late \/ page.failed
Away    == \E i \in N!Slots : tasks[i].pc \notin {"idle", "saving"} /\ ~Passing(tasks[i])
Apart   == \A i \in N!Slots : Passing(tasks[i]) => tasks[i].note # page.current
Waiting == \E i \in N!Slots : tasks[i].pc = "saving"
Covered == saver.busy /\ (saver.again \/ N!SnapshotIsCurrent)

EditsSafe ==
  /\ page.dirty => page.current # None
  /\ Edited /\ Away => Excused
  /\ Edited => Excused \/ Apart
  /\ Edited /\ Waiting => Excused \/ Covered
  /\ Edited /\ ~N!Editing(page) => Excused
  /\ Edited => page.text > 0 /\ page.text # store[page.current]
  /\ saver.busy /\ page.dirty /\ saver.session # page.session => saver.text # page.text

LostExcused == \A l \in lost : l.failed \/ l.late \/ l.passed

LEMMA AppliedEdits ==
  ASSUME NavigationTypes, EditsSafe, NEW i \in N!Slots, NEW t \in TaskType, NEW p, SamePage(p), NEW o,
         OutcomeSound(t, p, o), N!Apply(i, o),
         store' = store \/ (t.note \in N!AllNotes /\ store' = [store EXCEPT ![t.note] = 0]),
         Kept(t, p, o.p) => \/ o.t.pc \in {"idle", "saving"} \/ Away \/ ~Edited
                            \/ o.p.late \/ o.p.failed
                            \/ Passing(o.t) /\ o.t.note # page.current,
         t.pc = "startList" => Away
  PROVE  EditsSafe'
<1>1. Ready(p) /\ StoreSound
  BY PagesAreReady
<1>2. /\ PageSound(page') /\ ViewFollows(t, p, page')
      /\ SameEdit(o.p, page') /\ SameLook(o.p, page')
      /\ tasks'[i] = o.t
      /\ \A j \in N!Slots : j # i => \/ tasks'[j] = tasks[j]
                                     \/ tasks'[j] = N!Idle /\ tasks[j].pc = "backWait"
      /\ saver' \in SaverType
      /\ \/ o.t.pc # "saving" /\ saver' = saver
         \/ o.t.pc = "saving" /\ saver' = N!Save(o.p)
  BY AppliedParts
<1>3. N!Idle.pc = "idle" /\ PageSound(o.p) /\ saver \in SaverType
  BY DEF N!Idle, OutcomeSound, ViewFollows, NavigationTypes
<1>4. CASE Renewed(t, p, page')
  <2>1. ~page'.dirty
    BY <1>4 DEF Renewed
  <2> QED BY <2>1 DEF EditsSafe, Edited
<1>5. CASE Kept(t, p, page')
  <2>1. /\ page'.current = page.current /\ page'.session = page.session /\ page'.text = page.text
        /\ page'.dirty = page.dirty /\ page'.failed = page.failed /\ (page.late => page'.late)
        /\ page'.screen = page.screen \/ t.pc = "startList"
    BY <1>5 DEF Kept, SamePage, SameEdit, SameLook
  <2>2. Edited' <=> Edited
    BY <2>1 DEF Edited
  <2>3. Excused => Excused'
    BY <2>1 DEF Excused
  <2>4. Kept(t, p, o.p) /\ (o.p.late \/ o.p.failed => Excused')
    BY <1>2, <1>5 DEF Kept, SameEdit, SameLook, Excused
  <2>5. Away' => Away \/ (o.t.pc \notin {"idle", "saving"} /\ ~Passing(o.t))
    <3> SUFFICES ASSUME NEW j \in N!Slots, tasks'[j].pc \notin {"idle", "saving"},
                        ~Passing(tasks'[j])
                 PROVE  Away \/ (o.t.pc \notin {"idle", "saving"} /\ ~Passing(o.t))
      BY DEF Away, Passing
    <3> QED BY <1>2, <1>3 DEF Away
  <2>6. Edited' /\ Away' => Excused'
    BY <2>2, <2>3, <2>4, <2>5 DEF EditsSafe
  <2>15. Edited' => Excused' \/ Apart'
    <3> SUFFICES ASSUME Edited, ~Excused', NEW j \in N!Slots, Passing(tasks'[j])
                 PROVE  tasks'[j].note # page'.current
      BY <2>2 DEF Apart, Passing
    <3>1. ~Away /\ Apart
      BY <2>3 DEF EditsSafe
    <3>2. CASE j = i
      <4>1. tasks'[j] = o.t
        BY <1>2, <3>2
      <4>2. Passing(o.t) /\ o.t.pc \notin {"idle", "saving"}
        BY <4>1 DEF Passing
      <4>3. o.t.note # page.current
        BY <2>4, <3>1, <4>2
      <4> QED BY <2>1, <4>1, <4>3
    <3>3. CASE j # i
      <4>1. tasks'[j] # N!Idle
        BY <1>3 DEF Passing
      <4>2. tasks'[j] = tasks[j]
        BY <1>2, <3>3, <4>1
      <4> QED BY <2>1, <3>1, <4>2 DEF Apart
    <3> QED BY <3>2, <3>3
  <2>7. Waiting' => Waiting \/ o.t.pc = "saving"
    BY <1>2, <1>3 DEF Waiting
  <2>8. /\ Covered => Covered'
        /\ o.t.pc = "saving" => Covered'
        /\ saver'.busy /\ saver'.session # page'.session => saver.busy /\ saver' .session = saver.session
             /\ saver'.text = saver.text
    <3>1. o.p.current = page'.current /\ o.p.session = page'.session /\ o.p.text = page'.text
      BY <1>2 DEF SameEdit
    <3>2. CASE saver' = saver /\ o.t.pc # "saving"
      BY <2>1, <3>2 DEF Covered, N!SnapshotIsCurrent
    <3>3. CASE o.t.pc = "saving"
      <4>1. PICK s : s = N!Save(o.p)
        OBVIOUS
      <4>2. /\ s.busy
            /\ \/ saver.busy /\ s.again /\ s.note = saver.note /\ s.session = saver.session /\ s.text = saver.text
               \/ ~saver.busy /\ ~s.again /\ s.note = o.p.current /\ s.session = o.p.session /\ s.text = o.p.text
        BY <1>3, <4>1, SaveCalled
      <4>3. saver' = s
        BY <1>2, <3>3, <4>1
      <4> QED BY <3>1, <3>3, <4>2, <4>3 DEF Covered, N!SnapshotIsCurrent
    <3> QED BY <1>2, <3>2, <3>3
  <2>9. Edited' /\ Waiting' => Excused' \/ Covered'
    BY <2>2, <2>3, <2>7, <2>8 DEF EditsSafe
  <2>10. Edited' /\ ~N!Editing(page') => Excused'
    BY <2>1, <2>2, <2>3 DEF EditsSafe, N!Editing
  <2>11. Edited' => page'.text > 0 /\ page'.text # store'[page'.current]
    <3> SUFFICES ASSUME Edited PROVE page.text > 0 /\ page.text # store'[page.current]
      BY <2>1, <2>2
    <3>1. page.text > 0 /\ page.text # store[page.current] /\ page.text # 0
      BY DEF EditsSafe
    <3>2. page.current \in N!AllNotes
      BY DEF Edited, NavigationTypes, PageSound, PageType, NoteOrNone
    <3> QED BY <1>1, <3>1, <3>2 DEF StoreSound
  <2>12. saver'.busy /\ page'.dirty /\ saver'.session # page'.session => saver'.text # page'.text
    BY <2>1, <2>8 DEF EditsSafe
  <2>13. page'.dirty => page'.current # None
    BY <2>1 DEF EditsSafe
  <2>14. (Edited /\ ~N!Editing(page) => Excused)'
    BY <2>10
  <2> QED BY <2>6, <2>9, <2>11, <2>12, <2>13, <2>14, <2>15 DEF EditsSafe
<1> QED BY <1>2, <1>4, <1>5 DEF ViewFollows

LEMMA AppliedLost ==
  ASSUME NavigationTypes, EditsSafe, LostExcused, NEW i \in N!Slots, NEW t \in TaskType, NEW p,
         SamePage(p), NEW o, OutcomeSound(t, p, o), N!Apply(i, o),
         Renewed(t, p, o.p) => \/ Away \/ ~Edited \/ ~N!Editing(page) \/ Excused
                               \/ o.p.screen = "dashboard" /\ (tasks[i].prefs \/ o.t.prefs)
  PROVE  LostExcused'
<1>1. lost' = lost \cup N!Dropped(page, o.p, tasks[i].prefs \/ o.t.prefs)
  BY DEF N!Apply
<1>2. SUFFICES ASSUME NEW l \in N!Dropped(page, o.p, tasks[i].prefs \/ o.t.prefs)
               PROVE  l.failed \/ l.late \/ l.passed
  BY <1>1 DEF LostExcused
<1>3. /\ page.session # o.p.session /\ N!Unsaved(page)
      /\ l = [note |-> page.current, failed |-> page.failed, late |-> page.late,
               passed |-> (tasks[i].prefs \/ o.t.prefs) /\ o.p.screen = "dashboard"]
  BY <1>2 DEF N!Dropped
<1>4. /\ l.failed = page.failed /\ l.late = page.late
      /\ l.passed = ((tasks[i].prefs \/ o.t.prefs) /\ o.p.screen = "dashboard")
  BY <1>3
<1>5. Renewed(t, p, o.p)
  BY <1>3 DEF OutcomeSound, ViewFollows, Kept, SamePage, SameEdit
<1>6. Edited
  BY <1>3 DEF N!Unsaved, Edited
<1>7. Excused \/ (o.p.screen = "dashboard" /\ (tasks[i].prefs \/ o.t.prefs))
  BY <1>5, <1>6 DEF EditsSafe
<1> QED BY <1>4, <1>7 DEF Excused

-----------------------------------------------------------------------------
(* Typed text: every step.                                                   *)
EditInv == NavigationTypes /\ EditsSafe /\ LostExcused

LEMMA SameAsItself ==
  ASSUME NavigationTypes
  PROVE  SamePage(page) /\ Ready(page) /\ (\A i \in N!Slots : TaskSound(tasks[i]))
<1>1. SamePage(page)
  BY DEF NavigationTypes, SamePage, SameEdit, SameLook
<1> QED BY <1>1, PagesAreReady DEF NavigationTypes

LEMMA TaskSteps ==
  ASSUME EditInv, NEW i \in N!Slots, NEW o, OutcomeSound(tasks[i], page, o), N!Apply(i, o),
         tasks[i].pc \notin {"idle", "saving"}, used' \in UsedType, used'.types = used.types,
         store' = store \/ (tasks[i].note \in N!AllNotes /\ store' = [store EXCEPT ![tasks[i].note] = 0]),
         Stop(o.t) \in {"opened", "openRead"} => store'[tasks[i].note] # None,
         Passing(tasks[i]) /\ N!Editing(page) /\ page.dirty /\ page.current # tasks[i].note
           => PassesBy(tasks[i], page, o)
  PROVE  EditInv'
<1>1. NavigationTypes /\ EditsSafe /\ LostExcused /\ SamePage(page) /\ tasks[i] \in TaskType
  BY SameAsItself DEF EditInv, TaskSound
<1>2. PICK t \in TaskType : t = tasks[i]
  BY <1>1
<1>3. NavigationTypes'
  BY <1>1, <1>2, AppliedTypes
<1>6. Away \/ Passing(t)
  BY <1>2 DEF Away
<1>7. Passing(t) /\ Edited /\ ~Excused => PassesBy(t, page, o) /\ page.current # t.note /\ N!Editing(page)
  BY <1>1, <1>2 DEF EditsSafe, Apart, Edited
<1>8. Kept(t, page, o.p) /\ Excused => o.p.late \/ o.p.failed
  BY DEF Kept, Excused
<1>9. t.pc = "startList" => Away
  BY <1>6 DEF Passing
<1>10. Kept(t, page, o.p) => \/ o.t.pc \in {"idle", "saving"} \/ Away \/ ~Edited
                             \/ o.p.late \/ o.p.failed
                             \/ Passing(o.t) /\ o.t.note # page.current
  BY <1>6, <1>7, <1>8 DEF PassesBy
<1>11. Renewed(t, page, o.p) => \/ Away \/ ~Edited \/ ~N!Editing(page) \/ Excused
                                \/ o.p.screen = "dashboard" /\ (tasks[i].prefs \/ o.t.prefs)
  BY <1>2, <1>6, <1>7 DEF PassesBy, Passing
<1>4. EditsSafe'
  BY <1>1, <1>2, <1>9, <1>10, AppliedEdits
<1>5. LostExcused'
  BY <1>1, <1>2, <1>11, AppliedLost
<1> QED BY <1>3, <1>4, <1>5 DEF EditInv

(* What a step of a task does to it and to the page.                         *)
ProceedOutcome(i, o) ==
  /\ OutcomeSound(tasks[i], page, o) /\ N!Apply(i, o)
  /\ Passing(tasks[i]) /\ N!Editing(page) /\ page.dirty /\ page.current # tasks[i].note
       => PassesBy(tasks[i], page, o)

LEMMA ProceedSound ==
  ASSUME NavigationTypes, NEW i \in N!Slots, N!Proceed(i)
  PROVE  \E o : ProceedOutcome(i, o)
<1>1. PICK t : t = tasks[i]
  OBVIOUS
<1>2. TaskSound(t) /\ t \in TaskType /\ Ready(page) /\ PageSound(page)
      /\ (Stop(t) \in {"opened", "openRead"} => store[t.note] # None)
  BY <1>1, SameAsItself DEF TaskSound, Ready, NavigationTypes, OpensKnown
<1>3. PICK o : o = CASE t.pc = "opened" -> N!OpenSaved(t, page)
                    [] t.pc = "openRead" -> N!OpenRead(t, page)
                    [] t.pc = "readLocal" -> N!ReadLocal(t, page)
                    [] t.pc = "prefsDashboard" -> N!PrefsDashboard(t, page)
                    [] t.pc \in {"leaveSaved", "restoreSaved"} -> N!RestoreSaved(t, page)
                    [] t.pc = "startRead" -> N!StartRead(t, page)
                    [] t.pc = "startList" -> N!StartList(t, page)
                    [] t.pc = "backSaved" -> N!BackSaved(t, page)
                    [] t.pc = "backDone" -> N!BackDone(t, page)
                    [] t.pc = "prefsSaved" -> N!PrefsSaved(t, page)
                    [] t.pc = "newSaved" -> N!NewSaved(t, page)
                    [] t.pc = "wikiSaved" -> N!WikiSaved(t, page)
  OBVIOUS
<1>4. N!Apply(i, o) /\ t.pc \in N!Runnable /\ (t.pc # "readLocal" => ~Passing(t))
  BY <1>1, <1>3 DEF N!Proceed, N!Runnable, Passing
<1> SUFFICES /\ OutcomeSound(t, page, o)
             /\ Passing(t) /\ N!Editing(page) /\ page.dirty /\ page.current # t.note
                  => PassesBy(t, page, o)
  BY <1>1, <1>4 DEF ProceedOutcome
<1>5. CASE t.pc = "opened"
  BY <1>2, <1>3, <1>5, OpenSavedSound, <1>1, <1>4 DEF Stop
<1>6. CASE t.pc = "openRead"
  BY <1>2, <1>3, <1>6, OpenReadSound, <1>1, <1>4
<1>7. CASE t.pc = "readLocal"
  <2>1. RouterTask(t) /\ t.note # None
    BY <1>2, <1>7, RouterTasks DEF TaskSound, Shape, Stop
  <2>2. /\ OutcomeSound(t, page, N!ReadLocal(t, page))
        /\ Passing(t) /\ N!Editing(page) /\ page.dirty /\ page.current # t.note
             => PassesBy(t, page, N!ReadLocal(t, page))
    BY <1>2, <2>1, ReadLocalSound, ReadLocalPasses DEF Passing
  <2> QED BY <1>1, <1>3, <1>4, <1>7, <2>2
<1>8. CASE t.pc = "prefsDashboard"
  BY <1>2, <1>3, <1>8, PrefsDashboardSound, <1>1, <1>4
<1>9. CASE t.pc \in {"leaveSaved", "restoreSaved"}
  BY <1>2, <1>3, <1>9, RestoreSavedSound, <1>1, <1>4
<1>10. CASE t.pc = "startRead"
  BY <1>2, <1>3, <1>10, StartReadSound, <1>1, <1>4
<1>11. CASE t.pc = "startList"
  BY <1>2, <1>3, <1>11, StartListSound, <1>1, <1>4
<1>12. CASE t.pc = "backSaved"
  BY <1>2, <1>3, <1>12, BackSavedSound, <1>1, <1>4
<1>13. CASE t.pc = "backDone"
  BY <1>2, <1>3, <1>13, BackDoneSound, <1>1, <1>4
<1>14. CASE t.pc = "prefsSaved"
  BY <1>2, <1>3, <1>14, PrefsSavedSound, <1>1, <1>4
<1>15. CASE t.pc = "newSaved"
  BY <1>2, <1>3, <1>15, NewSavedSound, <1>1, <1>4
<1>16. CASE t.pc = "wikiSaved"
  BY <1>2, <1>3, <1>16, WikiSavedSound, <1>1, <1>4
<1> QED BY <1>4, <1>5, <1>6, <1>7, <1>8, <1>9, <1>10, <1>11, <1>12, <1>13, <1>14, <1>15, <1>16
        DEF N!Runnable

LEMMA ProceedKeepsEdits ==
  ASSUME EditInv, NEW i \in N!Slots, N!Proceed(i)
  PROVE  EditInv'
<1>1. PICK o : ProceedOutcome(i, o)
  BY ProceedSound DEF EditInv
<1>2. tasks[i].pc \notin {"idle", "saving", "fetch"} /\ store' = store /\ used' = used
  BY DEF N!Proceed, N!Runnable
<1>3. Stop(o.t) \in {"opened", "openRead"} => store'[tasks[i].note] # None
  BY <1>1, <1>2 DEF ProceedOutcome, OutcomeSound, TaskFollows
<1>4. used \in UsedType
  BY DEF EditInv, NavigationTypes
<1> QED BY <1>1, <1>2, <1>3, <1>4, TaskSteps DEF ProceedOutcome

(* What an answer does to the task that waited for it, and to the notes.    *)
FetchOutcome(i, o) ==
  /\ OutcomeSound(tasks[i], page, o) /\ N!Apply(i, o)
  /\ \/ store' = store
     \/ tasks[i].note \in N!AllNotes /\ store' = [store EXCEPT ![tasks[i].note] = 0]
  /\ Stop(o.t) \in {"opened", "openRead"} => store'[tasks[i].note] # None
  /\ used' \in UsedType /\ used'.types = used.types
  /\ N!Editing(page) /\ page.dirty /\ page.current # tasks[i].note => PassesBy(tasks[i], page, o)

LEMMA FetchedSound ==
  ASSUME NavigationTypes, NEW i \in N!Slots, N!Fetched(i)
  PROVE  \E o : FetchOutcome(i, o)
<1>1. PICK t : t = tasks[i]
  OBVIOUS
<1>2. TaskSound(t) /\ t \in TaskType /\ Ready(page) /\ PageSound(page) /\ t.pc = "fetch" /\ used \in UsedType
  BY Zenon, <1>1, SameAsItself DEF TaskSound, Ready, NavigationTypes, N!Fetched
<1>3. RouterTask(t) /\ t.note # None /\ t.note \in N!AllNotes
  BY <1>2, RouterTasks DEF TaskSound, Shape, Stop, TaskType, NoteOrNone
<1>4. [t EXCEPT !.route = "none"] = t
  BY <1>2, <1>3 DEF TaskType, RouterTask
<1>5. OutcomeSound(t, page, N!End(page)) /\ N!End(page).t = N!Idle /\ PassesBy(t, page, N!End(page))
  BY <1>2, PageStays, EndSound, EndPasses
<1>6. CASE /\ store' = IF N!Current(t, page) THEN [store EXCEPT ![t.note] = 0] ELSE store
           /\ N!Apply(i, IF N!Current(t, page) THEN N!OpenNote([t EXCEPT !.route = "none"], page)
                        ELSE N!End(page))
           /\ UNCHANGED used
  <2>1. CASE N!Current(t, page)
    <3>1. OutcomeSound(t, page, N!OpenNote(t, page))
      BY <1>2, <1>3, OpenNoteSound DEF RouterTask
    <3>2. store'[t.note] = 0 /\ 0 # None
      BY <1>2, <1>3, <1>6, <2>1, ClientAssumption DEF Ready, StoreSound
    <3>3. N!Apply(i, N!OpenNote(t, page)) /\ used' = used /\ store' = [store EXCEPT ![t.note] = 0]
      BY <1>4, <1>6, <2>1
    <3>4. N!Editing(page) /\ page.dirty /\ page.current # t.note => PassesBy(t, page, N!OpenNote(t, page))
      BY <1>2, <1>3, OpenNotePasses
    <3> QED BY <1>1, <1>2, <1>3, <3>1, <3>2, <3>3, <3>4 DEF FetchOutcome
  <2>2. CASE ~N!Current(t, page)
    BY <1>1, <1>2, <1>5, <1>6, <2>2, IdleSound DEF FetchOutcome
  <2> QED BY <2>1, <2>2
<1>7. CASE N!Apply(i, N!Missing(t, page)) /\ UNCHANGED <<store, used>>
  <2>1. OutcomeSound(t, page, N!Missing(t, page)) /\ PassesBy(t, page, N!Missing(t, page))
    BY <1>2, <1>3, MissingSound, MissingPasses
  <2>2. Stop(N!Missing(t, page).t) \notin {"opened", "openRead"}
    <3>1. \E q : N!Missing(t, page) = N!End(q) \/ N!Missing(t, page) = N!At(t, "prefsDashboard", q)
      BY Zenon DEF N!Missing
    <3>2. \A q : Stop(N!End(q).t) = "idle"
      BY IdleSound DEF N!End, N!Out
    <3>3. \A q : Stop(N!At(t, "prefsDashboard", q).t) = "prefsDashboard"
      BY <1>2 DEF N!At, N!Out, Stop, TaskType
    <3> QED BY <3>1, <3>2, <3>3
  <2> QED BY <1>1, <1>2, <1>7, <2>1, <2>2 DEF FetchOutcome
<1>8. CASE /\ N!Left("faults")
           /\ used' = [used EXCEPT !.faults = @ + 1]
           /\ N!Apply(i, N!End(N!Gap(page, "fetch failed")))
           /\ UNCHANGED store
  <2>1. "fetch failed" \in Passes
    BY DEF Passes
  <2>2. OutcomeSound(t, page, N!End(N!Gap(page, "fetch failed")))
        /\ N!End(N!Gap(page, "fetch failed")).t = N!Idle
    BY ZenonT(60), <1>2, <2>1, GapFollows, EndSound
  <2>3. used' \in UsedType /\ used'.types = used.types
    <3>1. PICK k \in Nat : k = used.faults + 1
      BY <1>2 DEF UsedType
    <3>2. used' = [used EXCEPT !.faults = k]
      BY Zenon, <1>8, <3>1
    <3> QED BY <1>2, <3>2 DEF UsedType
  <2>4. PassesBy(t, page, N!End(N!Gap(page, "fetch failed")))
    BY ZenonT(60), <1>2, <2>1, GapNoted, EndPasses DEF SameEdit
  <2> QED BY Zenon, <1>1, <1>2, <1>8, <2>2, <2>3, <2>4, IdleSound DEF FetchOutcome
<1> QED BY Zenon, <1>1, <1>6, <1>7, <1>8 DEF N!Fetched

LEMMA FetchedKeepsEdits ==
  ASSUME EditInv, NEW i \in N!Slots, N!Fetched(i)
  PROVE  EditInv'
<1>1. PICK o : FetchOutcome(i, o)
  <2>1. NavigationTypes
    BY DEF EditInv
  <2> QED BY <2>1, FetchedSound
<1>2. tasks[i].pc \notin {"idle", "saving"}
  BY Zenon DEF N!Fetched
<1> QED BY <1>1, <1>2, TaskSteps DEF FetchOutcome

(* The user and the browser.                                                 *)
LEMMA BeginKeepsEdits ==
  ASSUME EditInv, NEW t \in TaskType, t.pc = "idle", NEW p, SamePage(p), NEW o, OutcomeSound(t, p, o),
         N!Begin(o), used' \in UsedType, used'.types = used.types, store' = store,
         Kept(t, p, o.p) => \/ o.t.pc \in {"idle", "saving"} \/ ~Edited \/ o.p.late \/ o.p.failed
                            \/ Passing(o.t) /\ o.t.note # page.current,
         Renewed(t, p, o.p) => \/ ~Edited \/ ~N!Editing(page)
                               \/ o.p.screen = "dashboard" /\ o.t.prefs
  PROVE  EditInv'
<1>1. NavigationTypes /\ EditsSafe /\ LostExcused
  BY DEF EditInv
<1>2. PICK i \in N!Slots : N!Apply(i, o)
  BY DEF N!Begin
<1>3. Stop(o.t) \in {"opened", "openRead"} => store'[t.note] # None
  BY DEF OutcomeSound, TaskFollows
<1>4. NavigationTypes'
  BY <1>1, <1>2, <1>3, AppliedTypes
<1>5. EditsSafe'
  BY <1>1, <1>2, AppliedEdits
<1>6. LostExcused'
  BY <1>1, <1>2, AppliedLost
<1> QED BY <1>4, <1>5, <1>6 DEF EditInv

LEMMA RestoreBegins ==
  ASSUME EditInv, NEW p, SamePage(p), NEW fetch \in BOOLEAN, NEW popped \in BOOLEAN, NEW o,
         \/ o = N!RestoreRoute(p, fetch, popped)
         \/ o = [N!RestoreRoute(p, fetch, popped) EXCEPT !.p.restoring = FALSE],
         N!Begin(o), used' \in UsedType, used'.types = used.types, store' = store
  PROVE  EditInv'
<1>1. NavigationTypes /\ EditsSafe /\ Ready(p)
  BY PagesAreReady DEF EditInv
<1>2. PICK t : t = RestoreTask(p, fetch, popped)
  OBVIOUS
<1>3. t \in TaskType /\ t.pc = "idle"
  BY <1>1, <1>2, RestoreTaskSound DEF RouterTask
<1>4. PICK r : r = N!RestoreRoute(p, fetch, popped)
  OBVIOUS
<1>5. /\ OutcomeSound(t, p, r)
      /\ Renewed(t, p, r.p) => \/ r.p.screen = "dashboard" /\ r.t.prefs
                               \/ ~N!Editing(p) \/ ~p.dirty
      /\ \/ r.t.pc \in {"idle", "saving"} \/ Renewed(t, p, r.p)
         \/ Passing(r.t) /\ r.t.note # p.current
         \/ ~N!Editing(p) \/ ~p.dirty
  BY <1>1, <1>2, <1>4, RestoreRouteSound
<1>6. /\ OutcomeSound(t, p, o) /\ o.t = r.t /\ SameEdit(r.p, o.p) /\ SameLook(r.p, o.p)
      /\ SameRoute(r.p, o.p) /\ N!Here(o.p) = N!Here(r.p)
  <2>1. CASE o = r
    BY <1>5, <2>1 DEF SameEdit, SameLook, SameRoute
  <2>2. CASE o # r
    <3>1. PICK q : q = [r.p EXCEPT !.restoring = FALSE]
      OBVIOUS
    <3>2. r = [t |-> r.t, p |-> r.p, save |-> r.save]
      BY <1>5 DEF OutcomeSound, N!Out
    <3>3. o = [r EXCEPT !.p = q]
      BY <1>4, <2>2, <3>1
    <3>4. o = [t |-> r.t, p |-> q, save |-> r.save]
      BY <3>2, <3>3
    <3>5. o.t = r.t /\ o.p = q /\ o.save = r.save
      BY <3>4
    <3>6. PageSound(r.p) /\ ViewFollows(t, p, r.p)
      BY <1>5 DEF OutcomeSound, ViewFollows
    <3>7. PICK b \in BOOLEAN : b = FALSE
      OBVIOUS
    <3>8. q = [r.p EXCEPT !.restoring = b]
      BY <3>1, <3>7
    <3>9. /\ PageSound(q) /\ SameEdit(r.p, q) /\ SameLook(r.p, q) /\ SameRoute(r.p, q) /\ q.gaps = r.p.gaps
          /\ q.travel = r.p.travel /\ q.generation = r.p.generation /\ q.answered = r.p.answered
          /\ N!Here(q) = N!Here(r.p)
      BY <3>6, <3>8, RestoringSet
    <3>10. ViewFollows(t, p, q)
      <4>1. Kept(t, p, r.p) => Kept(t, p, q)
        BY <3>9 DEF Kept, SameEdit, SameLook
      <4>2. Renewed(t, p, r.p) => Renewed(t, p, q)
        BY <3>9 DEF Renewed, SameEdit, SameLook, SameRoute
      <4>3. \A k \in 1 .. Len(q.stack) :
           \/ q.stack[k].note = None
           \/ q.stack[k].note = t.note /\ store[t.note] # None /\ q.saved # N!Nothing
           \/ \E j \in 1 .. Len(p.stack) : q.stack[k].note = p.stack[j].note
        BY <3>6, <3>9 DEF ViewFollows, SameRoute, SameEdit
      <4> QED BY <3>6, <3>9, <4>1, <4>2, <4>3 DEF ViewFollows, SameLook
    <3> QED BY <1>5, <3>4, <3>5, <3>9, <3>10 DEF OutcomeSound, N!Out
  <2> QED BY <2>1, <2>2
<1>7. /\ p.current = page.current /\ p.text = page.text /\ p.dirty = page.dirty
      /\ p.late = page.late /\ p.failed = page.failed /\ p.screen = page.screen
  BY DEF SamePage, SameEdit, SameLook
<1>8. Renewed(t, p, o.p) => Renewed(t, p, r.p)
  BY <1>6 DEF Renewed, SameEdit, SameLook, SameRoute
<1>9. Renewed(t, p, o.p) => \/ ~Edited \/ ~N!Editing(page)
                            \/ o.p.screen = "dashboard" /\ o.t.prefs
  BY <1>5, <1>6, <1>7, <1>8 DEF Edited, N!Editing, SameLook
<1>10. Kept(t, p, o.p) => \/ o.t.pc \in {"idle", "saving"} \/ ~Edited \/ o.p.late \/ o.p.failed
                          \/ Passing(o.t) /\ o.t.note # page.current
  <2> SUFFICES ASSUME Kept(t, p, o.p), Edited, o.t.pc \notin {"idle", "saving"},
                      ~(Passing(o.t) /\ o.t.note # page.current)
               PROVE  o.p.late \/ o.p.failed
    OBVIOUS
  <2>1. ~Renewed(t, p, r.p)
    <3>1. o.p.session = r.p.session /\ o.p.session = p.session /\ p.session \in Nat
      BY <1>1, <1>6 DEF Kept, SameEdit, Ready, PageSound, PageType
    <3> QED BY <3>1 DEF Renewed
  <2>2. CASE N!Editing(page)
    BY <1>5, <1>6, <1>7, <2>1, <2>2 DEF Edited, N!Editing
  <2>3. CASE ~N!Editing(page)
    <3>1. page.late \/ page.failed
      BY <1>1, <2>3 DEF EditsSafe, Excused
    <3> QED BY <1>7, <3>1 DEF Kept
  <2> QED BY <2>2, <2>3
<1> QED BY <1>3, <1>6, <1>9, <1>10, BeginKeepsEdits

LEMMA SpendTypes ==
  ASSUME used \in UsedType, NEW what \in {"moves", "opens", "news", "faults"}, N!Spend(what)
  PROVE  used' \in UsedType /\ used'.types = used.types
<1>1. PICK k \in Nat : k = used[what] + 1
  BY DEF UsedType
<1>2. used' = [used EXCEPT ![what] = k]
  BY <1>1 DEF N!Spend
<1> QED BY <1>2 DEF UsedType

LEMMA PopStateKeepsEdits ==
  ASSUME EditInv, NEW p, SamePage(p), N!PopState(p), used' \in UsedType, used'.types = used.types,
         store' = store
  PROVE  EditInv'
<1>1. PICK b \in BOOLEAN : b = TRUE
  OBVIOUS
<1>2. PICK q : q = [p EXCEPT !.restoring = b]
  OBVIOUS
<1>3. SamePage(q)
  BY <1>2, RestoringSet DEF SamePage, SameEdit, SameLook, SameRoute
<1>4. PICK r : r = N!RestoreRoute(q, FALSE, TRUE)
  OBVIOUS
<1>5. PICK o : /\ o = IF r.t.pc = "idle" THEN [r EXCEPT !.p.restoring = FALSE] ELSE r
               /\ N!Begin(o)
  BY <1>1, <1>2, <1>4 DEF N!PopState
<1>6. FALSE \in BOOLEAN /\ TRUE \in BOOLEAN
  OBVIOUS
<1>7. \/ o = N!RestoreRoute(q, FALSE, TRUE)
      \/ o = [N!RestoreRoute(q, FALSE, TRUE) EXCEPT !.p.restoring = FALSE]
  BY <1>4, <1>5
<1> QED BY <1>3, <1>5, <1>6, <1>7, RestoreBegins

LEMMA MoveKeepsEdits ==
  ASSUME EditInv, NEW d \in {-1, 1}, N!Move(d)
  PROVE  EditInv'
<1>1. PageSound(page) /\ used \in UsedType
  BY DEF EditInv, NavigationTypes
<1>2. PICK k \in 1 .. Len(page.stack) : k = page.at + d
  <2>1. DOMAIN page.stack = 1 .. Len(page.stack)
    BY <1>1, LenProperties DEF PageSound, PageType
  <2> QED BY <2>1 DEF N!Move
<1>3. PICK p : p = [page EXCEPT !.at = k]
  OBVIOUS
<1>4. SamePage(p)
  <2>1. k \in Nat
    BY <1>1, LenProperties DEF PageSound, PageType
  <2> QED BY <1>1, <1>3, <2>1 DEF SamePage, PageSound, PageType, SameEdit, SameLook
<1>5. N!PopState(p) /\ store' = store /\ N!Spend("moves")
  BY <1>2, <1>3 DEF N!Move
<1>6. used' \in UsedType /\ used'.types = used.types
  BY <1>1, <1>5, SpendTypes
<1> QED BY <1>4, <1>5, <1>6, PopStateKeepsEdits

(* A change of the page that leaves the editor and the screen alone.         *)
LEMMA PageKeepsEdits ==
  ASSUME EditInv, PageSound(page'), SameEdit(page, page'), page'.screen = page.screen,
         tasks' = tasks, saver' = saver, store' = store, lost' = lost, used' \in UsedType,
         used'.types = used.types
  PROVE  EditInv'
<1>1. NavigationTypes /\ EditsSafe /\ LostExcused
  BY DEF EditInv
<1>2. Number' = Number
  BY DEF Number
<1>3. NavigationTypes'
  BY <1>1, <1>2 DEF NavigationTypes, TextsBounded, StoreSound, OpensKnown, SameEdit
<1>4. /\ Edited' = Edited /\ Excused' = Excused /\ Away' = Away /\ Waiting' = Waiting /\ Covered' = Covered
      /\ Apart' = Apart
  BY DEF Edited, Excused, Away, Waiting, Covered, Apart, Passing, N!SnapshotIsCurrent, SameEdit
<1>5. EditsSafe'
  BY <1>1, <1>4 DEF EditsSafe, SameEdit, N!Editing
<1> QED BY <1>1, <1>3, <1>5 DEF EditInv, LostExcused

LEMMA TravelKeepsEdits ==
  ASSUME EditInv, N!Travel
  PROVE  EditInv'
<1>1. PageSound(page) /\ used \in UsedType
  BY DEF EditInv, NavigationTypes
<1>2. PICK k \in Nat : k = page.travel - 1
  BY <1>1 DEF N!Travel, PageSound, PageType
<1>3. PICK p : p = [page EXCEPT !.travel = k]
  OBVIOUS
<1>4. SamePage(p) /\ p.at = page.at
  BY <1>1, <1>3 DEF SamePage, PageSound, PageType, SameEdit, SameLook
<1>5. store' = store /\ used' = used
  BY DEF N!Travel
<1>6. IF p.at = 1 THEN page' = N!Gap(p, "left") /\ UNCHANGED <<tasks, saver, lost>>
      ELSE N!PopState([p EXCEPT !.at = @ - 1])
  BY <1>2, <1>3 DEF N!Travel
<1>7. CASE p.at = 1
  <2>1. "left" \in Passes /\ PageSound(p)
    BY <1>4 DEF Passes, SamePage
  <2>2. PageSound(page') /\ SameEdit(p, page') /\ SameLook(p, page')
    BY <1>6, <1>7, <2>1, GapNoted
  <2>3. SameEdit(page, page') /\ page'.screen = page.screen
    BY <1>4, <2>2 DEF SamePage, SameEdit, SameLook
  <2> QED BY <1>1, <1>5, <1>6, <1>7, <2>2, <2>3, PageKeepsEdits
<1>8. CASE p.at # 1
  <2>1. PICK j \in 1 .. Len(page.stack) : j = page.at - 1
    BY <1>1, <1>4, <1>8, LenProperties DEF PageSound, PageType
  <2>2. PICK q : q = [p EXCEPT !.at = j]
    OBVIOUS
  <2>3. SamePage(q)
    <3>1. j \in Nat
      BY <1>1, LenProperties DEF PageSound, PageType
    <3> QED BY <1>1, <1>4, <2>2, <3>1 DEF SamePage, PageSound, PageType, SameEdit, SameLook
  <2>4. N!PopState(q)
    BY <1>4, <1>6, <1>8, <2>1, <2>2
  <2> QED BY <1>1, <1>5, <2>3, <2>4, PopStateKeepsEdits
<1> QED BY <1>7, <1>8

LEMMA ServerAnswersKeepsEdits ==
  ASSUME EditInv, N!ServerAnswers
  PROVE  EditInv'
<1>1. PageSound(page) /\ used \in UsedType
  BY DEF EditInv, NavigationTypes
<1>2. PICK p : p = [page EXCEPT !.answered = TRUE]
  OBVIOUS
<1>3. SamePage(p)
  BY <1>1, <1>2 DEF SamePage, PageSound, PageType, SameEdit, SameLook
<1>4. PICK o : o = N!RestoreRoute(p, TRUE, FALSE) /\ N!Begin(o) /\ used' = used /\ store' = store
  BY <1>2 DEF N!ServerAnswers
<1>5. TRUE \in BOOLEAN /\ FALSE \in BOOLEAN
  OBVIOUS
<1> QED BY <1>1, <1>3, <1>4, <1>5, RestoreBegins

LEMMA BegunSound ==
  ASSUME NEW n \in N!AllNotes, NEW t, t = N!Begun(n, "idle")
  PROVE  /\ t \in TaskType /\ t.pc = "idle" /\ t.gen = 0 /\ t.note = n /\ ~t.prefs /\ t.route = "none"
         /\ ~t.popped
<1>1. t = [N!Idle EXCEPT !.note = n, !.pc = "idle"] /\ n \in NoteOrNone /\ "idle" \in Stops
  BY DEF N!Begun, NoteOrNone, Stops
<1> QED BY <1>1, IdleSound DEF N!Idle, TaskType

(* A save that a task waits for replaces nothing.                            *)
LEMMA SavingBegins ==
  ASSUME EditInv, NEW t \in TaskType, t.pc = "idle", NEW s \in Afters, Shape(t, s), s # "opened",
         NEW p, p = page \/ p = [page EXCEPT !.timer = FALSE],
         N!Begin(N!Saving(t, s, p)), used' \in UsedType, used'.types = used.types, store' = store
  PROVE  EditInv'
<1>1. PageSound(page)
  BY DEF EditInv, NavigationTypes
<1>2. SamePage(p) /\ PageSound(p)
  <2>1. CASE p = page
    BY <1>1, <2>1 DEF SamePage, SameEdit, SameLook
  <2>2. CASE p = [page EXCEPT !.timer = FALSE]
    BY <1>1, <2>2 DEF SamePage, PageSound, PageType, SameEdit, SameLook
  <2> QED BY <2>1, <2>2
<1>3. PICK o : o = N!Saving(t, s, p)
  OBVIOUS
<1>4. OutcomeSound(t, p, o) /\ o.p = p /\ o.t.pc = "saving"
  BY <1>2, <1>3, PageStays, SavingSound
<1>5. ~Renewed(t, p, o.p)
  BY <1>2, <1>4 DEF Renewed, PageSound, PageType
<1> QED BY <1>2, <1>3, <1>4, <1>5, BeginKeepsEdits

LEMMA ClickNoteKeepsEdits ==
  ASSUME EditInv, NEW n \in N!AllNotes, N!ClickNote(n)
  PROVE  EditInv'
<1>1. PageSound(page) /\ used \in UsedType /\ NavigationTypes /\ EditsSafe
  BY DEF EditInv, NavigationTypes
<1>2. Ready(page) /\ SamePage(page)
  BY <1>1, SameAsItself
<1>3. PICK u : u = N!Begun(n, "idle")
  OBVIOUS
<1>4. PICK t : t = [u EXCEPT !.route = "push"]
  OBVIOUS
<1>5. /\ u \in TaskType /\ u.pc = "idle" /\ u.gen = 0 /\ u.note = n /\ ~u.prefs
  BY <1>3, BegunSound
<1>6. /\ t \in TaskType /\ t.pc = "idle" /\ t.gen = 0 /\ t.note = n /\ ~t.prefs /\ t.route = "push"
  BY <1>4, <1>5 DEF TaskType
<1>7. n # None
  BY NavigationAssumption DEF N!AllNotes
<1>8. /\ page.screen = "dashboard" /\ store[n] # None /\ N!Spend("opens") /\ store' = store
      /\ N!Begin(N!OpenNote(t, page))
  BY <1>3, <1>4 DEF N!ClickNote
<1>9. PICK o : o = N!OpenNote(t, page)
  OBVIOUS
<1>10. OutcomeSound(t, page, o) /\ SameEdit(page, o.p)
  BY <1>2, <1>6, <1>7, <1>8, <1>9, OpenNoteSound
<1>11. ~Renewed(t, page, o.p)
  BY <1>1, <1>10 DEF Renewed, SameEdit, PageSound, PageType
<1>12. ~Edited \/ o.p.late \/ o.p.failed
  BY <1>1, <1>8, <1>10 DEF EditsSafe, Excused, N!Editing, SameEdit
<1>13. used' \in UsedType /\ used'.types = used.types
  BY <1>1, <1>8, SpendTypes
<1> QED BY <1>2, <1>6, <1>8, <1>9, <1>10, <1>11, <1>12, <1>13, BeginKeepsEdits

LEMMA ClickLinkKeepsEdits ==
  ASSUME EditInv, NEW n \in N!AllNotes, N!ClickLink(n)
  PROVE  EditInv'
<1>1. PageSound(page) /\ used \in UsedType /\ NavigationTypes
  BY DEF EditInv, NavigationTypes
<1>2. Ready(page) /\ SamePage(page)
  BY <1>1, SameAsItself
<1>3. PICK t : t = N!Begun(n, "idle")
  OBVIOUS
<1>4. t \in TaskType /\ t.pc = "idle" /\ t.gen = 0 /\ t.note = n /\ ~t.prefs
  BY <1>3, BegunSound
<1>5. n # None
  BY NavigationAssumption DEF N!AllNotes
<1>6. Shape(t, "wikiSaved") /\ "wikiSaved" \in Afters
      /\ "wikiSaved" \in Stops \ {"idle", "saving", "leaveSaved", "restoreSaved"}
  BY <1>4, <1>5 DEF Shape, OtherStops, Afters, Stops, N!Runnable
<1>7. /\ N!Spend("opens") /\ store' = store
      /\ N!Begin(IF page.dirty THEN N!Saving(t, "wikiSaved", page) ELSE N!At(t, "wikiSaved", page))
  BY <1>3 DEF N!ClickLink
<1>8. used' \in UsedType /\ used'.types = used.types
  BY <1>1, <1>7, SpendTypes
<1>9. CASE page.dirty
  BY <1>4, <1>6, <1>7, <1>8, <1>9, SavingBegins
<1>10. CASE ~page.dirty
  <2>1. PICK o : o = N!At(t, "wikiSaved", page)
    OBVIOUS
  <2>2. OutcomeSound(t, page, o) /\ o.p = page
    BY <1>1, <1>4, <1>6, <2>1, PageStays, AtSound
  <2>3. ~Edited
    BY <1>10 DEF Edited
  <2>4. N!Begin(o)
    BY <1>7, <1>10, <2>1
  <2> QED BY <1>2, <1>4, <1>7, <1>8, <2>2, <2>3, <2>4, BeginKeepsEdits
<1> QED BY <1>9, <1>10

LEMMA ShortcutKeepsEdits ==
  ASSUME EditInv, NEW n \in N!AllNotes, N!NewNoteByShortcut(n)
  PROVE  EditInv'
<1>1. used \in UsedType
  BY DEF EditInv, NavigationTypes
<1>2. PICK t : t = N!Begun(n, "idle")
  OBVIOUS
<1>3. t \in TaskType /\ t.pc = "idle" /\ t.gen = 0 /\ t.note = n /\ ~t.prefs
  BY <1>2, BegunSound
<1>4. n # None
  BY NavigationAssumption DEF N!AllNotes
<1>5. Shape(t, "newSaved") /\ "newSaved" \in Afters
  BY <1>3, <1>4 DEF Shape, OtherStops, Afters
<1>6. N!Spend("news") /\ store' = store /\ N!Begin(N!Saving(t, "newSaved", page))
  BY <1>2 DEF N!NewNoteByShortcut
<1>7. used' \in UsedType /\ used'.types = used.types
  BY <1>1, <1>6, SpendTypes
<1> QED BY <1>3, <1>5, <1>6, <1>7, SavingBegins

LEMMA BackButtonKeepsEdits ==
  ASSUME EditInv, N!BackButton
  PROVE  EditInv'
<1>1. used \in UsedType
  BY DEF EditInv, NavigationTypes
<1>2. N!Idle \in TaskType /\ N!Idle.pc = "idle" /\ Shape(N!Idle, "backSaved") /\ "backSaved" \in Afters
  BY IdleSound DEF Shape, OtherStops, Afters, N!Idle
<1>3. PICK p : p = [page EXCEPT !.timer = FALSE]
  OBVIOUS
<1>4. N!Spend("moves") /\ store' = store /\ N!Begin(N!Saving(N!Idle, "backSaved", p))
  BY <1>3 DEF N!BackButton
<1>5. used' \in UsedType /\ used'.types = used.types
  BY <1>1, <1>4, SpendTypes
<1> QED BY <1>2, <1>3, <1>4, <1>5, SavingBegins

LEMMA OpenPreferencesKeepsEdits ==
  ASSUME EditInv, N!OpenPreferences
  PROVE  EditInv'
<1>1. PageSound(page) /\ used \in UsedType /\ Ready(page)
  BY SameAsItself DEF EditInv, NavigationTypes
<1>2. N!Idle \in TaskType /\ N!Idle.pc = "idle" /\ Shape(N!Idle, "prefsSaved") /\ "prefsSaved" \in Afters
  BY IdleSound DEF Shape, OtherStops, Afters, N!Idle
<1>3. N!Spend("opens") /\ store' = store
  BY DEF N!OpenPreferences
<1>4. used' \in UsedType /\ used'.types = used.types
  BY <1>1, <1>3, SpendTypes
<1>5. CASE N!Begin(N!Saving(N!Idle, "prefsSaved", page))
  BY <1>2, <1>3, <1>4, <1>5, SavingBegins
<1>6. CASE /\ page' = N!Beside([N!SetPreferences(page, FALSE) EXCEPT !.prefsOpen = TRUE])
           /\ UNCHANGED <<tasks, saver, lost>>
  <2>1. PICK q : q = [N!SetPreferences(page, FALSE) EXCEPT !.prefsOpen = TRUE]
    OBVIOUS
  <2>2. ViewFollows(N!Idle, page, q) /\ SameEdit(page, q) /\ q.screen = page.screen /\ PageSound(q)
    <3>1. PICK b \in BOOLEAN : b = FALSE
      OBVIOUS
    <3>2. q = [N!SetPreferences(page, b) EXCEPT !.prefsOpen = TRUE]
      BY <2>1, <3>1
    <3>3. PICK t \in TaskType : t = N!Idle
      BY <1>2
    <3>4. ViewFollows(t, page, q) /\ SameEdit(page, q) /\ q.screen = page.screen
      BY ZenonT(60), <1>1, <3>1, <3>2, <3>3, PreferencesRoute
    <3> QED BY <3>3, <3>4 DEF ViewFollows
  <2>3. "beside a restore" \in Passes
    BY DEF Passes
  <2>4. PageSound(page') /\ SameEdit(q, page') /\ page'.screen = q.screen
    BY ZenonT(60), <1>6, <2>1, <2>2, <2>3, GapNoted DEF N!Beside, SameEdit, SameLook
  <2>5. SameEdit(page, page') /\ page'.screen = page.screen
    BY <2>2, <2>4 DEF SameEdit
  <2> QED BY <1>3, <1>4, <1>6, <2>4, <2>5, PageKeepsEdits
<1> QED BY <1>5, <1>6 DEF N!OpenPreferences

LEMMA ClosePreferencesKeepsEdits ==
  ASSUME EditInv, N!ClosePreferences
  PROVE  EditInv'
<1>1. PageSound(page) /\ used \in UsedType
  BY DEF EditInv, NavigationTypes
<1>2. tasks' = tasks /\ saver' = saver /\ store' = store /\ lost' = lost /\ used' = used
  BY DEF N!ClosePreferences
<1>3. PICK k \in Nat : k = page.travel + 1
  BY <1>1 DEF PageSound, PageType
<1>4. page' = [page EXCEPT !.travel = k] \/ page' = [page EXCEPT !.prefsOpen = FALSE]
  BY <1>3 DEF N!ClosePreferences
<1>5. PageSound(page') /\ SameEdit(page, page') /\ page'.screen = page.screen
  <2>1. CASE page' = [page EXCEPT !.travel = k]
    BY <1>1, <2>1 DEF PageSound, PageType, SameEdit
  <2>2. CASE page' = [page EXCEPT !.prefsOpen = FALSE]
    BY <1>1, <2>2 DEF PageSound, PageType, SameEdit
  <2> QED BY <1>4, <2>1, <2>2
<1> QED BY <1>1, <1>2, <1>5, PageKeepsEdits

LEMMA NewNotePage ==
  ASSUME NavigationTypes, NEW n \in N!AllNotes, N!NewNote(n)
  PROVE  /\ PageSound(page') /\ page'.session = page.session + 1 /\ page'.current = n /\ page'.text = 0
         /\ ~page'.dirty /\ page'.saved = N!Nothing /\ page'.screen = "editor"
         /\ page'.prefsOpen = page.prefsOpen /\ SameRoute(page, page') /\ page'.gaps = page.gaps
         /\ page'.generation = page.generation + 1 /\ page'.travel = page.travel
         /\ page'.answered = page.answered /\ N!Here(page') = N!Here(page)
         /\ tasks' = tasks /\ saver' = saver /\ store' = store
         /\ lost' = lost \cup N!Dropped(page, page', FALSE)
         /\ used' \in UsedType /\ used'.types = used.types
<1>1. PageSound(page) /\ used \in UsedType
  BY DEF NavigationTypes
<1>2. PICK g \in Nat : g = page.generation + 1
  BY <1>1 DEF PageSound, PageType
<1>3. PICK p : p = [page EXCEPT !.generation = g, !.timer = FALSE]
  OBVIOUS
<1>4. /\ PageSound(p) /\ SameEdit(page, p) /\ SameLook(page, p) /\ SameRoute(page, p)
      /\ p.gaps = page.gaps /\ p.generation = g /\ p.travel = page.travel /\ p.answered = page.answered
  BY <1>1, <1>3 DEF PageSound, PageType, SameEdit, SameLook, SameRoute
<1>5. /\ page' = N!StartNewNote(p, n) /\ lost' = lost \cup N!Dropped(page, page', FALSE)
      /\ tasks' = tasks /\ saver' = saver /\ store' = store /\ N!Spend("news")
  BY <1>2, <1>3 DEF N!NewNote
<1>6. n \in NoteOrNone /\ 0 \in Nat
  BY DEF NoteOrNone
<1>7. /\ PageSound(page') /\ NewSession(p, page', n, 0)
      /\ SameRoute(p, page') /\ page'.screen = "editor" /\ page'.prefsOpen = p.prefsOpen
      /\ SameRun(p, page') /\ page'.gaps = p.gaps /\ N!Here(page') = N!Here(p)
  BY <1>4, <1>5, <1>6, EditorShown
<1>8. page'.saved = N!Nothing
  <2>1. PICK u : u = N!Shown(p, n, 0)
    OBVIOUS
  <2>2. PageSound(u)
    BY <1>4, <1>6, <2>1, EditorShown
  <2>3. page' = [u EXCEPT !.saved = N!Nothing]
    BY <1>5, <2>1 DEF N!StartNewNote
  <2> QED BY <2>2, <2>3 DEF PageSound, PageType
<1>9. used' \in UsedType /\ used'.types = used.types
  BY <1>1, <1>5, SpendTypes
<1>10. N!Here(page') = N!Here(page)
  BY <1>4, <1>7 DEF N!Here, SameRoute
<1> QED BY <1>2, <1>4, <1>5, <1>7, <1>8, <1>9, <1>10
        DEF NewSession, SameEdit, SameLook, SameRoute, SameRun

LEMMA NewNoteKeepsEdits ==
  ASSUME EditInv, NEW n \in N!AllNotes, N!NewNote(n)
  PROVE  EditInv'
<1>1. NavigationTypes /\ EditsSafe /\ LostExcused
  BY DEF EditInv
<1>2. /\ PageSound(page') /\ page'.text = 0 /\ ~page'.dirty
      /\ tasks' = tasks /\ saver' = saver /\ store' = store
      /\ lost' = lost \cup N!Dropped(page, page', FALSE)
      /\ used' \in UsedType /\ used'.types = used.types
  BY <1>1, NewNotePage
<1>3. Number' = Number /\ 0 \in Number
  BY <1>1, <1>2, SameAsItself DEF Number, Ready
<1>4. NavigationTypes'
  BY <1>1, <1>2, <1>3 DEF NavigationTypes, TextsBounded, StoreSound, OpensKnown
<1>5. EditsSafe'
  BY <1>2 DEF EditsSafe, Edited
<1>6. LostExcused'
  <2> SUFFICES ASSUME NEW l \in N!Dropped(page, page', FALSE) PROVE l.failed \/ l.late \/ l.passed
    BY <1>1, <1>2 DEF LostExcused
  <2>1. /\ N!Unsaved(page)
        /\ l = [note |-> page.current, failed |-> page.failed, late |-> page.late,
                 passed |-> FALSE /\ page'.screen = "dashboard"]
    BY DEF N!Dropped
  <2>2. l.failed = page.failed /\ l.late = page.late
    BY <2>1
  <2>3. page.late \/ page.failed
    <3>1. ~N!Editing(page)
      BY DEF N!NewNote, N!Editing
    <3> QED BY <1>1, <2>1, <3>1 DEF EditsSafe, Excused, Edited, N!Unsaved
  <2> QED BY <2>2, <2>3
<1> QED BY <1>4, <1>5, <1>6 DEF EditInv

LEMMA TypePage ==
  ASSUME NavigationTypes, N!Type
  PROVE  /\ PageSound(page') /\ SameLook(page, page') /\ SameRoute(page, page') /\ SameRun(page, page')
         /\ page'.gaps = page.gaps /\ page'.current = page.current /\ page'.session = page.session
         /\ page'.saved = page.saved /\ page'.dirty /\ page'.text = used.types + 1
         /\ page'.late = (page.late \/ \E i \in N!Slots : tasks[i] # N!Idle)
         /\ tasks' = tasks /\ saver' = saver /\ store' = store /\ lost' = lost
         /\ used' \in UsedType /\ used'.types = used.types + 1
         /\ page.current # None /\ N!Editing(page)
<1>1. PageSound(page) /\ used \in UsedType
  BY DEF NavigationTypes
<1>2. PICK k \in Nat : k = used.types + 1
  BY <1>1 DEF UsedType
<1>3. PICK l \in BOOLEAN : l = (page.late \/ \E i \in N!Slots : tasks[i] # N!Idle)
  OBVIOUS
<1>4. page' = [page EXCEPT !.text = k, !.dirty = TRUE, !.timer = TRUE, !.late = l]
  BY <1>2, <1>3 DEF N!Type
<1>5. used' = [used EXCEPT !.types = k]
  BY <1>2 DEF N!Type, N!Spend
<1>6. used' \in UsedType /\ used'.types = k
  BY <1>1, <1>5 DEF UsedType
<1>7. PageSound(page') /\ SameLook(page, page') /\ SameRoute(page, page') /\ SameRun(page, page')
      /\ page'.gaps = page.gaps /\ page'.current = page.current /\ page'.session = page.session
      /\ page'.saved = page.saved /\ page'.dirty /\ page'.text = k /\ page'.late = l
  BY <1>1, <1>4 DEF PageSound, PageType, SameLook, SameRoute, SameRun
<1> QED BY <1>2, <1>3, <1>6, <1>7 DEF N!Type

LEMMA TypeKeepsEdits ==
  ASSUME EditInv, N!Type
  PROVE  EditInv'
<1>1. NavigationTypes /\ EditsSafe /\ LostExcused
  BY DEF EditInv
<1>2. /\ PageSound(page') /\ SameLook(page, page')
      /\ page'.current = page.current /\ page'.session = page.session
      /\ page'.dirty /\ page'.text = used.types + 1
      /\ page'.late = (page.late \/ \E i \in N!Slots : tasks[i] # N!Idle)
      /\ tasks' = tasks /\ saver' = saver /\ store' = store /\ lost' = lost
      /\ used' \in UsedType /\ used'.types = used.types + 1
      /\ page.current # None /\ N!Editing(page)
  BY <1>1, TypePage
<1>3. used.types \in Nat /\ saver \in SaverType /\ StoreSound /\ saver.text \in Number
  BY <1>1, SameAsItself DEF NavigationTypes, UsedType, TextsBounded
<1>4. Number \subseteq Number' /\ used.types + 1 \in Number' /\ used.types + 1 \notin Number
      /\ used.types + 1 > 0
  BY <1>2, <1>3 DEF Number
<1>5. NavigationTypes'
  <2>1. saver'.text \in Number'
    BY <1>2, <1>3, <1>4
  <2>2. StoreSound'
    BY <1>2, <1>3, <1>4 DEF StoreSound
  <2>3. page'.text \in Number'
    BY <1>2, <1>4
  <2>4. OpensKnown'
    BY <1>1, <1>2 DEF NavigationTypes, OpensKnown
  <2> QED BY <1>1, <1>2, <2>1, <2>2, <2>3, <2>4 DEF NavigationTypes, TextsBounded
<1>6. EditsSafe'
  <2>1. N!Idle.pc = "idle"
    BY DEF N!Idle
  <2>2. Away' \/ Waiting' \/ ~Apart' => Excused'
    BY <1>2, <2>1 DEF Away, Waiting, Apart, Passing, Excused
  <2>3. page'.text > 0 /\ page'.text # store'[page'.current]
    <3>1. page.current \in N!AllNotes
      BY <1>1, <1>2 DEF NavigationTypes, PageSound, PageType, NoteOrNone
    <3>2. store[page.current] \in {None} \cup Number
      BY <1>3, <3>1 DEF StoreSound
    <3>3. used.types + 1 # None
      BY <1>3, ClientAssumption
    <3> QED BY <1>2, <1>4, <3>2, <3>3
  <2>4. saver'.text # page'.text
    BY <1>2, <1>3, <1>4
  <2>5. N!Editing(page')
    BY <1>2 DEF SameLook, N!Editing
  <2>6. (N!Editing(page))'
    BY <2>5
  <2> QED BY <1>2, <2>2, <2>3, <2>4, <2>6 DEF EditsSafe
<1> QED BY <1>1, <1>2, <1>5, <1>6 DEF EditInv, LostExcused

LEMMA AutoSaveKeepsEdits ==
  ASSUME EditInv, N!AutoSave
  PROVE  EditInv'
<1>1. NavigationTypes /\ EditsSafe /\ LostExcused /\ PageSound(page) /\ saver \in SaverType
  BY DEF EditInv, NavigationTypes
<1>2. page' = [page EXCEPT !.timer = FALSE]
  BY DEF N!AutoSave
<1>3. PageSound(page') /\ SameEdit(page, page') /\ SameLook(page, page')
  BY <1>1, <1>2 DEF PageSound, PageType, SameEdit, SameLook
<1>4. PICK s : s = N!Save(page)
  OBVIOUS
<1>5. /\ s \in SaverType /\ s.busy
      /\ \/ saver.busy /\ s.again /\ s.note = saver.note /\ s.session = saver.session /\ s.text = saver.text
         \/ ~saver.busy /\ ~s.again /\ s.note = page.current /\ s.session = page.session /\ s.text = page.text
  BY <1>1, <1>4, SaveCalled
<1>6. saver' \in {saver, s} /\ tasks' = tasks /\ store' = store /\ lost' = lost /\ used' = used
  BY <1>4 DEF N!AutoSave
<1>7. Number' = Number
  BY <1>6 DEF Number
<1>8. NavigationTypes'
  BY <1>1, <1>3, <1>5, <1>6, <1>7 DEF NavigationTypes, TextsBounded, StoreSound, OpensKnown, SameEdit
<1>9. /\ Edited' = Edited /\ Excused' = Excused /\ Away' = Away /\ Waiting' = Waiting
      /\ Apart' = Apart
  BY <1>3, <1>6 DEF Edited, Excused, Away, Waiting, Apart, Passing, SameEdit
<1>10. Covered => Covered'
  BY <1>3, <1>5, <1>6 DEF Covered, N!SnapshotIsCurrent, SameEdit
<1>11. EditsSafe'
  BY <1>1, <1>3, <1>5, <1>6, <1>9, <1>10 DEF EditsSafe, SameEdit, SameLook, N!Editing
<1> QED BY <1>1, <1>6, <1>8, <1>11 DEF EditInv, LostExcused

(* One round of the save ends.                                               *)
LEMMA PersistedPage ==
  ASSUME NEW p, PageSound(p), NEW q, q = N!Persisted(p)
  PROVE  /\ PageSound(q) /\ q.current = p.current /\ q.session = p.session /\ q.text = p.text
         /\ ~q.dirty /\ q.saved = p.text /\ ~q.failed /\ ~q.late /\ SameLook(p, q) /\ SameRun(p, q)
         /\ p.gaps \subseteq q.gaps
         /\ \/ N!URLNote(p) = p.current /\ SameRoute(p, q) /\ N!Here(q) = N!Here(p)
            \/ /\ SameRoute(p, q) /\ N!Here(q) = N!Here(p)
               /\ q.gaps # {} \/ (~p.prefsOpen /\ N!RestoreUnderWay)
            \/ /\ N!URLNote(p) # p.current
               /\ N!Here(q) = N!Entry("note", p.current) /\ StackFrom(p, q, p.current)
               /\ q.gaps # {} \/ (~p.prefsOpen /\ ~N!RestoreUnderWay)
<1>1. PICK text \in Nat : text = p.text
  BY DEF PageSound, PageType
<1>2. PICK c : c = [p EXCEPT !.dirty = FALSE, !.saved = text, !.failed = FALSE, !.late = FALSE]
  OBVIOUS
<1>3. /\ PageSound(c) /\ c.current = p.current /\ c.session = p.session /\ c.text = p.text
      /\ ~c.dirty /\ c.saved = p.text /\ ~c.failed /\ ~c.late /\ SameLook(p, c) /\ SameRun(p, c)
      /\ SameRoute(p, c) /\ c.gaps = p.gaps
  <2>1. text \in Int
    OBVIOUS
  <2> QED BY <1>1, <1>2, <2>1 DEF PageSound, PageType, SameLook, SameRun, SameRoute
<1>4. N!Here(c) = N!Here(p)
  BY <1>3 DEF N!Here, SameRoute
<1>5. PICK g : g = IF p.prefsOpen \/ p.restoring # N!RestoreUnderWay
                   THEN [c EXCEPT !.gaps = @ \cup {"late save"}] ELSE c
  BY Zenon
<1>6. /\ PageSound(g) /\ SameEdit(c, g) /\ SameLook(c, g) /\ SameRun(c, g) /\ SameRoute(c, g)
      /\ N!Here(g) = N!Here(c) /\ p.gaps \subseteq g.gaps
      /\ g.gaps # {} \/ (~p.prefsOpen /\ p.restoring = N!RestoreUnderWay)
  <2>1. CASE p.prefsOpen \/ p.restoring # N!RestoreUnderWay
    <3>1. g = N!Gap(c, "late save") /\ "late save" \in Passes
      BY Zenon, <1>5, <2>1 DEF N!Gap, Passes
    <3>2. p.gaps \subseteq g.gaps
      BY Zenon, <1>3, <1>5, <2>1 DEF PageSound, PageType
    <3> QED BY Zenon, <1>3, <3>1, <3>2, GapNoted
  <2>2. CASE ~(p.prefsOpen \/ p.restoring # N!RestoreUnderWay)
    BY <1>3, <1>5, <2>2 DEF SameEdit, SameLook, SameRun, SameRoute
  <2> QED BY <2>1, <2>2
<1>7. q = IF N!URLNote(p) = p.current THEN c
          ELSE IF p.restoring THEN g
          ELSE N!SetRoute(g, N!Entry("note", p.current), FALSE)
  BY <1>1, <1>2, <1>5 DEF N!Persisted
<1>8. CASE q = c /\ N!URLNote(p) = p.current
  BY <1>3, <1>4, <1>8
<1>9. CASE q = g /\ p.restoring
  BY <1>3, <1>4, <1>6, <1>9 DEF SameEdit, SameLook, SameRun, SameRoute
<1>10. CASE q = N!SetRoute(g, N!Entry("note", p.current), FALSE) /\ N!URLNote(p) # p.current /\ ~p.restoring
  <2>1. PICK e : e = N!Entry("note", p.current)
    OBVIOUS
  <2>2. e \in Entries /\ e.note = p.current
    BY <2>1 DEF N!Entry, Entries, PageSound, PageType
  <2>3. PICK b \in BOOLEAN : b = FALSE
    OBVIOUS
  <2>4. q = N!SetRoute(g, e, b)
    BY <1>10, <2>1, <2>3
  <2>5. PageSound(q) /\ N!Here(q) = e /\ StackFrom(g, q, e.note) /\ AddressOnly(g, q)
    BY <1>6, <2>2, <2>4, RouteSet
  <2>6. StackFrom(p, q, p.current)
    BY <1>3, <1>6, <2>2, <2>5 DEF StackFrom, SameRoute
  <2>7. g.gaps # {} \/ (~p.prefsOpen /\ ~N!RestoreUnderWay)
    BY <1>6, <1>10
  <2> QED BY <1>3, <1>6, <1>10, <2>1, <2>5, <2>6, <2>7
          DEF AddressOnly, SameEdit, SameLook, SameRun
<1> QED BY <1>7, <1>8, <1>9, <1>10

(* What the round found: nothing to save, another text, or this one.         *)
RoundUnchanged == N!SnapshotIsCurrent /\ saver.text = page.saved
RoundPage(ok) ==
  IF RoundUnchanged THEN [page EXCEPT !.dirty = FALSE]
  ELSE IF ~N!SnapshotIsCurrent THEN page
  ELSE IF ok THEN N!Persisted(page) ELSE [page EXCEPT !.failed = TRUE]

LEMMA RoundRest ==
  ASSUME NavigationTypes, NEW ok \in BOOLEAN, N!SaveRound(ok)
  PROVE  /\ store' = [n \in N!AllNotes |->
              IF ok /\ ~RoundUnchanged /\ n = saver.note THEN saver.text ELSE store[n]]
         /\ used' \in UsedType /\ used'.types = used.types /\ lost' = lost
         /\ \/ saver.again /\ saver' = N!Snapshot(page', FALSE) /\ tasks' = tasks
            \/ /\ ~saver.again /\ saver' = N!Rested
               /\ tasks' = [i \in N!Slots |->
                    IF tasks[i].pc # "saving" THEN tasks[i]
                    ELSE IF tasks[i].after = "idle" THEN N!Idle
                    ELSE [tasks[i] EXCEPT !.pc = tasks[i].after, !.ok = ok]]
<1>1. used \in UsedType
  BY DEF NavigationTypes
<1>2. PICK k \in Nat : k = used.faults + 1
  BY <1>1 DEF UsedType
<1>3. used' = IF ok THEN used ELSE [used EXCEPT !.faults = k]
  BY Zenon, <1>2 DEF N!SaveRound
<1>4. used' \in UsedType /\ used'.types = used.types
  BY <1>1, <1>2, <1>3 DEF UsedType
<1>5. page' = RoundPage(ok)
  BY ZenonT(60) DEF N!SaveRound, RoundPage, RoundUnchanged
<1>6. IF saver.again
      THEN saver' = N!Snapshot(RoundPage(ok), FALSE) /\ UNCHANGED tasks
      ELSE /\ saver' = N!Rested
           /\ tasks' = [i \in N!Slots |->
                IF tasks[i].pc # "saving" THEN tasks[i]
                ELSE IF tasks[i].after = "idle" THEN N!Idle
                ELSE [tasks[i] EXCEPT !.pc = tasks[i].after, !.ok = ok]]
  BY Zenon DEF N!SaveRound, RoundPage, RoundUnchanged
<1>7. store' = [n \in N!AllNotes |->
              IF ok /\ ~RoundUnchanged /\ n = saver.note THEN saver.text ELSE store[n]]
  BY Zenon DEF N!SaveRound, RoundUnchanged
<1>8. lost' = lost
  BY ZenonT(60) DEF N!SaveRound
<1> QED BY Zenon, <1>4, <1>5, <1>6, <1>7, <1>8

LEMMA SaveRoundParts ==
  ASSUME NavigationTypes, NEW ok \in BOOLEAN, N!SaveRound(ok)
  PROVE  /\ saver.busy /\ page' = RoundPage(ok) /\ PageSound(page')
         /\ page'.current = page.current /\ page'.session = page.session /\ page'.text = page.text
         /\ SameLook(page, page') /\ SameRun(page, page') /\ page.gaps \subseteq page'.gaps
         /\ \/ RoundUnchanged /\ ~page'.dirty /\ page'.saved = page.saved /\ SameRoute(page, page')
            \/ ~N!SnapshotIsCurrent /\ page' = page
            \/ N!SnapshotIsCurrent /\ ~RoundUnchanged /\ ok /\ page' = N!Persisted(page)
            \/ /\ N!SnapshotIsCurrent /\ ~ok /\ page'.failed /\ page'.dirty = page.dirty
               /\ page'.saved = page.saved /\ SameRoute(page, page')
         /\ store' = [n \in N!AllNotes |->
              IF ok /\ ~RoundUnchanged /\ n = saver.note THEN saver.text ELSE store[n]]
         /\ used' \in UsedType /\ used'.types = used.types /\ lost' = lost
         /\ \/ saver.again /\ saver' = N!Snapshot(page', FALSE) /\ tasks' = tasks
            \/ /\ ~saver.again /\ saver' = N!Rested
               /\ tasks' = [i \in N!Slots |->
                    IF tasks[i].pc # "saving" THEN tasks[i]
                    ELSE IF tasks[i].after = "idle" THEN N!Idle
                    ELSE [tasks[i] EXCEPT !.pc = tasks[i].after, !.ok = ok]]
<1>1. PageSound(page) /\ saver \in SaverType /\ used \in UsedType
  BY DEF NavigationTypes
<1>2. page' = RoundPage(ok) /\ saver.busy
  BY ZenonT(60) DEF N!SaveRound, RoundPage, RoundUnchanged
<1>3. CASE RoundUnchanged
  <2>1. page' = [page EXCEPT !.dirty = FALSE]
    BY <1>2, <1>3 DEF RoundPage
  <2>2. /\ PageSound(page') /\ page'.current = page.current /\ page'.session = page.session
        /\ page'.text = page.text /\ SameLook(page, page') /\ SameRun(page, page')
        /\ page.gaps = page'.gaps /\ ~page'.dirty /\ page'.saved = page.saved /\ SameRoute(page, page')
    BY <1>1, <2>1 DEF PageSound, PageType, SameLook, SameRun, SameRoute
  <2> QED BY Zenon, <1>2, <1>3, <2>2, RoundRest
<1>4. CASE ~N!SnapshotIsCurrent
  <2>1. page' = page
    BY <1>2, <1>4 DEF RoundPage, RoundUnchanged
  <2> QED BY Zenon, <1>1, <1>2, <1>4, <2>1, RoundRest DEF SameLook, SameRun
<1>5. CASE N!SnapshotIsCurrent /\ ~RoundUnchanged /\ ok
  <2>1. page' = N!Persisted(page)
    BY <1>2, <1>5 DEF RoundPage
  <2>2. /\ PageSound(page') /\ page'.current = page.current /\ page'.session = page.session
        /\ page'.text = page.text /\ SameLook(page, page') /\ SameRun(page, page')
        /\ page.gaps \subseteq page'.gaps
    BY <1>1, <2>1, PersistedPage
  <2> QED BY Zenon, <1>2, <1>5, <2>1, <2>2, RoundRest
<1>6. CASE N!SnapshotIsCurrent /\ ~RoundUnchanged /\ ~ok
  <2>1. page' = [page EXCEPT !.failed = TRUE]
    BY <1>2, <1>6 DEF RoundPage
  <2>2. /\ PageSound(page') /\ page'.current = page.current /\ page'.session = page.session
        /\ page'.text = page.text /\ SameLook(page, page') /\ SameRun(page, page')
        /\ page.gaps = page'.gaps /\ page'.dirty = page.dirty /\ page'.failed
        /\ page'.saved = page.saved /\ SameRoute(page, page')
    BY <1>1, <2>1 DEF PageSound, PageType, SameLook, SameRun, SameRoute
  <2> QED BY Zenon, <1>2, <1>6, <2>2, RoundRest
<1> QED BY Zenon, <1>3, <1>4, <1>5, <1>6

(* What the round leaves of the tasks, the saver and the notes.              *)
LEMMA SaveRoundTypes ==
  ASSUME NavigationTypes, NEW ok \in BOOLEAN, N!SaveRound(ok)
  PROVE  /\ NavigationTypes' /\ saver' \in SaverType
         /\ \A i \in N!Slots : /\ tasks'[i].pc # "idle" => /\ Carried(tasks[i], tasks'[i])
                                                        /\ tasks'[i].route = tasks[i].route
                               /\ Stop(tasks'[i]) = Stop(tasks[i])
                               /\ tasks[i].pc # "saving" => tasks'[i] = tasks[i]
         /\ \A n \in N!AllNotes : store[n] # None => store'[n] # None
<1>1. /\ saver.busy /\ page' = RoundPage(ok) /\ PageSound(page')
      /\ page'.current = page.current /\ page'.session = page.session /\ page'.text = page.text
      /\ store' = [n \in N!AllNotes |->
              IF ok /\ ~RoundUnchanged /\ n = saver.note THEN saver.text ELSE store[n]]
      /\ used' \in UsedType /\ used'.types = used.types
      /\ \/ saver.again /\ saver' = N!Snapshot(page', FALSE) /\ tasks' = tasks
         \/ /\ ~saver.again /\ saver' = N!Rested
            /\ tasks' = [i \in N!Slots |->
                    IF tasks[i].pc # "saving" THEN tasks[i]
                    ELSE IF tasks[i].after = "idle" THEN N!Idle
                    ELSE [tasks[i] EXCEPT !.pc = tasks[i].after, !.ok = ok]]
  BY Zenon, SaveRoundParts
<1>2. /\ StoreSound /\ page.text \in Number /\ saver.text \in Number /\ 0 \in Number /\ Number' = Number
      /\ DOMAIN tasks = N!Slots /\ \A i \in N!Slots : TaskSound(tasks[i])
  BY Zenon, <1>1, SameAsItself DEF Ready, NavigationTypes, TextsBounded, Number
<1>3. saver' \in SaverType /\ saver'.text \in Number
  <2>1. page'.current \in NoteOrNone /\ page'.session \in Nat /\ page'.text \in Nat
    BY Zenon, <1>1 DEF PageSound, PageType
  <2>2. N!Snapshot(page', FALSE) \in SaverType /\ N!Snapshot(page', FALSE).text = page.text
    BY Zenon, <1>1, <2>1 DEF N!Snapshot, SaverType
  <2>3. N!Rested \in SaverType /\ N!Rested.text = 0
    BY DEF N!Rested, SaverType, NoteOrNone
  <2> QED BY ZenonT(60), <1>1, <1>2, <2>2, <2>3
<1>4. StoreSound' /\ \A n \in N!AllNotes : store[n] # None => store'[n] # None
  <2>1. saver.text # None
    <3>1. saver.text \in Nat
      BY DEF NavigationTypes, SaverType
    <3> QED BY <3>1, ClientAssumption
  <2> QED BY Zenon, <1>1, <1>2, <2>1 DEF StoreSound
<1>5. ASSUME NEW i \in N!Slots
      PROVE  /\ TaskSound(tasks'[i]) /\ Stop(tasks'[i]) = Stop(tasks[i])
             /\ tasks'[i].pc # "idle" => /\ Carried(tasks[i], tasks'[i])
                                         /\ tasks'[i].route = tasks[i].route
             /\ tasks[i].pc # "saving" => tasks'[i] = tasks[i]
  <2>1. TaskSound(tasks[i])
    BY <1>2
  <2>2. CASE tasks'[i] = tasks[i]
    BY <2>1, <2>2 DEF Carried
  <2>3. CASE tasks'[i] # tasks[i]
    <3>1. tasks[i].pc = "saving"
      BY Zenon, <1>1, <2>3
    <3>2. CASE tasks[i].after = "idle"
      <4>1. tasks'[i] = N!Idle
        BY Zenon, <1>1, <2>3, <3>1, <3>2
      <4> QED BY <3>1, <3>2, <4>1, IdleSound DEF N!Idle, Stop
    <3>3. CASE tasks[i].after # "idle"
      <4>1. tasks'[i] = [tasks[i] EXCEPT !.pc = tasks[i].after, !.ok = ok]
        BY Zenon, <1>1, <2>3, <3>1, <3>3
      <4>2. tasks[i] \in TaskType /\ tasks[i].after \in Afters
        BY <2>1 DEF TaskSound, TaskType
      <4>3. tasks[i].after \in Stops \ {"idle", "saving"}
        BY <3>3, <4>2 DEF Afters, Stops, N!Runnable
      <4>4. /\ tasks'[i] \in TaskType /\ tasks'[i].pc = tasks[i].after /\ Carried(tasks[i], tasks'[i])
            /\ tasks'[i].route = tasks[i].route /\ tasks'[i].after = tasks[i].after
        BY <4>1, <4>2, <4>3 DEF TaskType, Carried
      <4>5. Stop(tasks'[i]) = Stop(tasks[i]) /\ tasks'[i].pc # "idle" /\ Stop(tasks[i]) = tasks[i].after
        BY <3>1, <4>3, <4>4 DEF Stop
      <4>6. Shape(tasks'[i], Stop(tasks'[i]))
        <5>1. Shape(tasks[i], Stop(tasks[i]))
          BY <2>1, <3>1 DEF TaskSound
        <5> QED BY <4>4, <4>5, <5>1 DEF Shape, Carried
      <4> QED BY <3>1, <4>4, <4>5, <4>6 DEF TaskSound
    <3> QED BY <3>2, <3>3
  <2> QED BY <2>2, <2>3
<1>6. OpensKnown'
  <2> SUFFICES ASSUME NEW i \in N!Slots, Stop(tasks'[i]) \in {"opened", "openRead"}
               PROVE  store'[tasks'[i].note] # None
    BY DEF OpensKnown
  <2>1. tasks'[i].pc # "idle"
    BY DEF Stop
  <2>2. tasks'[i].note = tasks[i].note /\ Stop(tasks[i]) \in {"opened", "openRead"}
    BY <1>5, <2>1 DEF Carried
  <2>3. store[tasks[i].note] # None
    BY <2>2 DEF NavigationTypes, OpensKnown
  <2>4. tasks[i].note \in N!AllNotes
    <3>1. tasks[i].pc # "idle" /\ TaskSound(tasks[i])
      BY <1>2, <2>2 DEF Stop
    <3> QED BY <2>2, <3>1 DEF TaskSound, Shape, TaskType, NoteOrNone
  <2> QED BY <1>4, <2>2, <2>3, <2>4
<1>7. DOMAIN tasks' = N!Slots
  BY Zenon, <1>1, <1>2
<1>8. NavigationTypes'
  BY Zenon, <1>1, <1>2, <1>3, <1>4, <1>5, <1>6, <1>7 DEF NavigationTypes, TextsBounded
<1> QED BY <1>3, <1>4, <1>5, <1>8

LEMMA SaveRoundKeepsEdits ==
  ASSUME EditInv, NEW ok \in BOOLEAN, N!SaveRound(ok)
  PROVE  EditInv'
<1>1. NavigationTypes /\ EditsSafe /\ LostExcused
  BY DEF EditInv
<1>2. /\ saver.busy /\ PageSound(page')
      /\ page'.current = page.current /\ page'.session = page.session /\ page'.text = page.text
      /\ SameLook(page, page')
      /\ \/ RoundUnchanged /\ ~page'.dirty /\ page'.saved = page.saved /\ SameRoute(page, page')
         \/ ~N!SnapshotIsCurrent /\ page' = page
         \/ N!SnapshotIsCurrent /\ ~RoundUnchanged /\ ok /\ page' = N!Persisted(page)
         \/ /\ N!SnapshotIsCurrent /\ ~ok /\ page'.failed /\ page'.dirty = page.dirty
            /\ page'.saved = page.saved /\ SameRoute(page, page')
      /\ store' = [n \in N!AllNotes |->
              IF ok /\ ~RoundUnchanged /\ n = saver.note THEN saver.text ELSE store[n]]
      /\ lost' = lost
      /\ \/ saver.again /\ saver' = N!Snapshot(page', FALSE) /\ tasks' = tasks
         \/ ~saver.again /\ saver' = N!Rested
  BY Zenon, <1>1, SaveRoundParts
<1>3. /\ NavigationTypes' /\ saver' \in SaverType
      /\ \A i \in N!Slots : tasks[i].pc # "saving" => tasks'[i] = tasks[i]
  BY <1>1, SaveRoundTypes
<1> SUFFICES EditsSafe'
  BY <1>1, <1>2, <1>3 DEF EditInv, LostExcused
<1>4. Away' => Away \/ Waiting
  BY <1>3 DEF Away, Waiting, Passing
<1>5. CASE ~page'.dirty
  BY <1>5 DEF EditsSafe, Edited
<1>6. CASE page'.dirty
  <2>1. PageSound(page) /\ (N!SnapshotIsCurrent => ~ok)
    <3>1. PageSound(page)
      BY <1>1 DEF NavigationTypes
    <3>2. page' = N!Persisted(page) => ~page'.dirty
      BY <3>1, PersistedPage
    <3> QED BY <1>2, <1>6, <3>1, <3>2 DEF RoundUnchanged
  <2>2. \/ ~N!SnapshotIsCurrent /\ page' = page
        \/ N!SnapshotIsCurrent /\ ~ok /\ page'.failed /\ page'.dirty = page.dirty
    BY <1>2, <1>6, <2>1
  <2>3. Edited' => Edited
    BY <1>2, <2>2 DEF Edited
  <2>4. ~N!SnapshotIsCurrent /\ Edited /\ (Away \/ Waiting) /\ ~saver.again => Excused
    BY <1>1 DEF EditsSafe, Covered
  <2>5. ~N!SnapshotIsCurrent /\ Edited /\ Away => Excused
    BY <1>1 DEF EditsSafe
  <2>6. saver.again => Away' = Away
    BY <1>2 DEF Away, Passing, N!Rested
  <2>7. Edited' /\ Away' => Excused'
    BY <1>2, <1>4, <2>2, <2>3, <2>4, <2>5, <2>6 DEF Excused
  <2>8. saver.again => Covered'
    BY <1>2 DEF Covered, N!SnapshotIsCurrent, N!Snapshot
  <2>9. ~saver.again => (Waiting' => FALSE)
    <3> SUFFICES ASSUME ~saver.again, NEW i \in N!Slots PROVE tasks'[i].pc # "saving"
      BY DEF Waiting
    <3>1. TaskSound(tasks[i])
      BY <1>1 DEF NavigationTypes
    <3>2. tasks[i].after \in Afters /\ tasks[i] \in TaskType
      BY <3>1 DEF TaskSound, TaskType
    <3>3. tasks' = [j \in N!Slots |->
                    IF tasks[j].pc # "saving" THEN tasks[j]
                    ELSE IF tasks[j].after = "idle" THEN N!Idle
                    ELSE [tasks[j] EXCEPT !.pc = tasks[j].after, !.ok = ok]]
      BY Zenon, <1>1, SaveRoundParts
    <3>4. CASE tasks[i].pc # "saving"
      BY Zenon, <3>3, <3>4
    <3>5. CASE tasks[i].pc = "saving" /\ tasks[i].after = "idle"
      BY Zenon, <3>3, <3>5, IdleSound DEF N!Idle
    <3>6. CASE tasks[i].pc = "saving" /\ tasks[i].after # "idle"
      <4>1. tasks'[i] = [tasks[i] EXCEPT !.pc = tasks[i].after, !.ok = ok]
        BY Zenon, <3>3, <3>6
      <4>2. tasks'[i].pc = tasks[i].after
        BY <3>2, <4>1 DEF TaskType
      <4> QED BY <3>2, <4>2 DEF Afters
    <3> QED BY <3>4, <3>5, <3>6
  <2>15. Edited' => Excused' \/ Apart'
    <3> SUFFICES ASSUME Edited, ~Excused', NEW i \in N!Slots, Passing(tasks'[i])
                 PROVE  tasks'[i].note # page'.current
      BY <2>3 DEF Apart, Passing
    <3>1. ~Excused /\ Apart
      BY <1>1, <2>2 DEF Excused, EditsSafe
    <3>2. CASE tasks[i].pc # "saving"
      BY <1>2, <1>3, <3>1, <3>2 DEF Apart
    <3>3. CASE tasks[i].pc = "saving"
      <4>1. TaskSound(tasks[i])
        BY <1>1 DEF NavigationTypes
      <4>2. tasks[i].after \in Afters /\ tasks[i] \in TaskType
        BY <4>1 DEF TaskSound, TaskType
      <4>3. CASE saver.again
        BY <1>2, <3>3, <4>3 DEF Passing, N!Rested
      <4>4. CASE ~saver.again
        <5>1. tasks' = [j \in N!Slots |->
                    IF tasks[j].pc # "saving" THEN tasks[j]
                    ELSE IF tasks[j].after = "idle" THEN N!Idle
                    ELSE [tasks[j] EXCEPT !.pc = tasks[j].after, !.ok = ok]]
          BY Zenon, <1>1, <4>4, SaveRoundParts
        <5>2. CASE tasks[i].after = "idle"
          BY Zenon, <3>3, <5>1, <5>2 DEF N!Idle, Passing
        <5>3. CASE tasks[i].after # "idle"
          <6>1. tasks'[i] = [tasks[i] EXCEPT !.pc = tasks[i].after, !.ok = ok]
            BY Zenon, <3>3, <5>1, <5>3
          <6>2. tasks'[i].pc = tasks[i].after
            BY <4>2, <6>1 DEF TaskType
          <6> QED BY <4>2, <6>2 DEF Afters, Passing
        <5> QED BY <5>2, <5>3
      <4> QED BY <4>3, <4>4
    <3> QED BY <3>2, <3>3
  <2>10. Edited' /\ Waiting' => Excused' \/ Covered'
    BY <1>2, <2>8, <2>9
  <2>11. Edited' /\ (~N!Editing(page))' => Excused'
    BY <1>1, <1>2, <2>2, <2>3 DEF EditsSafe, N!Editing, SameLook, Excused
  <2>12. Edited' => page'.text > 0 /\ page'.text # store'[page'.current]
    <3> SUFFICES ASSUME Edited PROVE page.text > 0 /\ page.text # store'[page.current]
      BY <1>2, <2>3
    <3>1. page.text > 0 /\ page.text # store[page.current] /\ page.current \in N!AllNotes
      BY <1>1 DEF EditsSafe, Edited, NavigationTypes, PageSound, PageType, NoteOrNone
    <3>2. CASE ~(ok /\ page.current = saver.note)
      BY <1>2, <3>1, <3>2
    <3>3. CASE ok /\ page.current = saver.note
      <4>1. saver.text # page.text
        BY <1>1, <1>2, <2>1, <3>3 DEF EditsSafe, N!SnapshotIsCurrent, Edited
      <4> QED BY <1>2, <3>1, <3>3, <4>1
    <3> QED BY <3>2, <3>3
  <2>13. saver'.busy /\ page'.dirty /\ saver'.session # page'.session => saver'.text # page'.text
    BY <1>2 DEF N!Snapshot, N!Rested
  <2>14. page'.dirty => page'.current # None
    BY <1>1, <1>2, <2>2 DEF EditsSafe
  <2> QED BY <2>7, <2>10, <2>11, <2>12, <2>13, <2>14, <2>15 DEF EditsSafe
<1> QED BY <1>5, <1>6

LEMMA NavigationInitTyped ==
  ASSUME N!Init
  PROVE  EditInv
<1>1. PICK stack \in N!Openings :
        /\ page = [stack |-> stack, at |-> Len(stack), travel |-> 0, generation |-> 1,
                   restoring |-> FALSE, screen |-> "none", prefsOpen |-> FALSE,
                   current |-> None, session |-> 0, text |-> 0, saved |-> 0, dirty |-> FALSE,
                   timer |-> FALSE, failed |-> FALSE, late |-> FALSE, answered |-> FALSE,
                   gaps |-> {}]
        /\ LET n == N!Here([stack |-> stack, at |-> Len(stack)])
               note == IF n.screen = "note" THEN n.note ELSE None
               t == [N!Begun(note, IF note = None THEN "startList" ELSE "startRead") EXCEPT !.gen = 1]
           IN  tasks = [i \in N!Slots |-> IF i = 1 THEN t ELSE N!Idle]
  BY DEF N!Init
<1>2. stack \in Seq(Entries) /\ Len(stack) \in 1 .. Len(stack) /\ Len(stack) \in Nat
      /\ N!Here([stack |-> stack, at |-> Len(stack)]) = stack[Len(stack)]
      /\ stack[Len(stack)] \in Entries
  <2>1. PICK d : d = N!DashboardEntry
    OBVIOUS
  <2>2. d \in Entries
    BY <2>1 DEF N!DashboardEntry, N!Entry, Entries, NoteOrNone
  <2>3. CASE stack = <<d>>
    BY <2>2, <2>3 DEF N!Here
  <2>4. CASE \E e \in {N!Entry("note", n) : n \in Notes} \cup {N!Entry("preferences", None)} : stack = <<d, e>>
    <3>1. PICK e : stack = <<d, e>> /\ e \in Entries
      BY <2>4 DEF N!Entry, Entries, NoteOrNone, N!AllNotes
    <3> QED BY <2>2, <3>1 DEF N!Here
  <2> QED BY <1>1, <2>1, <2>3, <2>4 DEF N!Openings
<1>3. PageSound(page)
  BY <1>1, <1>2 DEF PageSound, PageType, NoteOrNone
<1>4. PICK note \in NoteOrNone :
        note = IF stack[Len(stack)].screen = "note" THEN stack[Len(stack)].note ELSE None
  BY <1>2 DEF Entries, NoteOrNone
<1>5. PICK pc \in {"startList", "startRead"} : pc = IF note = None THEN "startList" ELSE "startRead"
  OBVIOUS
<1>6. PICK t : t = [N!Idle EXCEPT !.note = note, !.pc = pc, !.gen = 1]
  OBVIOUS
<1>7. TaskSound(t) /\ Stop(t) \notin {"opened", "openRead"}
  <2>1. t \in TaskType /\ t.pc = pc /\ t.gen = 1 /\ t.note = note /\ t.route = "none"
    BY <1>4, <1>5, <1>6, IdleSound DEF TaskType, Stops, N!Runnable, N!Idle
  <2> QED BY <1>5, <2>1 DEF TaskSound, Stop, Shape, RouterStops
<1>8. tasks = [i \in N!Slots |-> IF i = 1 THEN t ELSE N!Idle]
  BY <1>1, <1>2, <1>4, <1>5, <1>6 DEF N!Begun
<1>9. /\ DOMAIN tasks = N!Slots /\ \A i \in N!Slots : TaskSound(tasks[i])
      /\ OpensKnown
  BY <1>7, <1>8, IdleSound DEF OpensKnown
<1>10. saver = N!Rested /\ lost = {}
       /\ used = [b \in DOMAIN NavigationBudget \ {"all"} |-> 0]
       /\ store \in [N!AllNotes -> {0, None}]
  BY DEF N!Init
<1>11. used \in UsedType /\ used.types = 0
  BY <1>10 DEF NavigationBudget, UsedType
<1>12. saver \in SaverType /\ ~saver.busy /\ saver.text = 0
  BY <1>10 DEF N!Rested, SaverType, NoteOrNone
<1>13. 0 \in Number /\ StoreSound
  BY <1>10, <1>11 DEF Number, StoreSound
<1>14. NavigationTypes
  BY <1>1, <1>3, <1>9, <1>11, <1>12, <1>13 DEF NavigationTypes, TextsBounded
<1>15. EditsSafe
  BY <1>1 DEF EditsSafe, Edited
<1> QED BY <1>10, <1>14, <1>15 DEF EditInv, LostExcused

LEMMA NavigationNextKeepsEdits ==
  ASSUME EditInv, N!Next
  PROVE  EditInv'
<1>1. ASSUME NEW i \in N!Slots, N!Proceed(i) \/ N!Fetched(i) PROVE EditInv'
  BY <1>1, ProceedKeepsEdits, FetchedKeepsEdits
<1>2. ASSUME NEW ok \in BOOLEAN, N!SaveRound(ok) PROVE EditInv'
  BY <1>2, SaveRoundKeepsEdits
<1>3. ASSUME NEW d \in {-1, 1}, N!Move(d) PROVE EditInv'
  BY <1>3, MoveKeepsEdits
<1>4. CASE \/ N!Travel \/ N!BackButton \/ N!OpenPreferences \/ N!ClosePreferences \/ N!ServerAnswers
           \/ N!Type \/ N!AutoSave
  BY <1>4, TravelKeepsEdits, BackButtonKeepsEdits, OpenPreferencesKeepsEdits,
     ClosePreferencesKeepsEdits, ServerAnswersKeepsEdits, TypeKeepsEdits, AutoSaveKeepsEdits
<1>5. ASSUME NEW n \in N!AllNotes, N!ClickNote(n) \/ N!ClickLink(n) \/ N!NewNote(n) \/ N!NewNoteByShortcut(n)
      PROVE EditInv'
  BY <1>5, ClickNoteKeepsEdits, ClickLinkKeepsEdits, NewNoteKeepsEdits, ShortcutKeepsEdits
<1> QED BY <1>1, <1>2, <1>3, <1>4, <1>5 DEF N!Next

NavigationClient == active = "navigation" => EditInv

(* Whatever the user typed is in the store, on its way there or in the       *)
(* editor, unless its save failed and said so, it came while a navigation    *)
(* was already on its way (editor/note-saver.js), or a restore of the        *)
(* preferences put up the dashboard over it, which it does with no look at   *)
(* the editor (restoreRoute, ui/navigation-controller.js).                   *)
THEOREM TypedTextIsSavedHolds == ClientSpec => []TypedTextIsSaved
<1>1. ClientInit => NavigationClient
  BY NavigationInitTyped DEF ClientInit, NavigationClient
<1>2. NavigationClient /\ [ClientNext]_vars => NavigationClient'
  <2> SUFFICES ASSUME NavigationClient, [ClientNext]_vars, active' = "navigation" PROVE EditInv'
    BY DEF NavigationClient
  <2>1. active = "navigation" /\ EditInv
    BY DEF NavigationClient, ClientNext, vars
  <2>2. CASE N!Next
    BY <2>1, <2>2, NavigationNextKeepsEdits
  <2>3. CASE UNCHANGED navigationVars
    BY <2>1, <2>3 DEF navigationVars, EditInv, NavigationTypes, TextsBounded, Number, StoreSound,
       OpensKnown, EditsSafe, Edited, Excused, Away, Apart, Passing, Waiting, Covered, LostExcused,
       N!SnapshotIsCurrent
  <2> QED BY <2>1, <2>2, <2>3 DEF ClientNext, vars
<1>3. NavigationClient => TypedTextIsSaved
  BY DEF NavigationClient, EditInv, LostExcused, TypedTextIsSaved, N!TypedTextIsSaved
<1> QED BY <1>1, <1>2, <1>3, PTL DEF ClientSpec


-----------------------------------------------------------------------------
(* The screen and the address: what holds of the notes, the saver and the    *)
(* generations.                                                              *)
Known(n) == n = None \/ n \in Notes \/ store[n] # None

(* A note that is not on the device waits for its first save.                *)
FirstSave ==
  page.current # None /\ store[page.current] = None =>
    page.current \notin Notes /\ page.saved = N!Nothing

KnownNotes ==
  /\ \A k \in 1 .. Len(page.stack) : Known(page.stack[k].note)
  /\ \A i \in N!Slots : tasks[i].gen # 0 => Known(tasks[i].note)

Generations ==
  /\ page.generation # 0
  /\ \A i \in N!Slots : /\ tasks[i].gen <= page.generation
                        /\ tasks[i].gen # 0 => \A j \in N!Slots : j # i => tasks[j].gen # tasks[i].gen
  /\ saver.busy => saver.session <= page.session

SaverSees ==
  saver.busy =>
    /\ saver.session = page.session => saver.note = page.current /\ (saver.text = page.text \/ page.dirty)
    /\ saver.note = page.current /\ page.current # None /\ saver.session # page.session
         => store[page.current] # None

EmptyEditor == page.current = None => page.text = page.saved /\ ~page.dirty

(* Nobody else has the identity of a note that is about to be made.          *)
Unclaimed(n, i) ==
  /\ n # page.current /\ n # saver.note /\ \A j \in N!Slots : j # i => tasks[j].note # n
  /\ n \notin Notes

NewNotesFresh ==
  \A i \in N!Slots :
    /\ Stop(tasks[i]) \in {"newSaved", "wikiSaved"} /\ store[tasks[i].note] = None => Unclaimed(tasks[i].note, i)
    /\ Stop(tasks[i]) = "newSaved" => store[tasks[i].note] = None

(* A note has no address before its first save.                              *)
NoAddressYet ==
  page.current # None /\ page.saved = N!Nothing =>
    \A k \in 1 .. Len(page.stack) : page.stack[k].note # page.current

Starting ==
  /\ page.screen = "none" => ~page.answered
  /\ \A i \in N!Slots :
       Stop(tasks[i]) \in {"startRead", "startList"} /\ tasks[i].gen = page.generation =>
         /\ page.screen = "none" /\ page.current = None
         /\ \A j \in N!Slots : j # i => tasks[j] = N!Idle

GroundsInv ==
  /\ FirstSave /\ KnownNotes /\ Generations /\ SaverSees /\ EmptyEditor /\ NewNotesFresh
  /\ NoAddressYet /\ Starting

(* What the screen shows is what the address names, or a note that has none. *)
Unaddressed(q) == N!Editing(q) /\ q.current # None /\ store[q.current] = None
Addressed(q) ==
  /\ q.prefsOpen <=> N!Here(q).screen = "preferences"
  /\ IF N!Here(q).note = None THEN q.screen = "dashboard"
     ELSE N!Editing(q) /\ q.current = N!Here(q).note
Right(q) == Unaddressed(q) \/ Addressed(q)

(* What the screen waits for while it is not right.                          *)
FirstSaveDue == N!Editing(page) /\ page.current # None /\ page.saved = N!Nothing /\ page.dirty
BackDue      == \E i \in N!Slots : tasks[i].pc = "backDone"
OpeningDue   == \E i \in N!Slots : tasks[i].gen = 0 /\ Stop(tasks[i]) \in {"opened", "openRead"}

(* The latest restore is about the address there is.                         *)
Aimed(t, q) == t.note = N!Here(q).note /\ (t.prefs <=> N!Here(q).screen = "preferences")
Uncovered(t, q) == ~t.prefs /\ ~t.leaving => ~q.prefsOpen
Fits(t, q) ==
  /\ Aimed(t, q) /\ Stop(t) \notin {"startRead", "startList"}
  /\ Stop(t) \in {"leaveSaved", "restoreSaved"} => Uncovered(t, q)
  /\ Stop(t) = "leaveSaved" => t.note # None /\ (q.current = t.note \/ BackDue \/ q.travel > 0)
  /\ Stop(t) = "prefsDashboard" => q.screen = "dashboard" /\ t.note = None

NotesInEditor == page.current # None => N!Editing(page)
LatestFits    == \A i \in N!Slots : tasks[i].gen = page.generation => Fits(tasks[i], page)
RightOrDue    ==
  Right(page) \/ N!RestoreUnderWay \/ page.travel > 0 \/ FirstSaveDue \/ BackDue \/ OpeningDue

ScreenInv ==
  page.gaps = {} => NotesInEditor /\ (page.answered => LatestFits /\ RightOrDue)


-----------------------------------------------------------------------------
(* What the latest restore does: it goes on about the address there is, or   *)
(* it ends with the screen right.                                            *)
Lands(o) ==
  o.p.gaps = {} =>
    \/ o.t.gen # 0 /\ o.t.gen = o.p.generation /\ Fits(o.t, o.p)
    \/ o.t = N!Idle /\ (Right(o.p) \/ BackDue \/ o.p.travel > 0)

Latest(t, p) == t \in TaskType /\ t.gen # 0 /\ t.gen = p.generation /\ Aimed(t, p)

LEMMA EndLands ==
  ASSUME NEW q, q.gaps # {} \/ Right(q) \/ BackDue \/ q.travel > 0
  PROVE  Lands(N!End(q))
BY DEF Lands, N!End, N!Out

LEMMA AtLands ==
  ASSUME NEW t, NEW q, Latest(t, q),
         NEW s \in {"openRead", "readLocal", "fetch", "prefsDashboard"},
         s = "prefsDashboard" => q.screen = "dashboard" /\ t.note = None
  PROVE  Lands(N!At(t, s, q))
<1>1. PICK u : u = [t EXCEPT !.pc = s]
  OBVIOUS
<1>2. u.gen = t.gen /\ u.note = t.note /\ u.prefs = t.prefs /\ u.pc = s
  BY <1>1 DEF Latest, TaskType
<1>3. Stop(u) = s
  BY <1>2 DEF Stop
<1>4. Fits(u, q)
  BY <1>2, <1>3 DEF Fits, Aimed, Latest
<1> QED BY <1>1, <1>2, <1>4 DEF Lands, N!At, N!Out, Latest

LEMMA SavingLands ==
  ASSUME NEW t, NEW q, Latest(t, q), NEW s \in {"opened", "leaveSaved", "restoreSaved"},
         s # "opened" => Uncovered(t, q), s = "leaveSaved" => t.note # None /\ q.current = t.note
  PROVE  Lands(N!Saving(t, s, q))
<1>1. PICK u : u = [t EXCEPT !.pc = "saving", !.after = s]
  OBVIOUS
<1>2. u.gen = t.gen /\ u.note = t.note /\ u.prefs = t.prefs /\ u.leaving = t.leaving /\ u.pc = "saving" /\ u.after = s
  BY <1>1 DEF Latest, TaskType
<1>3. Stop(u) = s
  BY <1>2 DEF Stop
<1>4. Fits(u, q)
  BY <1>2, <1>3 DEF Fits, Aimed, Latest, Uncovered
<1> QED BY <1>1, <1>2, <1>4 DEF Lands, N!Saving, N!Out, Latest

LEMMA OpenNoteLands ==
  ASSUME NEW t, NEW p, Latest(t, p), Ready(p), t.note # None, store[t.note] # None \/ t.pc = "fetch",
         t.route = "none"
  PROVE  Lands(N!OpenNote(t, p))
<1>1. PICK o : o = N!OpenNote(t, p)
  OBVIOUS
<1>2. /\ Carried(t, o.t)
      /\ o.t.pc = "openRead" \/ (o.t.pc = "saving" /\ o.t.after = "opened")
      /\ SameRoute(p, o.p) /\ o.p.generation = p.generation
  <2>1. p.generation \in Nat /\ t \in TaskType /\ t.gen # 0
    BY DEF Ready, PageSound, PageType, Latest
  <2> QED BY <1>1, <2>1, OpenNoteSound
<1>3. N!Here(o.p) = N!Here(p)
  BY <1>2 DEF SameRoute, N!Here
<1>4. Stop(o.t) \in {"opened", "openRead"}
  BY <1>2 DEF Stop
<1> QED BY <1>1, <1>2, <1>3, <1>4 DEF Lands, Fits, Aimed, Carried, Latest

LEMMA OpenSavedLands ==
  ASSUME NEW t, NEW p, Latest(t, p), Ready(p)
  PROVE  Lands(N!OpenSaved(t, p))
<1>1. N!Current(t, p)
  BY DEF N!Current, Latest
<1>2. CASE ~t.ok
  <2>1. "save failed" \in Passes /\ PageSound(p)
    BY DEF Passes, Ready
  <2>2. N!Gap(p, "save failed").gaps # {}
    BY Zenon, <2>1, GapNoted
  <2> QED BY Zenon, <1>1, <1>2, <2>2, EndLands DEF N!OpenSaved
<1>3. CASE t.ok
  BY <1>1, <1>3, AtLands DEF N!OpenSaved
<1> QED BY <1>2, <1>3

LEMMA OpenReadLands ==
  ASSUME NEW t, NEW p, Latest(t, p), Ready(p), t.route = "none", t.note # None, store[t.note] # None
  PROVE  Lands(N!OpenRead(t, p))
<1>1. N!Current(t, p) /\ t \in TaskType
  BY DEF N!Current, Latest
<1>2. PICK q : q = N!Shown(p, t.note, store[t.note])
  OBVIOUS
<1>3. /\ PageSound(q) /\ q.screen = "editor" /\ q.current = t.note /\ N!Here(q) = N!Here(p)
  <2>1. PICK r : r = q
    OBVIOUS
  <2>2. /\ ViewFollows(t, p, r) /\ r.screen = "editor" /\ r.current = t.note
        /\ N!Here(r) = IF r = q THEN N!Here(p) ELSE N!Entry("note", t.note)
    BY <1>1, <1>2, <2>1, ShownFollows
  <2> QED BY <2>1, <2>2 DEF ViewFollows
<1>4. N!OpenRead(t, p) =
        N!End(IF t.prefs THEN [q EXCEPT !.prefsOpen = TRUE]
              ELSE IF q.prefsOpen THEN N!Gap(q, "under preferences") ELSE q)
  BY <1>1, <1>2 DEF N!OpenRead, Latest
<1>5. CASE t.prefs
  <2>1. PICK b \in BOOLEAN : b = TRUE
    OBVIOUS
  <2>2. PICK z : z = [q EXCEPT !.prefsOpen = b]
    OBVIOUS
  <2>3. /\ SameEdit(q, z) /\ z.screen = q.screen /\ z.prefsOpen = b /\ N!Here(z) = N!Here(q)
    BY <1>3, <2>2, PreferencesShown
  <2>4. Right(z)
    BY <1>3, <1>5, <2>1, <2>3 DEF Right, Addressed, Latest, Aimed, SameEdit, N!Editing
  <2> QED BY <1>4, <1>5, <2>1, <2>2, <2>4, EndLands
<1>6. CASE ~t.prefs /\ q.prefsOpen
  <2>1. "under preferences" \in Passes
    BY DEF Passes
  <2>2. N!Gap(q, "under preferences").gaps # {}
    BY Zenon, <1>3, <2>1, GapNoted
  <2> QED BY Zenon, <1>4, <1>6, <2>2, EndLands
<1>7. CASE ~t.prefs /\ ~q.prefsOpen
  <2>1. Right(q)
    BY <1>3, <1>7 DEF Right, Addressed, Latest, Aimed, N!Editing
  <2> QED BY <1>4, <1>7, <2>1, EndLands
<1> QED BY <1>5, <1>6, <1>7

LEMMA MissingLands ==
  ASSUME NEW t, NEW p, Latest(t, p), Ready(p)
  PROVE  Lands(N!Missing(t, p))
<1>1. N!Current(t, p) /\ t \in TaskType
  BY DEF N!Current, Latest
<1>2. PICK r : r = MissingPage(t, p)
  OBVIOUS
<1>3. /\ PageSound(r) /\ r.screen = "dashboard" /\ SameRun(p, r)
      /\ N!Here(r) = IF t.note = None THEN N!Here(p) ELSE N!DashboardEntry
  BY <1>1, <1>2, MissingPageFollows DEF ViewFollows
<1>4. PICK z : z = IF r.prefsOpen THEN N!Gap(r, "under preferences") ELSE r
  BY Zenon
<1>5. N!Missing(t, p) = IF t.prefs /\ t.note = None THEN N!At(t, "prefsDashboard", z) ELSE N!End(z)
  BY Zenon, <1>1, <1>2, <1>4 DEF N!Missing, MissingPage
<1>6. /\ N!Here(z) = N!Here(r) /\ z.screen = "dashboard" /\ z.generation = p.generation
      /\ z.gaps # {} \/ (z = r /\ ~r.prefsOpen)
  <2>1. "under preferences" \in Passes
    BY DEF Passes
  <2>2. CASE r.prefsOpen
    BY ZenonT(60), <1>3, <1>4, <2>1, <2>2, GapNoted DEF SameLook, SameRun
  <2>3. CASE ~r.prefsOpen
    BY <1>3, <1>4, <2>3 DEF SameRun
  <2> QED BY <2>2, <2>3
<1>7. CASE t.prefs /\ t.note = None
  <2>1. Latest(t, z)
    BY <1>3, <1>6, <1>7 DEF Latest, Aimed
  <2> QED BY <1>5, <1>6, <1>7, <2>1, AtLands
<1>8. CASE ~(t.prefs /\ t.note = None)
  <2>1. z.gaps # {} \/ Right(z)
    BY <1>3, <1>6, <1>8 DEF Right, Addressed, Latest, Aimed, N!DashboardEntry, N!Entry
  <2> QED BY <1>5, <1>8, <2>1, EndLands
<1> QED BY <1>7, <1>8

LEMMA PrefsDashboardLands ==
  ASSUME NEW t, NEW p, Latest(t, p), Ready(p), t.prefs, t.note = None, p.screen = "dashboard"
  PROVE  Lands(N!PrefsDashboard(t, p))
<1>1. N!Current(t, p) /\ PageSound(p)
  BY DEF N!Current, Latest, Ready
<1>2. PICK b \in BOOLEAN : b = TRUE
  OBVIOUS
<1>3. PICK z : z = [p EXCEPT !.prefsOpen = b]
  OBVIOUS
<1>4. z.screen = p.screen /\ z.prefsOpen = b /\ N!Here(z) = N!Here(p)
  BY <1>1, <1>3, PreferencesShown
<1>5. Right(z)
  BY <1>2, <1>4 DEF Right, Addressed, Latest, Aimed
<1> QED BY <1>1, <1>2, <1>3, <1>5, EndLands DEF N!PrefsDashboard

LEMMA RestoreNoteLands ==
  ASSUME NEW t, NEW p, Latest(t, p), Ready(p)
  PROVE  Lands(N!RestoreNote(t, p))
BY MissingLands, AtLands DEF N!RestoreNote

LEMMA ReadLocalLands ==
  ASSUME NEW t, NEW p, Latest(t, p), Ready(p), t.note # None, t.route = "none"
  PROVE  Lands(N!ReadLocal(t, p))
<1>1. N!Current(t, p)
  BY DEF N!Current, Latest
<1>2. [t EXCEPT !.route = "none"] = t
  BY DEF Latest, TaskType
<1>3. CASE store[t.note] # None
  BY <1>1, <1>2, <1>3, OpenNoteLands DEF N!ReadLocal
<1>4. CASE store[t.note] = None
  BY <1>1, <1>4, AtLands, MissingLands DEF N!ReadLocal
<1> QED BY <1>3, <1>4

LEMMA RestorePreferencesLands ==
  ASSUME NEW t, NEW p, Latest(t, p), Ready(p), t.prefs
  PROVE  Lands(N!RestorePreferences(t, p))
<1>1. CASE \/ t.note # None /\ p.current = t.note /\ N!Editing(p)
           \/ t.note = None /\ p.screen = "dashboard"
  <2>1. PICK b \in BOOLEAN : b = TRUE
    OBVIOUS
  <2>2. PICK z : z = [p EXCEPT !.prefsOpen = b]
    OBVIOUS
  <2>3. /\ SameEdit(p, z) /\ z.screen = p.screen /\ z.prefsOpen = b /\ N!Here(z) = N!Here(p)
    BY <2>2, PreferencesShown DEF Ready
  <2>4. Right(z)
    BY <1>1, <2>1, <2>3 DEF Right, Addressed, Latest, Aimed, SameEdit, N!Editing
  <2> QED BY <1>1, <2>1, <2>2, <2>4, EndLands DEF N!RestorePreferences
<1>2. CASE ~(\/ t.note # None /\ p.current = t.note /\ N!Editing(p)
             \/ t.note = None /\ p.screen = "dashboard")
  BY <1>2, RestoreNoteLands DEF N!RestorePreferences
<1> QED BY <1>1, <1>2

LEMMA RestoreScreenLands ==
  ASSUME NEW t, NEW p, Latest(t, p), Ready(p), ~t.prefs, Uncovered(t, p)
  PROVE  Lands(N!RestoreScreen(t, p))
<1>1. N!Current(t, p) /\ PageSound(p)
  BY DEF N!Current, Latest, Ready
<1>2. PICK q : q = IF t.leaving THEN [p EXCEPT !.prefsOpen = FALSE] ELSE p
  OBVIOUS
<1>3. /\ PageSound(q) /\ SameEdit(p, q) /\ SameRun(p, q) /\ q.screen = p.screen /\ ~q.prefsOpen
      /\ N!Here(q) = N!Here(p)
  <2>1. PICK b \in BOOLEAN : b = FALSE
    OBVIOUS
  <2>2. CASE t.leaving
    <3>1. q = [p EXCEPT !.prefsOpen = b]
      BY <1>2, <2>1, <2>2
    <3> QED BY <1>1, <2>1, <3>1, PreferencesShown
  <2>3. CASE ~t.leaving
    BY <1>1, <1>2, <2>3 DEF Uncovered, SameEdit, SameRun
  <2> QED BY <2>2, <2>3
<1>4. Latest(t, q) /\ Ready(q)
  BY <1>3 DEF Latest, Aimed, SameRun, Ready, SameEdit
<1>5. CASE \/ t.note # None /\ N!Here(p).screen = "note" /\ p.current = t.note /\ N!Editing(p)
           \/ t.note = None /\ p.screen = "dashboard"
  <2>1. Right(q)
    BY <1>3, <1>4, <1>5 DEF Right, Addressed, Latest, Aimed, SameEdit, N!Editing
  <2>2. N!RestoreScreen(t, p) = N!End(q)
    BY <1>1, <1>2, <1>5 DEF N!RestoreScreen
  <2> QED BY <2>1, <2>2, EndLands
<1>6. CASE ~(\/ t.note # None /\ N!Here(p).screen = "note" /\ p.current = t.note /\ N!Editing(p)
             \/ t.note = None /\ p.screen = "dashboard")
  <2>1. N!RestoreScreen(t, p) = N!RestoreNote(t, q)
    BY <1>1, <1>2, <1>6 DEF N!RestoreScreen
  <2> QED BY <1>4, <2>1, RestoreNoteLands
<1> QED BY <1>5, <1>6

(* The preferences over a page, at the address they have there.              *)
Over(p, q) ==
  /\ SameEdit(p, q) /\ q.screen = p.screen /\ q.prefsOpen /\ SameRun(p, q) /\ q.gaps = p.gaps
  /\ N!Here(q).screen = "preferences" /\ N!Here(q).note = N!Here(p).note

LEMMA PreferencesOver ==
  ASSUME NEW p, PageSound(p), NEW replace \in BOOLEAN
  PROVE  Over(p, [N!SetPreferences(p, replace) EXCEPT !.prefsOpen = TRUE])
<1>1. PICK q : q = [N!SetPreferences(p, replace) EXCEPT !.prefsOpen = TRUE]
  OBVIOUS
<1>2. PICK u : u = N!SetPreferences(p, replace)
  OBVIOUS
<1>3. PICK open \in BOOLEAN : open = TRUE
  OBVIOUS
<1>4. /\ PageSound(u) /\ AddressOnly(p, u)
      /\ N!Here(u).screen = "preferences" /\ N!Here(u).note = N!Here(p).note
  BY <1>2, PreferencesSet
<1>5. /\ SameEdit(u, q) /\ SameRun(u, q) /\ q.screen = u.screen /\ q.prefsOpen = open
      /\ q.gaps = u.gaps /\ N!Here(q) = N!Here(u)
  <2>1. q = [u EXCEPT !.prefsOpen = TRUE]
    BY <1>1, <1>2
  <2>2. q = [u EXCEPT !.prefsOpen = open]
    BY <1>3, <2>1
  <2> QED BY <1>4, <2>2, PreferencesShown
<1>6. Over(p, q)
  BY <1>3, <1>4, <1>5 DEF Over, AddressOnly, SameEdit, SameLook, SameRun
<1> QED BY <1>1, <1>6

LEMMA RestoreSavedLands ==
  ASSUME NEW t, TaskSound(t), t.pc \in {"leaveSaved", "restoreSaved"}, NEW p, Latest(t, p), Ready(p),
         Fits(t, p), p.current # None => N!Editing(p)
  PROVE  Lands(N!RestoreSaved(t, p))
<1>1. N!Current(t, p) /\ PageSound(p) /\ t \in TaskType
  BY DEF N!Current, Latest, Ready
<1>2. t.after = t.pc /\ Stop(t) = t.pc /\ Uncovered(t, p) /\ (t.pc = "restoreSaved" => ~t.prefs)
  BY DEF TaskSound, Stop, Fits, Shape
<1>3. CASE t.pc = "restoreSaved"
  BY <1>2, <1>3, RestoreScreenLands DEF N!RestoreSaved
<1>4. CASE t.pc = "leaveSaved" /\ ~t.ok
  <2>1. PICK b \in BOOLEAN : b = TRUE
    OBVIOUS
  <2>2. PICK q : q = [N!SetPreferences(p, b) EXCEPT !.prefsOpen = TRUE]
    OBVIOUS
  <2>3. Over(p, q)
    BY <1>1, <2>1, <2>2, PreferencesOver
  <2>4. t.note # None /\ (p.current = t.note \/ BackDue \/ p.travel > 0)
    BY <1>2, <1>4 DEF Fits
  <2>5. Right(q) \/ BackDue \/ q.travel > 0
    <3>1. CASE p.current = t.note
      BY <2>3, <2>4, <3>1 DEF Over, Right, Addressed, Latest, Aimed, SameEdit, N!Editing
    <3> QED BY <2>3, <2>4, <3>1 DEF Over, SameRun
  <2>6. N!RestoreSaved(t, p) = N!End(q)
    BY <1>1, <1>2, <1>4, <2>1, <2>2 DEF N!RestoreSaved, N!BackToPreferences
  <2> QED BY <2>5, <2>6, EndLands
<1>5. CASE t.pc = "leaveSaved" /\ t.ok
  BY <1>1, <1>2, <1>5, RestorePreferencesLands, RestoreScreenLands DEF N!RestoreSaved
<1> QED BY <1>3, <1>4, <1>5

(* A restore that begins, at the page p.                                     *)
LEMMA RestoreRouteLands ==
  ASSUME NEW p, Ready(p), NEW fetch \in BOOLEAN, NEW popped \in BOOLEAN
  PROVE  Lands(N!RestoreRoute(p, fetch, popped))
<1>0. PICK t : t = RestoreTask(p, fetch, popped)
  OBVIOUS
<1>1. /\ RouterTask(t) /\ t.gen = p.generation + 1 /\ t.note = N!Here(p).note
      /\ t.prefs = (N!Here(p).screen = "preferences")
      /\ t.leaving = (N!Here(p).screen # "preferences" /\ p.prefsOpen)
      /\ t \in TaskType
  BY <1>0, RestoreTaskSound DEF RouterTask
<1>2. PICK g \in Nat : g = p.generation + 1
  BY DEF Ready, PageSound, PageType
<1>3. PICK q : q = [p EXCEPT !.generation = g]
  OBVIOUS
<1>5. /\ PageSound(q) /\ SameRoute(p, q) /\ SameLook(p, q) /\ SameEdit(p, q) /\ q.generation = g
  BY <1>3 DEF Ready, PageSound, PageType, SameEdit, SameLook, SameRoute
<1>7. N!Here(q) = N!Here(p)
  BY <1>5 DEF N!Here, SameRoute
<1>8. Ready(q)
  BY <1>5 DEF Ready, SameEdit
<1>9. Latest(t, q)
  BY <1>1, <1>2, <1>5, <1>7 DEF Latest, Aimed, RouterTask
<1>10. Uncovered(t, q)
  BY <1>1, <1>5 DEF Uncovered, SameLook
<1>11. N!RestoreRoute(p, fetch, popped) =
         LET same == t.note # None /\ p.current = t.note /\ p.dirty
         IN  IF (t.prefs \/ t.leaving) /\ same THEN N!Saving(t, "leaveSaved", q)
             ELSE IF t.prefs THEN N!RestorePreferences(t, q)
             ELSE IF N!Editing(p) /\ p.dirty THEN N!Saving(t, "restoreSaved", q)
             ELSE N!RestoreScreen(t, q)
  <2>1. t = [N!Idle EXCEPT !.gen = q.generation, !.note = N!Here(p).note,
                           !.prefs = (N!Here(p).screen = "preferences"),
                           !.leaving = (~(N!Here(p).screen = "preferences") /\ p.prefsOpen),
                           !.fetch = fetch, !.popped = popped]
    BY <1>0, <1>2, <1>5 DEF RestoreTask
  <2>2. q = [p EXCEPT !.generation = @ + 1]
    BY <1>2, <1>3
  <2>3. N!RestoreRoute(p, fetch, popped) =
          LET same == t.note # None /\ p.current = t.note /\ p.dirty
          IN  IF (N!Here(p).screen = "preferences" \/ t.leaving) /\ same THEN N!Saving(t, "leaveSaved", q)
              ELSE IF N!Here(p).screen = "preferences" THEN N!RestorePreferences(t, q)
              ELSE IF N!Editing(p) /\ p.dirty THEN N!Saving(t, "restoreSaved", q)
              ELSE N!RestoreScreen(t, q)
    BY <2>1, <2>2 DEF N!RestoreRoute
  <2>4. N!Here(p).screen = "preferences" <=> t.prefs
    BY <1>1
  <2> QED BY <2>3, <2>4
<1>12. CASE (t.prefs \/ t.leaving) /\ t.note # None /\ p.current = t.note /\ p.dirty
  <2>1. Lands(N!Saving(t, "leaveSaved", q))
    BY <1>5, <1>9, <1>10, <1>12, SavingLands DEF SameEdit
  <2> QED BY <1>11, <1>12, <2>1
<1>13. CASE ~((t.prefs \/ t.leaving) /\ t.note # None /\ p.current = t.note /\ p.dirty) /\ t.prefs
  <2>1. Lands(N!RestorePreferences(t, q))
    BY <1>8, <1>9, <1>13, RestorePreferencesLands
  <2> QED BY <1>11, <1>13, <2>1
<1>14. CASE ~((t.prefs \/ t.leaving) /\ t.note # None /\ p.current = t.note /\ p.dirty) /\ ~t.prefs
  <2>1. Lands(N!Saving(t, "restoreSaved", q)) /\ Lands(N!RestoreScreen(t, q))
    BY <1>8, <1>9, <1>10, <1>14, SavingLands, RestoreScreenLands
  <2> QED BY <1>11, <1>14, <2>1
<1> QED BY <1>12, <1>13, <1>14

-----------------------------------------------------------------------------
(* One step of a task: what the notes, the saver and the generations make    *)
(* of it.                                                                    *)
Stepped(i, t, p, o) ==
  t \in TaskType /\ SamePage(p) /\ OutcomeSound(t, p, o) /\ N!Apply(i, o)

Applied(i, t, p, o) ==
  /\ PageSound(page') /\ ViewFollows(t, p, page')
  /\ SameEdit(o.p, page') /\ SameLook(o.p, page') /\ SameRoute(o.p, page') /\ page'.gaps = o.p.gaps
  /\ page'.travel = o.p.travel /\ page'.generation = o.p.generation /\ page'.answered = o.p.answered
  /\ N!Here(page') = N!Here(o.p)
  /\ DOMAIN tasks' = N!Slots /\ tasks'[i] = o.t
  /\ \A j \in N!Slots : j # i => \/ tasks'[j] = tasks[j]
                                 \/ tasks'[j] = N!Idle /\ tasks[j].pc = "backWait"
  /\ saver' \in SaverType
  /\ \/ o.t.pc # "saving" /\ saver' = saver
     \/ o.t.pc = "saving" /\ saver' = N!Save(o.p)

LEMMA StepApplied ==
  ASSUME NavigationTypes, NEW i \in N!Slots, NEW t, NEW p, NEW o, Stepped(i, t, p, o)
  PROVE  Applied(i, t, p, o)
<1>1. t \in TaskType /\ SamePage(p) /\ OutcomeSound(t, p, o) /\ N!Apply(i, o)
  BY DEF Stepped
<1> QED BY <1>1, AppliedParts DEF Applied

(* Where a task may go that was begun before.                                *)
Later ==
  {"idle", "opened", "openRead", "readLocal", "fetch", "prefsDashboard", "startList", "backWait",
   "backDone"}

(* A task that goes on, and one that begins.                                 *)
Resumed(i, t, p, o) ==
  /\ t = tasks[i] /\ p = page /\ t.pc \notin {"idle", "saving"}
  /\ Stop(o.t) \in Later
  /\ Stop(o.t) = "startList" => t.pc = "startRead" /\ o.p = page
  /\ Renewed(t, p, o.p) /\ o.p.saved = N!Nothing => store[t.note] = None
  /\ \/ store' = store
     \/ t.gen # 0 /\ t.note \in N!AllNotes /\ store' = [store EXCEPT ![t.note] = 0]

Started(i, t, p, o) ==
  /\ tasks[i] = N!Idle /\ t.pc = "idle" /\ store' = store
  /\ \/ t.gen = 0 /\ (t.note = None \/ store[t.note] # None \/ N!Unused(t.note))
     \/ t.gen = page.generation + 1 /\ o.p.generation = t.gen /\ Known(t.note)
  /\ page.screen # "none" \/ o.p.generation > page.generation
  /\ p.answered => page.answered \/ page.screen # "none"
  /\ Stop(o.t) \notin {"startRead", "startList"}
  /\ Stop(o.t) = "newSaved" => store[t.note] = None

Grounded(i, t, p, o) ==
  /\ NavigationTypes /\ GroundsInv /\ i \in N!Slots /\ Stepped(i, t, p, o)
  /\ Resumed(i, t, p, o) \/ Started(i, t, p, o)

(* The notes there are stay, whatever a step does.                           *)
LEMMA StoreGrows ==
  ASSUME NEW i, NEW t, NEW p, NEW o, Grounded(i, t, p, o), NEW n
  PROVE  /\ store[n] # None => store'[n] # None
         /\ store'[n] = store[n] \/ (n = t.note /\ t = tasks[i] /\ t.gen # 0 /\ t.note \in N!AllNotes)
<1>1. 0 # None
  BY ClientAssumption
<1>2. CASE store' = store
  BY <1>2
<1>3. CASE store' # store
  <2>1. t.gen # 0 /\ t.note \in N!AllNotes /\ store' = [store EXCEPT ![t.note] = 0] /\ t = tasks[i]
    BY <1>3 DEF Grounded, Resumed, Started
  <2>2. DOMAIN store = N!AllNotes
    BY DEF Grounded, NavigationTypes, TextsBounded, StoreSound
  <2> QED BY <1>1, <2>1, <2>2
<1> QED BY <1>2, <1>3

(* A note that a new session makes is nobody's yet.                          *)
LEMMA MadeFresh ==
  ASSUME NEW i, NEW t, NEW p, NEW o, Grounded(i, t, p, o), Renewed(t, p, o.p), o.p.saved = N!Nothing
  PROVE  /\ t = tasks[i] /\ t.pc \in {"newSaved", "wikiSaved"} /\ o.p.current = t.note /\ t.note # None
         /\ store[t.note] = None /\ Unclaimed(t.note, i) /\ o.p.stack = p.stack
<1>1. o.p.text \in Nat
  BY DEF Grounded, Stepped, OutcomeSound, ViewFollows, PageSound, PageType
<1>2. o.p.saved # o.p.text
  BY <1>1 DEF N!Nothing
<1>3. t.pc \in {"newSaved", "wikiSaved"} /\ o.p.current = t.note /\ t.note # None /\ o.p.stack = p.stack
  BY <1>2 DEF Renewed
<1>4. t = tasks[i] /\ store[t.note] = None /\ i \in N!Slots
  BY <1>3 DEF Grounded, Resumed, Started
<1>5. Stop(t) \in {"newSaved", "wikiSaved"}
  BY <1>3 DEF Stop
<1> QED BY <1>3, <1>4, <1>5 DEF Grounded, GroundsInv, NewNotesFresh

(* The page a step leads to, in terms of the page there is.                  *)
LEMMA GroundedPage ==
  ASSUME NEW i, NEW t, NEW p, NEW o, Grounded(i, t, p, o)
  PROVE  /\ Applied(i, t, p, o) /\ i \in N!Slots /\ t \in TaskType
         /\ Kept(t, page, page') \/ Renewed(t, page, page')
         /\ page.generation <= page'.generation /\ page.generation \in Nat /\ page'.generation \in Nat
         /\ page.session \in Nat /\ page'.session \in Nat
         /\ \A k \in 1 .. Len(page'.stack) :
              \/ page'.stack[k].note = None
              \/ page'.stack[k].note = t.note /\ store[t.note] # None /\ page'.saved # N!Nothing
              \/ \E j \in 1 .. Len(page.stack) : page'.stack[k].note = page.stack[j].note
<1>1. Applied(i, t, p, o) /\ i \in N!Slots /\ t \in TaskType /\ SamePage(p) /\ PageSound(page)
  BY StepApplied DEF Grounded, Stepped, NavigationTypes
<1>2. ViewFollows(t, p, page')
  BY <1>1 DEF Applied
<1>3. Kept(t, page, page') \/ Renewed(t, page, page')
  <2>1. Kept(t, p, page') => Kept(t, page, page')
    BY <1>1 DEF Kept, SamePage, SameEdit, SameLook
  <2>2. Renewed(t, p, page') => Renewed(t, page, page')
    BY <1>1 DEF Renewed, SamePage, SameEdit, SameLook
  <2> QED BY <1>2, <2>1, <2>2 DEF ViewFollows
<1>4. page.generation <= page'.generation
  BY <1>1, <1>2 DEF ViewFollows, SamePage
<1>5. PageSound(page')
  BY <1>2 DEF ViewFollows
<1>6. /\ page.generation \in Nat /\ page'.generation \in Nat
      /\ page.session \in Nat /\ page'.session \in Nat
  BY <1>1, <1>5 DEF PageSound, PageType
<1>7. p.stack = page.stack
  BY <1>1 DEF SamePage
<1> QED BY <1>1, <1>2, <1>3, <1>4, <1>6, <1>7 DEF ViewFollows

(* A new note in the page a step leads to.                                   *)
LEMMA MadePage ==
  ASSUME NEW i, NEW t, NEW p, NEW o, Grounded(i, t, p, o), Renewed(t, page, page'),
         page'.saved = N!Nothing
  PROVE  /\ t = tasks[i] /\ t.pc \in {"newSaved", "wikiSaved"} /\ page'.current = t.note /\ t.note # None
         /\ store[t.note] = None /\ Unclaimed(t.note, i) /\ page'.stack = page.stack
<1>1. Applied(i, t, p, o) /\ SamePage(p)
  BY GroundedPage DEF Grounded, Stepped
<1>2. SameEdit(o.p, page') /\ SameRoute(o.p, page') /\ SameLook(o.p, page')
  BY <1>1 DEF Applied
<1>3. Renewed(t, p, o.p) /\ o.p.saved = N!Nothing
  BY <1>1, <1>2 DEF Renewed, SameEdit, SameRoute, SameLook, SamePage
<1>4. /\ t = tasks[i] /\ t.pc \in {"newSaved", "wikiSaved"} /\ o.p.current = t.note /\ t.note # None
      /\ store[t.note] = None /\ Unclaimed(t.note, i) /\ o.p.stack = p.stack
  BY <1>3, MadeFresh
<1> QED BY <1>1, <1>2, <1>4 DEF SameEdit, SameRoute, SamePage

LEMMA StepFirstSave ==
  ASSUME NEW i, NEW t, NEW p, NEW o, Grounded(i, t, p, o)
  PROVE  FirstSave'
<1> SUFFICES ASSUME page'.current # None, store'[page'.current] = None
             PROVE  page'.current \notin Notes /\ page'.saved = N!Nothing
  BY DEF FirstSave
<1>1. Kept(t, page, page') \/ Renewed(t, page, page')
  BY GroundedPage
<1>2. store[page'.current] = None
  BY StoreGrows
<1>3. CASE Kept(t, page, page')
  BY <1>2, <1>3 DEF Kept, Grounded, GroundsInv, FirstSave
<1>4. CASE Renewed(t, page, page')
  <2>1. page'.saved = N!Nothing
    BY <1>2, <1>4 DEF Renewed
  <2> QED BY <1>4, <2>1, MadePage DEF Unclaimed
<1> QED BY <1>1, <1>3, <1>4

(* A note that is known still is after a step.                               *)
Still(n) == n = None \/ n \in Notes \/ store'[n] # None

LEMMA StepKnownNotes ==
  ASSUME NEW i, NEW t, NEW p, NEW o, Grounded(i, t, p, o)
  PROVE  KnownNotes'
<1>1. \A n : Known(n) => Still(n)
  <2> SUFFICES ASSUME NEW n, Known(n) PROVE n = None \/ n \in Notes \/ store'[n] # None
    BY DEF Still
  <2> QED BY StoreGrows DEF Known
<1>2. ASSUME NEW k \in 1 .. Len(page'.stack)
      PROVE  Still(page'.stack[k].note)
  <2>1. \/ page'.stack[k].note = None
        \/ page'.stack[k].note = t.note /\ store[t.note] # None
        \/ \E j \in 1 .. Len(page.stack) : page'.stack[k].note = page.stack[j].note
    BY GroundedPage
  <2>2. CASE \E j \in 1 .. Len(page.stack) : page'.stack[k].note = page.stack[j].note
    <3>1. PICK j \in 1 .. Len(page.stack) : page'.stack[k].note = page.stack[j].note
      BY <2>2
    <3>2. Known(page.stack[j].note)
      BY DEF Grounded, GroundsInv, KnownNotes
    <3>3. PICK n : n = page.stack[j].note
      OBVIOUS
    <3>4. Still(n)
      BY <1>1, <3>2, <3>3
    <3> QED BY <3>1, <3>3, <3>4
  <2>3. CASE page'.stack[k].note = None
    BY <2>3 DEF Still
  <2>4. CASE page'.stack[k].note = t.note /\ store[t.note] # None
    BY <2>4, StoreGrows DEF Still
  <2> QED BY <2>1, <2>2, <2>3, <2>4
<1>3. ASSUME NEW j \in N!Slots, tasks'[j].gen # 0
      PROVE  Still(tasks'[j].note)
  <2>1. tasks'[j] # N!Idle
    BY <1>3 DEF N!Idle
  <2>2. Applied(i, t, p, o)
    BY GroundedPage
  <2>3. CASE j # i
    <3>1. tasks'[j] = tasks[j]
      BY <2>1, <2>2, <2>3 DEF Applied
    <3>2. PICK n : n = tasks[j].note
      OBVIOUS
    <3>3. Known(n)
      BY <1>3, <3>1, <3>2 DEF Grounded, GroundsInv, KnownNotes
    <3>4. Still(n)
      BY <1>1, <3>3
    <3> QED BY <3>1, <3>2, <3>4
  <2>4. CASE j = i
    <3>1. tasks'[j] = o.t /\ Carried(t, o.t)
      BY <2>1, <2>2, <2>4 DEF Applied, Grounded, Stepped, OutcomeSound, TaskFollows
    <3>2. PICK n : n = t.note
      OBVIOUS
    <3>3. t.gen # 0
      BY <1>3, <3>1 DEF Carried
    <3>4. Known(n)
      BY <3>2, <3>3 DEF Grounded, GroundsInv, KnownNotes, Resumed, Started
    <3>5. Still(n)
      BY <1>1, <3>4
    <3> QED BY <3>1, <3>2, <3>5 DEF Carried
  <2> QED BY <2>3, <2>4
<1> QED BY <1>2, <1>3 DEF KnownNotes, Known, Still

(* What the saver is after a step.                                           *)
LEMMA StepSaver ==
  ASSUME NEW i, NEW t, NEW p, NEW o, Grounded(i, t, p, o)
  PROVE  \/ saver' = saver
         \/ saver.busy /\ saver'.note = saver.note /\ saver'.session = saver.session /\ saver'.text = saver.text
         \/ saver'.note = page'.current /\ saver'.session = page'.session /\ saver'.text = page'.text
<1>1. Applied(i, t, p, o) /\ saver \in SaverType
  BY GroundedPage DEF Grounded, NavigationTypes
<1>2. CASE saver' = saver
  BY <1>2
<1>3. CASE saver' = N!Save(o.p)
  <2>1. PageSound(o.p) /\ SameEdit(o.p, page')
    BY <1>1 DEF Applied, Grounded, Stepped, OutcomeSound, ViewFollows
  <2>2. \/ saver.busy /\ saver'.note = saver.note /\ saver'.session = saver.session /\ saver'.text = saver.text
        \/ saver'.note = o.p.current /\ saver'.session = o.p.session /\ saver'.text = o.p.text
    BY <1>1, <1>3, <2>1, SaveCalled
  <2> QED BY <2>1, <2>2 DEF SameEdit
<1> QED BY <1>1, <1>2, <1>3 DEF Applied

LEMMA StepGenerations ==
  ASSUME NEW i, NEW t, NEW p, NEW o, Grounded(i, t, p, o)
  PROVE  Generations'
<1>1. /\ Applied(i, t, p, o) /\ i \in N!Slots
      /\ page.generation <= page'.generation /\ page.generation \in Nat /\ page'.generation \in Nat
      /\ page.session \in Nat /\ page'.session \in Nat
      /\ Kept(t, page, page') \/ Renewed(t, page, page')
  BY GroundedPage
<1>2. /\ page.generation # 0
      /\ \A j \in N!Slots : /\ tasks[j].gen <= page.generation
                            /\ tasks[j].gen # 0 => \A k \in N!Slots : k # j => tasks[k].gen # tasks[j].gen
      /\ saver.busy => saver.session <= page.session
  BY DEF Grounded, GroundsInv, Generations
<1>3. \A j \in N!Slots : tasks[j].gen \in Nat
  BY DEF Grounded, NavigationTypes, TaskSound, TaskType
<1>4. \A j \in N!Slots : j # i => tasks'[j].gen \in {0, tasks[j].gen}
  BY <1>1 DEF Applied, N!Idle
<1>5. tasks'[i].gen \in {0, t.gen}
  <2>1. tasks'[i] = o.t /\ (o.t = N!Idle \/ Carried(t, o.t))
    BY <1>1 DEF Applied, Grounded, Stepped, OutcomeSound, TaskFollows
  <2> QED BY <2>1 DEF Carried, N!Idle
<1>6. page'.generation = o.p.generation
  BY <1>1 DEF Applied
<1>7. t.gen \in {0, tasks[i].gen} \/ (t.gen = page.generation + 1 /\ t.gen = page'.generation)
  BY <1>6 DEF Grounded, Resumed, Started
<1>8. \A j \in N!Slots : tasks'[j].gen <= page'.generation
  BY <1>1, <1>2, <1>3, <1>4, <1>5, <1>7
<1>9. ASSUME NEW j \in N!Slots, tasks'[j].gen # 0, NEW k \in N!Slots, k # j
      PROVE  tasks'[k].gen # tasks'[j].gen
  BY <1>1, <1>2, <1>3, <1>4, <1>5, <1>7, <1>9
<1>10. saver'.busy => saver'.session <= page'.session
  <2>1. page'.session >= page.session
    BY <1>1 DEF Kept, Renewed
  <2>2. saver' = saver \/ (saver.busy /\ saver'.session = saver.session) \/ saver'.session = page'.session
    BY StepSaver
  <2>3. saver.session \in Nat
    BY DEF Grounded, NavigationTypes, SaverType
  <2> QED BY <1>1, <1>2, <2>1, <2>2, <2>3
<1> QED BY <1>1, <1>2, <1>8, <1>9, <1>10 DEF Generations

LEMMA StepSaverSees ==
  ASSUME NEW i, NEW t, NEW p, NEW o, Grounded(i, t, p, o)
  PROVE  SaverSees'
<1> SUFFICES ASSUME saver'.busy
             PROVE  /\ saver'.session = page'.session
                         => saver'.note = page'.current /\ (saver'.text = page'.text \/ page'.dirty)
                    /\ saver'.note = page'.current /\ page'.current # None /\ saver'.session # page'.session
                         => store'[page'.current] # None
  BY DEF SaverSees
<1>1. /\ Kept(t, page, page') \/ Renewed(t, page, page')
      /\ page.session \in Nat /\ page'.session \in Nat
  BY GroundedPage
<1>2. CASE saver'.note = page'.current /\ saver'.session = page'.session /\ saver'.text = page'.text
  BY <1>2
<1>3. CASE saver.busy /\ saver'.note = saver.note /\ saver'.session = saver.session /\ saver'.text = saver.text
  <2>1. /\ saver.session = page.session => saver.note = page.current /\ (saver.text = page.text \/ page.dirty)
        /\ saver.note = page.current /\ page.current # None /\ saver.session # page.session
             => store[page.current] # None
        /\ saver.session <= page.session /\ saver.session \in Nat
    BY <1>3 DEF Grounded, GroundsInv, SaverSees, Generations, NavigationTypes, SaverType
  <2>2. CASE Kept(t, page, page')
    BY <1>3, <2>1, <2>2, StoreGrows DEF Kept
  <2>3. CASE Renewed(t, page, page')
    <3>1. saver'.session # page'.session
      BY <1>1, <1>3, <2>1, <2>3 DEF Renewed
    <3>2. CASE page'.saved = N!Nothing
      BY <1>3, <2>3, <3>1, <3>2, MadePage DEF Unclaimed
    <3>3. CASE page'.saved # N!Nothing
      BY <2>3, <3>1, <3>3, StoreGrows DEF Renewed
    <3> QED BY <3>2, <3>3
  <2> QED BY <1>1, <2>2, <2>3
<1>4. saver' = saver => saver.busy
  OBVIOUS
<1> QED BY <1>2, <1>3, <1>4, StepSaver

LEMMA StepEmptyEditor ==
  ASSUME NEW i, NEW t, NEW p, NEW o, Grounded(i, t, p, o)
  PROVE  EmptyEditor'
<1>1. Kept(t, page, page') \/ Renewed(t, page, page')
  BY GroundedPage
<1>2. EmptyEditor
  BY DEF Grounded, GroundsInv
<1>3. Kept(t, page, page') => EmptyEditor'
  BY <1>2 DEF EmptyEditor, Kept
<1>4. Renewed(t, page, page') => EmptyEditor'
  BY DEF EmptyEditor, Renewed
<1> QED BY <1>1, <1>3, <1>4

LEMMA StepNoAddressYet ==
  ASSUME NEW i, NEW t, NEW p, NEW o, Grounded(i, t, p, o)
  PROVE  NoAddressYet'
<1> SUFFICES ASSUME page'.current # None, page'.saved = N!Nothing, NEW k \in 1 .. Len(page'.stack)
             PROVE  page'.stack[k].note # page'.current
  BY DEF NoAddressYet
<1>1. /\ Kept(t, page, page') \/ Renewed(t, page, page')
      /\ \/ page'.stack[k].note = None
         \/ \E j \in 1 .. Len(page.stack) : page'.stack[k].note = page.stack[j].note
  BY GroundedPage
<1>2. CASE Kept(t, page, page')
  BY <1>1, <1>2 DEF Kept, Grounded, GroundsInv, NoAddressYet
<1>3. CASE Renewed(t, page, page')
  <2>1. page'.current = t.note /\ t.note # None /\ store[t.note] = None /\ t.note \notin Notes
    BY <1>3, MadePage DEF Unclaimed
  <2>2. \A j \in 1 .. Len(page.stack) : page.stack[j].note # t.note
    BY <2>1 DEF Grounded, GroundsInv, KnownNotes, Known
  <2> QED BY <1>1, <2>1, <2>2
<1> QED BY <1>1, <1>2, <1>3

(* A task after a step is the one it was, or the one that ran.               *)
LEMMA StepTask ==
  ASSUME NEW i, NEW t, NEW p, NEW o, Grounded(i, t, p, o), NEW j \in N!Slots, tasks'[j] # N!Idle
  PROVE  \/ j # i /\ tasks'[j] = tasks[j]
         \/ j = i /\ tasks'[j] = o.t /\ Carried(t, o.t) /\ TaskSound(o.t)
<1>1. Applied(i, t, p, o)
  BY GroundedPage
<1>2. TaskSound(o.t) /\ (o.t = N!Idle \/ Carried(t, o.t))
  BY DEF Grounded, Stepped, OutcomeSound, TaskFollows
<1> QED BY <1>1, <1>2 DEF Applied

Making(t) == Stop(t) \in {"newSaved", "wikiSaved"}

(* The note of a task that is about to make one, when it is not there yet.   *)
LEMMA StepMaker ==
  ASSUME NEW i, NEW t, NEW p, NEW o, Grounded(i, t, p, o), NEW j \in N!Slots, Making(tasks'[j]),
         store'[tasks'[j].note] = None
  PROVE  LET n == tasks'[j].note IN
         /\ n # None /\ n \notin Notes /\ n # page.current /\ n # saver.note /\ store[n] = None
         /\ \A k \in N!Slots : k # j => tasks[k].note # n
         /\ \/ j # i /\ tasks[j] = tasks'[j] /\ Making(tasks[j]) /\ t.note # n
            \/ j = i /\ tasks'[j] = o.t /\ Started(i, t, p, o) /\ n = t.note
<1>1. tasks'[j] # N!Idle /\ Grounded(i, t, p, o)
  BY IdleSound DEF Making
<1>2. PICK n : n = tasks'[j].note
  OBVIOUS
<1>3. store[n] = None
  BY <1>2, StoreGrows
<1>4. CASE j # i
  <2>1. tasks'[j] = tasks[j] /\ Making(tasks[j])
    BY <1>1, <1>4, StepTask DEF Making
  <2>2. Unclaimed(n, j)
    BY <1>2, <1>3, <2>1 DEF Grounded, GroundsInv, NewNotesFresh, Making
  <2>3. TaskSound(tasks[j])
    BY DEF Grounded, NavigationTypes
  <2>4. n # None
    BY <1>2, <2>1, <2>3 DEF TaskSound, Shape, Making, Stop, N!Idle
  <2>5. t.note # n
    <3>1. CASE t = tasks[i]
      BY <1>4, <2>2, <3>1 DEF Unclaimed, Grounded
    <3>2. CASE Started(i, t, p, o)
      <4>1. Known(t.note) \/ N!Unused(t.note)
        BY <3>2 DEF Started, Known
      <4>2. Known(t.note) => t.note # n
        BY <1>3, <2>2, <2>4 DEF Known, Unclaimed
      <4>3. N!Unused(t.note) => t.note # n
        BY <1>2, <2>1 DEF N!Unused
      <4> QED BY <4>1, <4>2, <4>3
    <3> QED BY <3>1, <3>2 DEF Grounded, Resumed
  <2> QED BY <1>2, <1>3, <1>4, <2>1, <2>2, <2>4, <2>5 DEF Unclaimed
<1>5. CASE j = i
  <2>1. tasks'[j] = o.t /\ Carried(t, o.t) /\ TaskSound(o.t)
    BY <1>1, <1>5, StepTask
  <2>2. n = t.note /\ t.gen = o.t.gen /\ Making(o.t)
    BY <1>2, <2>1 DEF Carried
  <2>3. Started(i, t, p, o)
    BY <2>2 DEF Grounded, Resumed, Later, Making
  <2>4. o.t.pc # "idle"
    BY <2>2 DEF Making, Stop
  <2>5. Shape(o.t, Stop(o.t))
    BY <2>1, <2>4 DEF TaskSound
  <2>6. t.gen = 0 /\ n # None
    BY <2>1, <2>2, <2>5 DEF Shape, RouterStops, Making, Carried
  <2>7. N!Unused(n)
    <3>1. page.generation \in Nat
      BY GroundedPage
    <3>2. t.gen # page.generation + 1
      BY <2>6, <3>1
    <3>3. t.note = None \/ store[t.note] # None \/ N!Unused(t.note)
      BY <2>3, <3>2 DEF Started
    <3> QED BY <1>3, <2>2, <2>6, <3>3
  <2>8. n \notin Notes
    BY <2>7, NavigationAssumption DEF N!Unused
  <2> QED BY <1>2, <1>3, <1>5, <2>1, <2>2, <2>3, <2>6, <2>7, <2>8 DEF N!Unused
<1> QED BY <1>4, <1>5

LEMMA StepNewNotesFresh ==
  ASSUME NEW i, NEW t, NEW p, NEW o, Grounded(i, t, p, o)
  PROVE  NewNotesFresh'
<1>1. ASSUME NEW j \in N!Slots, Making(tasks'[j]), store'[tasks'[j].note] = None
      PROVE  /\ tasks'[j].note # page'.current /\ tasks'[j].note # saver'.note
             /\ \A k \in N!Slots : k # j => tasks'[k].note # tasks'[j].note
             /\ tasks'[j].note \notin Notes
  <2>1. PICK n : n = tasks'[j].note
    OBVIOUS
  <2>2. /\ n # None /\ n \notin Notes /\ n # page.current /\ n # saver.note /\ store[n] = None
        /\ \A k \in N!Slots : k # j => tasks[k].note # n
        /\ \/ j # i /\ tasks[j] = tasks'[j] /\ Making(tasks[j]) /\ t.note # n
           \/ j = i /\ tasks'[j] = o.t /\ Started(i, t, p, o) /\ n = t.note
    BY <1>1, <2>1, StepMaker
  <2>3. page'.current \in {page.current, None} \/ (page'.current = t.note /\ (t.note # n \/ store[t.note] # None))
    <3>1. Kept(t, page, page') \/ Renewed(t, page, page')
      BY GroundedPage
    <3>2. t.note = n => t.pc = "idle"
      BY <2>2 DEF Started, Grounded, Resumed
    <3> QED BY <3>1, <3>2 DEF Kept, Renewed
  <2>4. n # page'.current
    BY <2>2, <2>3
  <2>5. n # saver'.note
    BY <2>2, <2>4, StepSaver
  <2>6. ASSUME NEW k \in N!Slots, k # j PROVE tasks'[k].note # n
    <3>1. CASE tasks'[k] = N!Idle
      BY <2>2, <3>1 DEF N!Idle
    <3>2. CASE tasks'[k] # N!Idle /\ k # i
      <4>1. tasks'[k] = tasks[k]
        BY <3>2, StepTask
      <4> QED BY <2>2, <2>6, <4>1
    <3>3. CASE tasks'[k] # N!Idle /\ k = i
      <4>1. tasks'[k] = o.t /\ o.t.note = t.note
        BY <3>3, StepTask DEF Carried
      <4> QED BY <2>2, <2>6, <3>3, <4>1
    <3> QED BY <3>1, <3>2, <3>3
  <2> QED BY <2>1, <2>2, <2>4, <2>5, <2>6
<1>2. ASSUME NEW j \in N!Slots, Stop(tasks'[j]) = "newSaved"
      PROVE  store'[tasks'[j].note] = None
  <2>1. tasks'[j] # N!Idle
    BY <1>2, IdleSound
  <2>2. CASE j # i
    <3>1. tasks'[j] = tasks[j]
      BY <2>1, <2>2, StepTask
    <3>2. store[tasks[j].note] = None /\ Unclaimed(tasks[j].note, j)
      BY <1>2, <3>1 DEF Grounded, GroundsInv, NewNotesFresh
    <3>3. tasks[i].note # tasks[j].note
      BY <2>2, <3>2 DEF Unclaimed, Grounded
    <3> QED BY <3>1, <3>2, <3>3, StoreGrows
  <2>3. CASE j = i
    <3>1. tasks'[j] = o.t /\ o.t.note = t.note
      BY <2>1, <2>3, StepTask DEF Carried
    <3>2. Started(i, t, p, o)
      BY <1>2, <3>1 DEF Grounded, Resumed, Later
    <3> QED BY <1>2, <3>1, <3>2 DEF Started
  <2> QED BY <2>2, <2>3
<1> QED BY <1>1, <1>2 DEF NewNotesFresh, Unclaimed, Making, Stop

LEMMA StepStarting ==
  ASSUME NEW i, NEW t, NEW p, NEW o, Grounded(i, t, p, o)
  PROVE  Starting'
<1>1. Applied(i, t, p, o) /\ Starting /\ Generations /\ SamePage(p) /\ i \in N!Slots
  BY GroundedPage DEF Grounded, GroundsInv, Stepped
<1>2. page'.screen = "none" => ~page'.answered
  <2>1. page'.answered = p.answered /\ (page'.screen = "none" => page.screen = "none")
    BY <1>1 DEF Applied, ViewFollows, SamePage, SameLook
  <2>2. p.answered => page.answered \/ page.screen # "none"
    BY DEF Grounded, Resumed, Started
  <2> QED BY <1>1, <2>1, <2>2 DEF Starting
<1>3. ASSUME NEW j \in N!Slots, Stop(tasks'[j]) \in {"startRead", "startList"},
             tasks'[j].gen = page'.generation
      PROVE  /\ page'.screen = "none" /\ page'.current = None
             /\ \A k \in N!Slots : k # j => tasks'[k] = N!Idle
  <2>1. tasks'[j] # N!Idle
    BY <1>3, IdleSound
  <2>2. page.generation <= page'.generation /\ page.generation \in Nat /\ page'.generation \in Nat
        /\ tasks[j].gen \in Nat /\ tasks[j].gen <= page.generation
    BY <1>1, GroundedPage DEF Generations, Grounded, NavigationTypes, TaskSound, TaskType
  <2>3. CASE j # i
    <3>1. tasks'[j] = tasks[j]
      BY <2>1, <2>3, StepTask
    <3>2. tasks[j].gen = page.generation /\ page'.generation = page.generation
      BY <1>3, <2>2, <3>1
    <3>3. page.screen = "none" /\ tasks[i] = N!Idle
      BY <1>1, <1>3, <2>3, <3>1, <3>2 DEF Starting
    <3>4. Started(i, t, p, o)
      BY <3>3 DEF Grounded, Resumed, N!Idle
    <3>5. o.p.generation = page'.generation
      BY <1>1 DEF Applied
    <3> QED BY <2>2, <3>2, <3>3, <3>4, <3>5 DEF Started
  <2>4. CASE j = i
    <3>1. tasks'[j] = o.t /\ Carried(t, o.t)
      BY <2>1, <2>4, StepTask
    <3>2. Resumed(i, t, p, o) /\ Stop(o.t) = "startList" /\ t.pc = "startRead" /\ o.p = page /\ t = tasks[i]
      BY <1>3, <3>1 DEF Grounded, Started, Resumed, Later
    <3>3. tasks[i].gen = page.generation /\ Stop(tasks[i]) = "startRead"
      BY <1>1, <1>3, <3>1, <3>2 DEF Applied, Carried, Stop
    <3>4. page.screen = "none" /\ page.current = None /\ \A k \in N!Slots : k # i => tasks[k] = N!Idle
      BY <1>1, <3>3 DEF Starting
    <3>5. page'.screen = page.screen /\ page'.current = page.current
      BY <1>1, <3>2 DEF Applied, SameEdit, SameLook
    <3> QED BY <1>1, <2>4, <3>4, <3>5 DEF Applied
  <2> QED BY <2>3, <2>4
<1> QED BY <1>2, <1>3 DEF Starting, Stop

(* Every step of a task keeps the grounds.                                   *)
LEMMA StepGrounds ==
  ASSUME NEW i, NEW t, NEW p, NEW o, Grounded(i, t, p, o)
  PROVE  GroundsInv'
BY StepFirstSave, StepKnownNotes, StepGenerations, StepSaverSees, StepEmptyEditor, StepNewNotesFresh,
   StepNoAddressYet, StepStarting DEF GroundsInv

-----------------------------------------------------------------------------
(* One step of a task: the screen.                                           *)

(* A restore's task in the state that a step leads to.                       *)
FitsAfter(u) ==
  /\ u.note = N!Here(page').note /\ (u.prefs <=> N!Here(page').screen = "preferences")
  /\ Stop(u) \notin {"startRead", "startList"}
  /\ Stop(u) \in {"leaveSaved", "restoreSaved"} /\ ~u.prefs /\ ~u.leaving => ~page'.prefsOpen
  /\ Stop(u) = "leaveSaved" => u.note # None /\ (page'.current = u.note \/ BackDue' \/ page'.travel > 0)
  /\ Stop(u) = "prefsDashboard" => page'.screen = "dashboard" /\ u.note = None

LEMMA AfterFits ==
  (\A j \in N!Slots : tasks'[j].gen = page'.generation => FitsAfter(tasks'[j])) => LatestFits'
BY DEF LatestFits, Fits, FitsAfter, Aimed, Uncovered, N!Here, Stop

(* What is asked of the browser and of the saver stays asked.                *)
LEMMA FitsKept ==
  ASSUME NEW u, Fits(u, page), N!Here(page') = N!Here(page),
         page'.prefsOpen => page.prefsOpen, page'.screen \in {page.screen, "dashboard"},
         page'.current = page.current \/ BackDue' \/ page'.travel > 0,
         BackDue => BackDue', page.travel > 0 => page'.travel > 0
  PROVE  FitsAfter(u)
BY DEF Fits, FitsAfter, Aimed, Uncovered

LEMMA BackStillDue ==
  ASSUME NEW i, NEW t, NEW p, NEW o, Grounded(i, t, p, o), tasks[i].pc # "backDone", BackDue
  PROVE  BackDue'
<1>1. PICK j \in N!Slots : tasks[j].pc = "backDone"
  BY DEF BackDue
<1>2. tasks'[j] = tasks[j]
  BY <1>1, GroundedPage DEF Applied
<1> QED BY <1>1, <1>2 DEF BackDue

(* The tasks but the one that ran, by their generation.                      *)
LEMMA OtherTasks ==
  ASSUME NEW i, NEW t, NEW p, NEW o, Grounded(i, t, p, o), NEW j \in N!Slots, j # i
  PROVE  /\ tasks[j].gen # 0 => tasks'[j] = tasks[j]
         /\ tasks'[j].gen # 0 => tasks'[j] = tasks[j] /\ tasks[j].gen <= page.generation
         /\ Stop(tasks[j]) \in {"opened", "openRead"} => tasks'[j] = tasks[j]
         /\ page.generation \in Nat /\ page.generation # 0 /\ tasks[j].gen \in Nat
<1>0. \A k \in N!Slots : k # i => \/ tasks'[k] = tasks[k]
                                  \/ tasks'[k] = N!Idle /\ tasks[k].pc = "backWait"
  BY GroundedPage DEF Applied
<1>1. tasks'[j] = tasks[j] \/ (tasks'[j] = N!Idle /\ tasks[j].pc = "backWait")
  BY <1>0
<1>2. TaskSound(tasks[j])
  BY DEF Grounded, NavigationTypes
<1>3. tasks[j].pc = "backWait" => tasks[j].gen = 0 /\ Stop(tasks[j]) = "backWait"
  BY <1>2 DEF TaskSound, Shape, Stop, RouterStops
<1>4. N!Idle.gen = 0
  BY DEF N!Idle
<1>5. page.generation \in Nat /\ page.generation # 0 /\ tasks[j].gen <= page.generation /\ tasks[j].gen \in Nat
  BY <1>2, GroundedPage DEF Grounded, GroundsInv, Generations, TaskSound, TaskType
<1> QED BY <1>1, <1>3, <1>4, <1>5

(* The screen after a step that left it right.                               *)
LEMMA RightAfter ==
  ASSUME NEW i, NEW t, NEW p, NEW o, Grounded(i, t, p, o), store' = store, Right(o.p)
  PROVE  Right(page)'
<1>1. SameEdit(o.p, page') /\ SameLook(o.p, page') /\ N!Here(page') = N!Here(o.p)
  BY GroundedPage DEF Applied
<1>2. Unaddressed(o.p) => Unaddressed(page)'
  BY <1>1 DEF Unaddressed, N!Editing, SameEdit, SameLook
<1>3. Addressed(o.p) => Addressed(page)'
  BY <1>1 DEF Addressed, N!Editing, N!Here, SameEdit, SameLook
<1> QED BY <1>2, <1>3 DEF Right

LEMMA StepEditor ==
  ASSUME NEW i, NEW t, NEW p, NEW o, Grounded(i, t, p, o), NotesInEditor,
         t.pc = "startList" => t.gen = page.generation
  PROVE  NotesInEditor'
<1>1. Kept(t, page, page') \/ Renewed(t, page, page')
  BY GroundedPage
<1>2. CASE Kept(t, page, page')
  <2>1. CASE page'.screen = page.screen
    BY <1>2, <2>1 DEF NotesInEditor, N!Editing, Kept
  <2>2. CASE t.pc = "startList"
    <3>1. t = tasks[i] /\ i \in N!Slots
      BY <2>2 DEF Grounded, Resumed, Started
    <3>2. page.current = None
      BY <2>2, <3>1 DEF Grounded, GroundsInv, Starting, Stop
    <3> QED BY <1>2, <3>2 DEF Kept, NotesInEditor
  <2> QED BY <1>2, <2>1, <2>2 DEF Kept
<1>3. CASE Renewed(t, page, page')
  BY <1>3 DEF Renewed, NotesInEditor, N!Editing
<1> QED BY <1>1, <1>2, <1>3

(* What a step must leave, once the server has answered.                     *)
ViewDone == LatestFits' /\ RightOrDue'

LEMMA ViewLanded ==
  ASSUME NEW i, NEW t, NEW p, NEW o, Grounded(i, t, p, o), GroundsInv', page'.gaps = {}, Lands(o),
         tasks[i].pc # "backDone", t.gen = o.p.generation, store' = store \/ o.t # N!Idle
  PROVE  ViewDone
<1>1. /\ Applied(i, t, p, o) /\ i \in N!Slots
      /\ SameEdit(o.p, page') /\ SameLook(o.p, page') /\ N!Here(page') = N!Here(o.p) /\ page'.gaps = o.p.gaps
      /\ page'.travel = o.p.travel /\ page'.generation = o.p.generation /\ tasks'[i] = o.t
  BY GroundedPage DEF Applied
<1>2. BackDue => BackDue'
  BY BackStillDue
<1>3. CASE o.t.gen # 0 /\ o.t.gen = o.p.generation /\ Fits(o.t, o.p)
  <2>1. FitsAfter(o.t)
    BY <1>1, <1>2, <1>3 DEF Fits, FitsAfter, Aimed, Uncovered, SameEdit, SameLook
  <2>2. \A j \in N!Slots : tasks'[j].gen = page'.generation => j = i
    BY <1>1, <1>3 DEF GroundsInv, Generations
  <2>3. \A j \in N!Slots : tasks'[j].gen = page'.generation => FitsAfter(tasks'[j])
    BY <1>1, <2>1, <2>2
  <2>4. N!RestoreUnderWay'
    BY <1>1, <1>3 DEF N!RestoreUnderWay
  <2> QED BY <2>3, <2>4, AfterFits DEF ViewDone, RightOrDue
<1>4. CASE o.t = N!Idle /\ (Right(o.p) \/ BackDue \/ o.p.travel > 0)
  <2>1. Right(page)' \/ BackDue' \/ page'.travel > 0
    BY <1>1, <1>2, <1>4, RightAfter
  <2>2. t.gen = tasks[i].gen \/ t.gen = page.generation + 1
    <3>1. page.generation \in Nat /\ o.p.generation # 0
      BY <1>1, GroundedPage DEF GroundsInv, Generations
    <3> QED BY <3>1 DEF Grounded, Resumed, Started
  <2>3. \A j \in N!Slots : tasks'[j].gen # page'.generation
    <3> SUFFICES ASSUME NEW j \in N!Slots, tasks'[j].gen = page'.generation PROVE FALSE
      OBVIOUS
    <3>1. page'.generation # 0
      BY DEF GroundsInv, Generations
    <3>2. j # i
      BY <1>1, <1>4, <3>1 DEF N!Idle
    <3>3. /\ tasks'[j] = tasks[j] /\ tasks[j].gen <= page.generation /\ page.generation \in Nat
          /\ tasks[j].gen \in Nat
      BY <3>1, <3>2, OtherTasks
    <3>4. tasks[j].gen = t.gen /\ t.gen # 0
      BY <1>1, <3>1, <3>3
    <3>5. tasks[i].gen # tasks[j].gen
      BY <1>1, <3>2, <3>4 DEF Grounded, GroundsInv, Generations
    <3> QED BY <2>2, <3>3, <3>4, <3>5
  <2>4. LatestFits'
    BY <2>3, AfterFits
  <2> QED BY <2>1, <2>4 DEF ViewDone, RightOrDue
<1> QED BY <1>1, <1>3, <1>4 DEF Lands

(* A step that leaves the screen as it was.                                  *)
LEMMA ViewSame ==
  ASSUME NEW i, NEW t, NEW p, NEW o, Grounded(i, t, p, o), GroundsInv', LatestFits, RightOrDue,
         store' = store, SameEdit(page, o.p), SameLook(page, o.p), N!Here(o.p) = N!Here(page),
         o.p.travel = page.travel, o.p.generation = page.generation, o.t.gen = 0,
         tasks[i].pc # "backDone", tasks[i].gen # page.generation,
         \/ tasks[i].gen # 0 \/ Stop(tasks[i]) \notin {"opened", "openRead"}
         \/ Stop(o.t) \in {"opened", "openRead"}
  PROVE  ViewDone
<1>1. /\ Applied(i, t, p, o) /\ i \in N!Slots
      /\ SameEdit(o.p, page') /\ SameLook(o.p, page') /\ N!Here(page') = N!Here(page)
      /\ page'.travel = page.travel /\ page'.generation = page.generation /\ tasks'[i] = o.t
  BY GroundedPage DEF Applied
<1>2. SameEdit(page, page') /\ SameLook(page, page')
  BY <1>1 DEF SameEdit, SameLook
<1>3. page.generation # 0 /\ (BackDue => BackDue')
  BY BackStillDue DEF Grounded, GroundsInv, Generations
<1>4. ASSUME NEW j \in N!Slots, tasks'[j].gen = page'.generation
      PROVE  FitsAfter(tasks'[j])
  <2>1. j # i
    BY <1>1, <1>3, <1>4
  <2>2. tasks'[j] = tasks[j]
    BY <1>1, <1>3, <1>4, <2>1, OtherTasks
  <2>3. Fits(tasks[j], page)
    BY <1>1, <1>4, <2>2 DEF LatestFits
  <2>4. FitsAfter(tasks[j])
    BY <1>1, <1>2, <1>3, <2>3, FitsKept DEF SameEdit, SameLook
  <2> QED BY <2>2, <2>4
<1>5. LatestFits'
  BY <1>4, AfterFits
<1>6. CASE Right(page)
  <2>1. Right(o.p)
    BY <1>6 DEF Right, Unaddressed, Addressed, N!Editing, SameEdit, SameLook
  <2>2. Right(page)'
    BY <2>1, RightAfter
  <2> QED BY <1>5, <2>2 DEF ViewDone, RightOrDue
<1>7. CASE N!RestoreUnderWay
  <2>1. PICK j \in N!Slots : tasks[j].gen = page.generation
    BY <1>7 DEF N!RestoreUnderWay
  <2>2. tasks'[j] = tasks[j]
    BY <1>3, <2>1, OtherTasks
  <2>3. N!RestoreUnderWay'
    BY <1>1, <2>1, <2>2 DEF N!RestoreUnderWay
  <2> QED BY <1>5, <2>3 DEF ViewDone, RightOrDue
<1>8. CASE OpeningDue
  <2>1. PICK j \in N!Slots : tasks[j].gen = 0 /\ Stop(tasks[j]) \in {"opened", "openRead"}
    BY <1>8 DEF OpeningDue
  <2>2. CASE j = i
    BY <1>1, <1>5, <2>1, <2>2 DEF ViewDone, RightOrDue, OpeningDue, Stop
  <2>3. CASE j # i
    <3>1. tasks'[j] = tasks[j]
      BY <2>1, <2>3, OtherTasks
    <3> QED BY <1>5, <2>1, <3>1 DEF ViewDone, RightOrDue, OpeningDue, Stop
  <2> QED BY <2>2, <2>3
<1>9. CASE FirstSaveDue
  BY <1>2, <1>5, <1>9 DEF ViewDone, RightOrDue, FirstSaveDue, N!Editing, SameEdit, SameLook
<1>10. CASE page.travel > 0 \/ BackDue
  BY <1>1, <1>3, <1>5, <1>10 DEF ViewDone, RightOrDue
<1> QED BY <1>6, <1>7, <1>8, <1>9, <1>10 DEF RightOrDue

(* A navigation that overtakes the restore there was.                        *)
LEMMA ViewOpens ==
  ASSUME NEW i, NEW t, NEW p, NEW o, Grounded(i, t, p, o), GroundsInv', o.t.gen = 0,
         Stop(o.t) \in {"opened", "openRead"}, o.p.generation > page.generation
  PROVE  ViewDone
<1>1. /\ page'.generation = o.p.generation /\ tasks'[i] = o.t /\ i \in N!Slots /\ page'.generation # 0
  BY GroundedPage DEF Applied, GroundsInv, Generations
<1>2. \A j \in N!Slots : tasks'[j].gen # page'.generation
  <2> SUFFICES ASSUME NEW j \in N!Slots, tasks'[j].gen = page'.generation PROVE FALSE
    OBVIOUS
  <2>1. j # i
    BY <1>1
  <2>2. tasks'[j] = tasks[j] /\ tasks[j].gen <= page.generation /\ page.generation \in Nat
        /\ tasks[j].gen \in Nat
    BY <1>1, <2>1, OtherTasks
  <2> QED BY <1>1, <2>2
<1>3. LatestFits'
  BY <1>2, AfterFits
<1>4. OpeningDue'
  BY <1>1 DEF OpeningDue, Stop
<1> QED BY <1>3, <1>4 DEF ViewDone, RightOrDue

(* No restore is under way: none that fits is asked for.                     *)
LEMMA NoLatest ==
  ASSUME NEW i, NEW t, NEW p, NEW o, Grounded(i, t, p, o), ~N!RestoreUnderWay, o.t.gen = 0,
         o.p.generation = page.generation
  PROVE  LatestFits'
<1>1. /\ page'.generation = page.generation /\ tasks'[i] = o.t /\ i \in N!Slots /\ page.generation # 0
  BY GroundedPage DEF Applied, Grounded, GroundsInv, Generations
<1>2. \A j \in N!Slots : tasks'[j].gen # page'.generation
  <2> SUFFICES ASSUME NEW j \in N!Slots, tasks'[j].gen = page'.generation PROVE FALSE
    OBVIOUS
  <2>1. j # i
    BY <1>1
  <2>2. tasks'[j] = tasks[j]
    BY <1>1, <2>1, OtherTasks
  <2> QED BY <1>1, <2>2 DEF N!RestoreUnderWay
<1> QED BY <1>2, AfterFits

LEMMA ViewRight ==
  ASSUME NEW i, NEW t, NEW p, NEW o, Grounded(i, t, p, o), ~N!RestoreUnderWay, o.t.gen = 0,
         o.p.generation = page.generation, store' = store, Right(o.p)
  PROVE  ViewDone
BY NoLatest, RightAfter DEF ViewDone, RightOrDue

(* The preferences opened over what there is.                                *)
LEMMA ViewCovered ==
  ASSUME NEW i, NEW t, NEW p, NEW o, Grounded(i, t, p, o), ~N!RestoreUnderWay, o.t.gen = 0,
         RightOrDue, store' = store, Over(page, o.p), tasks[i].pc # "backDone",
         tasks[i].gen # 0 \/ Stop(tasks[i]) \notin {"opened", "openRead"}
  PROVE  ViewDone
<1>1. /\ Applied(i, t, p, o) /\ i \in N!Slots /\ SameEdit(o.p, page') /\ SameLook(o.p, page')
      /\ page'.travel = page.travel
  BY GroundedPage DEF Applied, Over, SameRun
<1>2. LatestFits'
  BY NoLatest DEF Over, SameRun
<1>3. CASE Right(page)
  <2>1. Right(o.p)
    BY <1>3 DEF Right, Unaddressed, Addressed, N!Editing, Over, SameEdit
  <2> QED BY <1>2, <2>1, RightAfter DEF ViewDone, RightOrDue
<1>4. CASE OpeningDue
  <2>1. PICK j \in N!Slots : tasks[j].gen = 0 /\ Stop(tasks[j]) \in {"opened", "openRead"}
    BY <1>4 DEF OpeningDue
  <2>2. tasks'[j] = tasks[j]
    BY <2>1, OtherTasks
  <2> QED BY <1>2, <2>1, <2>2 DEF ViewDone, RightOrDue, OpeningDue, Stop
<1>5. CASE FirstSaveDue
  BY <1>1, <1>2, <1>5 DEF ViewDone, RightOrDue, FirstSaveDue, N!Editing, Over, SameEdit, SameLook
<1>6. CASE page.travel > 0 \/ BackDue
  BY <1>1, <1>2, <1>6, BackStillDue DEF ViewDone, RightOrDue
<1> QED BY <1>3, <1>4, <1>5, <1>6 DEF RightOrDue

(* The Back button asks the browser, or will set the address itself.         *)
LEMMA ViewBack ==
  ASSUME NEW i, NEW t, NEW p, NEW o, Grounded(i, t, p, o), LatestFits, o.t.gen = 0,
         o.p.generation = page.generation, N!Here(o.p) = N!Here(page), o.p.prefsOpen = page.prefsOpen,
         tasks[i].pc # "backDone", p = page, tasks[i].gen # page.generation,
         o.p.screen \in {page.screen, "dashboard"}, o.p.travel > 0 \/ o.t.pc = "backDone"
  PROVE  ViewDone
<1>1. /\ page'.generation = page.generation /\ tasks'[i] = o.t /\ i \in N!Slots /\ page.generation # 0
      /\ N!Here(page') = N!Here(page) /\ page'.prefsOpen = page.prefsOpen
      /\ page'.screen \in {page.screen, "dashboard"} /\ page'.travel = o.p.travel
  BY GroundedPage DEF Applied, SameLook, Grounded, GroundsInv, Generations
<1>2. BackDue' \/ page'.travel > 0
  BY <1>1 DEF BackDue
<1>3. page.travel > 0 => page'.travel > 0
  <2>1. page.travel \in Nat /\ page'.travel \in Nat /\ page.travel <= page'.travel
    BY GroundedPage DEF Applied, ViewFollows, Grounded, NavigationTypes, PageSound, PageType
  <2> QED BY <2>1
<1>4. BackDue => BackDue'
  BY BackStillDue
<1>5. ASSUME NEW j \in N!Slots, tasks'[j].gen = page'.generation
      PROVE  FitsAfter(tasks'[j])
  <2>1. j # i
    BY <1>1, <1>5
  <2>2. tasks'[j] = tasks[j]
    BY <1>1, <1>5, <2>1, OtherTasks
  <2>3. Fits(tasks[j], page)
    BY <1>1, <1>5, <2>2 DEF LatestFits
  <2>4. FitsAfter(tasks[j])
    BY <1>1, <1>2, <1>3, <1>4, <2>3, FitsKept
  <2> QED BY <2>2, <2>4
<1> QED BY <1>2, <1>5, AfterFits DEF ViewDone, RightOrDue

-----------------------------------------------------------------------------
(* A task goes on.                                                           *)
NavigationInv == NavigationTypes /\ GroundsInv /\ ScreenInv

LEMMA StepScreen ==
  ASSUME ScreenInv, NEW i, NEW t, NEW p, NEW o, Grounded(i, t, p, o),
         t.pc = "startList" => o.p.gaps # {} \/ t.gen = page.generation,
         GroundsInv' /\ page.gaps = {} /\ page'.gaps = {} /\ page'.answered => ViewDone
  PROVE  GroundsInv' /\ ScreenInv'
<1>1. GroundsInv'
  BY StepGrounds
<1>2. page.gaps \subseteq page'.gaps /\ page'.gaps = o.p.gaps
  BY GroundedPage DEF Applied, ViewFollows, Grounded, Stepped, SamePage
<1>3. page'.gaps = {} => page.gaps = {} /\ o.p.gaps = {}
  BY <1>2
<1>4. page'.gaps = {} => NotesInEditor'
  BY <1>3, StepEditor DEF ScreenInv
<1> QED BY <1>1, <1>3, <1>4 DEF ScreenInv, ViewDone

(* Where the ways of ending a step leave the task.                           *)
LEMMA EndStops == \A q : Stop(N!End(q).t) = "idle" /\ N!End(q).t = N!Idle /\ N!End(q).p = q
BY IdleSound DEF N!End, N!Out

LEMMA AtStops ==
  ASSUME NEW t \in TaskType, NEW s, s # "saving"
  PROVE  \A q : Stop(N!At(t, s, q).t) = s /\ N!At(t, s, q).t.gen = t.gen /\ N!At(t, s, q).p = q
                /\ N!At(t, s, q).t.pc = s
<1> SUFFICES ASSUME NEW q
             PROVE  Stop(N!At(t, s, q).t) = s /\ N!At(t, s, q).t.gen = t.gen /\ N!At(t, s, q).p = q
                    /\ N!At(t, s, q).t.pc = s
  OBVIOUS
<1>1. PICK u : u = [t EXCEPT !.pc = s]
  OBVIOUS
<1>2. u.pc = s /\ u.gen = t.gen
  BY <1>1 DEF TaskType
<1> QED BY <1>1, <1>2 DEF Stop, N!At, N!Out

LEMMA SavingStops ==
  ASSUME NEW t \in TaskType, NEW s
  PROVE  \A q : /\ Stop(N!Saving(t, s, q).t) = s /\ N!Saving(t, s, q).t.gen = t.gen
                /\ N!Saving(t, s, q).p = q /\ N!Saving(t, s, q).t.pc = "saving"
<1> SUFFICES ASSUME NEW q
             PROVE  /\ Stop(N!Saving(t, s, q).t) = s /\ N!Saving(t, s, q).t.gen = t.gen
                    /\ N!Saving(t, s, q).p = q /\ N!Saving(t, s, q).t.pc = "saving"
  OBVIOUS
<1>1. PICK u : u = [t EXCEPT !.pc = "saving", !.after = s]
  OBVIOUS
<1>2. u.pc = "saving" /\ u.after = s /\ u.gen = t.gen
  BY <1>1 DEF TaskType
<1> QED BY <1>1, <1>2 DEF Stop, N!Saving, N!Out

Ahead(o) == Stop(o.t) \in Later \ {"startList"}

LEMMA EndsAhead == \A q : Ahead(N!End(q))
BY EndStops DEF Ahead, Later

LEMMA AtAhead ==
  ASSUME NEW t \in TaskType, NEW s \in Later \ {"startList"}
  PROVE  \A q : Ahead(N!At(t, s, q))
BY AtStops DEF Ahead, Later

LEMMA OpenNoteAhead ==
  ASSUME NEW t \in TaskType, NEW p
  PROVE  Ahead(N!OpenNote(t, p)) /\ N!OpenNote(t, p).t # N!Idle /\ N!OpenNote(t, p).t.gen = t.gen
         /\ Stop(N!OpenNote(t, p).t) \in {"opened", "openRead"}
<1>1. PICK q : N!OpenNote(t, p) \in {N!Saving(t, "opened", q), N!At(t, "openRead", q)}
  BY DEF N!OpenNote
<1>2. Stop(N!OpenNote(t, p).t) \in {"opened", "openRead"} /\ N!OpenNote(t, p).t.gen = t.gen
  BY <1>1, AtStops, SavingStops
<1> QED BY <1>2, IdleSound DEF Ahead, Later

LEMMA MissingAhead ==
  ASSUME NEW t \in TaskType, NEW p
  PROVE  Ahead(N!Missing(t, p))
BY Zenon, EndsAhead, AtAhead DEF N!Missing, Later

LEMMA RestoreNoteAhead ==
  ASSUME NEW t \in TaskType, NEW p
  PROVE  Ahead(N!RestoreNote(t, p))
BY MissingAhead, AtAhead DEF N!RestoreNote, Later

LEMMA ReadLocalAhead ==
  ASSUME NEW t \in TaskType, NEW p
  PROVE  Ahead(N!ReadLocal(t, p))
<1>1. PICK u : u = [t EXCEPT !.route = "none"]
  OBVIOUS
<1>2. u \in TaskType
  BY <1>1 DEF TaskType
<1>3. Ahead(N!OpenNote(u, p)) /\ Ahead(N!At(t, "fetch", p)) /\ Ahead(N!End(p)) /\ Ahead(N!Missing(t, p))
  BY <1>2, OpenNoteAhead, AtAhead, EndsAhead, MissingAhead DEF Later
<1> QED BY <1>1, <1>3 DEF N!ReadLocal

LEMMA RestoreScreenAhead ==
  ASSUME NEW t \in TaskType, NEW p
  PROVE  Ahead(N!RestoreScreen(t, p))
BY EndsAhead, RestoreNoteAhead DEF N!RestoreScreen

LEMMA RestoreSavedAhead ==
  ASSUME NEW t \in TaskType, NEW p
  PROVE  Ahead(N!RestoreSaved(t, p))
<1>1. Ahead(N!RestorePreferences(t, p))
  BY EndsAhead, RestoreNoteAhead DEF N!RestorePreferences
<1>2. Ahead(N!BackToPreferences(p))
  BY EndsAhead DEF N!BackToPreferences
<1> QED BY <1>1, <1>2, EndsAhead, RestoreScreenAhead DEF N!RestoreSaved

LEMMA OpenReadAhead ==
  ASSUME NEW t, NEW p
  PROVE  Ahead(N!OpenRead(t, p)) /\ N!OpenRead(t, p).t = N!Idle
<1>1. \E q : N!OpenRead(t, p) = N!End(q)
  BY Zenon DEF N!OpenRead
<1> QED BY <1>1, EndsAhead, EndStops

(* What a task that was begun before does to the grounds.                    *)
LEMMA ResumedGrounds ==
  ASSUME NavigationTypes, GroundsInv, NEW i \in N!Slots, NEW t, t = tasks[i], t.pc \notin {"idle", "saving"},
         NEW o, OutcomeSound(t, page, o), N!Apply(i, o),
         Ahead(o) \/ (Stop(o.t) = "startList" /\ t.pc = "startRead" /\ o.p = page),
         t.pc = "wikiSaved" /\ store[t.note] # None => SameEdit(page, o.p),
         store' = store \/ (t.gen # 0 /\ t.note \in N!AllNotes /\ store' = [store EXCEPT ![t.note] = 0])
  PROVE  Grounded(i, t, page, o)
<1>1. Stepped(i, t, page, o) /\ PageSound(o.p)
  BY SameAsItself DEF Stepped, TaskSound, OutcomeSound, ViewFollows
<1>2. Renewed(t, page, o.p) /\ o.p.saved = N!Nothing => store[t.note] = None
  <2> SUFFICES ASSUME Renewed(t, page, o.p), o.p.saved = N!Nothing PROVE store[t.note] = None
    OBVIOUS
  <2>1. o.p.text \in Nat /\ page.session \in Nat
    BY <1>1 DEF PageSound, PageType, NavigationTypes
  <2>2. t.pc \in {"newSaved", "wikiSaved"}
    BY <2>1 DEF Renewed, N!Nothing
  <2>3. CASE t.pc = "newSaved"
    BY <2>3 DEF GroundsInv, NewNotesFresh, Stop
  <2>4. CASE t.pc = "wikiSaved"
    BY <2>1, <2>4 DEF Renewed, SameEdit
  <2> QED BY <2>2, <2>3, <2>4
<1>3. Resumed(i, t, page, o)
  BY <1>2 DEF Resumed, Ahead, Later
<1> QED BY <1>1, <1>3 DEF Grounded

(* What a task does next.                                                    *)
Outcome(t) ==
  CASE t.pc = "opened" -> N!OpenSaved(t, page)
    [] t.pc = "openRead" -> N!OpenRead(t, page)
    [] t.pc = "readLocal" -> N!ReadLocal(t, page)
    [] t.pc = "prefsDashboard" -> N!PrefsDashboard(t, page)
    [] t.pc \in {"leaveSaved", "restoreSaved"} -> N!RestoreSaved(t, page)
    [] t.pc = "startRead" -> N!StartRead(t, page)
    [] t.pc = "startList" -> N!StartList(t, page)
    [] t.pc = "backSaved" -> N!BackSaved(t, page)
    [] t.pc = "backDone" -> N!BackDone(t, page)
    [] t.pc = "prefsSaved" -> N!PrefsSaved(t, page)
    [] t.pc = "newSaved" -> N!NewSaved(t, page)
    [] t.pc = "wikiSaved" -> N!WikiSaved(t, page)

LEMMA OutcomeIs ==
  ASSUME NEW t
  PROVE  /\ t.pc = "opened" => Outcome(t) = N!OpenSaved(t, page)
         /\ t.pc = "openRead" => Outcome(t) = N!OpenRead(t, page)
         /\ t.pc = "readLocal" => Outcome(t) = N!ReadLocal(t, page)
         /\ t.pc = "prefsDashboard" => Outcome(t) = N!PrefsDashboard(t, page)
         /\ t.pc \in {"leaveSaved", "restoreSaved"} => Outcome(t) = N!RestoreSaved(t, page)
         /\ t.pc = "startRead" => Outcome(t) = N!StartRead(t, page)
         /\ t.pc = "startList" => Outcome(t) = N!StartList(t, page)
         /\ t.pc = "backSaved" => Outcome(t) = N!BackSaved(t, page)
         /\ t.pc = "backDone" => Outcome(t) = N!BackDone(t, page)
         /\ t.pc = "prefsSaved" => Outcome(t) = N!PrefsSaved(t, page)
         /\ t.pc = "newSaved" => Outcome(t) = N!NewSaved(t, page)
         /\ t.pc = "wikiSaved" => Outcome(t) = N!WikiSaved(t, page)
BY DEF Outcome

LEMMA ProceedApplies ==
  ASSUME NEW i \in N!Slots, N!Proceed(i)
  PROVE  N!Apply(i, Outcome(tasks[i])) /\ tasks[i].pc \in N!Runnable /\ store' = store /\ used' = used
BY DEF N!Proceed, Outcome

LEMMA OutcomeSounds ==
  ASSUME NavigationTypes, NEW i \in N!Slots, NEW t, t = tasks[i], t.pc \in N!Runnable
  PROVE  OutcomeSound(t, page, Outcome(t))
<1>1. TaskSound(t) /\ t \in TaskType /\ Ready(page)
      /\ (Stop(t) \in {"opened", "openRead"} => store[t.note] # None)
  BY SameAsItself DEF TaskSound, NavigationTypes, OpensKnown
<1>2. CASE t.pc \in {"opened", "openRead"}
  BY <1>1, <1>2, OutcomeIs, OpenSavedSound, OpenReadSound DEF Stop
<1>3. CASE t.pc = "readLocal"
  <2>1. RouterTask(t) /\ t.note # None
    BY <1>1, <1>3, RouterTasks DEF TaskSound, Shape, Stop
  <2> QED BY <1>1, <1>3, <2>1, ReadLocalSound, OutcomeIs
<1>4. CASE t.pc = "prefsDashboard"
  BY <1>1, <1>4, PrefsDashboardSound, OutcomeIs
<1>5. CASE t.pc \in {"leaveSaved", "restoreSaved"}
  BY <1>1, <1>5, RestoreSavedSound, OutcomeIs
<1>6. CASE t.pc \in {"startRead", "startList"}
  BY <1>1, <1>6, StartReadSound, StartListSound, OutcomeIs
<1>7. CASE t.pc \in {"backSaved", "backDone"}
  BY <1>1, <1>7, BackSavedSound, BackDoneSound, OutcomeIs
<1>8. CASE t.pc \in {"prefsSaved", "newSaved", "wikiSaved"}
  BY <1>1, <1>8, PrefsSavedSound, NewSavedSound, WikiSavedSound, OutcomeIs
<1> QED BY <1>2, <1>3, <1>4, <1>5, <1>6, <1>7, <1>8 DEF N!Runnable

LEMMA OutcomeAhead ==
  ASSUME NavigationTypes, NEW i \in N!Slots, NEW t, t = tasks[i], t.pc \in N!Runnable
  PROVE  LET o == Outcome(t) IN
         Ahead(o) \/ (Stop(o.t) = "startList" /\ t.pc = "startRead" /\ o.p = page)
<1>1. t \in TaskType
  BY DEF NavigationTypes, TaskSound
<1>2. CASE t.pc \in {"opened", "openRead"}
  <2>1. Ahead(N!OpenSaved(t, page))
    BY Zenon, <1>1, EndsAhead, AtAhead DEF N!OpenSaved, Later
  <2> QED BY <1>2, <2>1, OutcomeIs, OpenReadAhead
<1>3. CASE t.pc = "readLocal"
  BY <1>1, <1>3, ReadLocalAhead, OutcomeIs
<1>4. CASE t.pc = "prefsDashboard"
  BY <1>4, OutcomeIs, EndsAhead DEF N!PrefsDashboard
<1>5. CASE t.pc \in {"leaveSaved", "restoreSaved"}
  BY <1>1, <1>5, RestoreSavedAhead, OutcomeIs
<1>6. CASE t.pc = "startRead"
  <2>1. Ahead(N!OpenNote(t, page)) /\ Ahead(N!End(page))
    BY <1>1, OpenNoteAhead, EndsAhead
  <2>2. Stop(N!At(t, "startList", page).t) = "startList" /\ N!At(t, "startList", page).p = page
    BY <1>1, AtStops
  <2> QED BY <1>6, <2>1, <2>2, OutcomeIs DEF N!StartRead
<1>7. CASE t.pc = "startList"
  BY Zenon, <1>7, OutcomeIs, EndsAhead DEF N!StartList
<1>8. CASE t.pc = "backSaved"
  <2>1. \A q : Ahead(N!At(t, "backWait", q)) /\ Ahead(N!At(t, "backDone", q))
    BY <1>1, AtAhead DEF Later
  <2> QED BY <1>8, <2>1, OutcomeIs DEF N!BackSaved
<1>9. CASE t.pc = "backDone"
  BY Zenon, <1>9, OutcomeIs, EndsAhead DEF N!BackDone
<1>10. CASE t.pc \in {"prefsSaved", "newSaved"}
  BY <1>10, OutcomeIs, EndsAhead DEF N!PrefsSaved, N!NewSaved
<1>11. CASE t.pc = "wikiSaved"
  <2>1. PICK u : u = [t EXCEPT !.route = "replace"]
    OBVIOUS
  <2>2. Ahead(N!OpenNote(u, page))
    BY <1>1, <2>1, OpenNoteAhead DEF TaskType
  <2>3. \A q : Ahead(N!Saving(t, "idle", q))
    BY <1>1, SavingStops DEF Ahead, Later
  <2> QED BY <1>11, <2>1, <2>2, <2>3, OutcomeIs DEF N!WikiSaved
<1> QED BY <1>2, <1>3, <1>4, <1>5, <1>6, <1>7, <1>8, <1>9, <1>10, <1>11 DEF N!Runnable

(* A link's note that is on the device is opened: the editor stays as it is. *)
LEMMA WikiOpens ==
  ASSUME NavigationTypes, NEW i \in N!Slots, NEW t, t = tasks[i], t.pc = "wikiSaved", store[t.note] # None,
         NEW o, o = N!WikiSaved(t, page)
  PROVE  /\ SameEdit(page, o.p) /\ o.p.generation = page.generation + 1 /\ o.t.gen = 0
         /\ Stop(o.t) \in {"opened", "openRead"}
<1>1. TaskSound(t) /\ t \in TaskType /\ Ready(page) /\ t.note # None /\ t.gen = 0 /\ ~t.prefs
  BY SameAsItself DEF TaskSound, Shape, Stop, RouterStops
<1>2. PICK u : u = [t EXCEPT !.route = "replace"]
  OBVIOUS
<1>3. u \in TaskType /\ u.note = t.note /\ u.gen = 0 /\ ~u.prefs /\ u.route = "replace" /\ u.pc = t.pc
  BY <1>1, <1>2 DEF TaskType
<1>4. o = N!OpenNote(u, page)
  BY <1>2 DEF N!WikiSaved
<1>5. SameEdit(page, o.p) /\ o.p.generation = page.generation + 1
  BY <1>1, <1>3, <1>4, OpenNoteSound
<1> QED BY <1>3, <1>4, <1>5, OpenNoteAhead

LEMMA ProceedGrounds ==
  ASSUME NavigationTypes, GroundsInv, NEW i \in N!Slots, N!Proceed(i), NEW t, t = tasks[i], NEW o, o = Outcome(t)
  PROVE  Grounded(i, t, page, o)
<1>1. N!Apply(i, o) /\ t.pc \in N!Runnable /\ store' = store
  BY ProceedApplies
<1>2. /\ OutcomeSound(t, page, o)
      /\ Ahead(o) \/ (Stop(o.t) = "startList" /\ t.pc = "startRead" /\ o.p = page)
  BY <1>1, OutcomeSounds, OutcomeAhead
<1>3. t.pc = "wikiSaved" /\ store[t.note] # None => SameEdit(page, o.p)
  BY WikiOpens, OutcomeIs
<1>4. t.pc \notin {"idle", "saving"}
  BY <1>1 DEF N!Runnable
<1> QED BY <1>1, <1>2, <1>3, <1>4, ResumedGrounds

(* The end of a restore's step is about the generation it was.               *)
LEMMA MissingRuns ==
  ASSUME NEW t \in TaskType, NEW p, Ready(p)
  PROVE  N!Missing(t, p).p.generation = p.generation
<1>0. \A q, s : /\ N!End(q).p = q /\ N!At(t, s, q).p = q
  BY DEF N!End, N!At, N!Out
<1>1. CASE ~N!Current(t, p)
  BY <1>0, <1>1 DEF N!Missing
<1>2. CASE N!Current(t, p)
  <2>1. PICK r : r = MissingPage(t, p)
    OBVIOUS
  <2>2. PageSound(r) /\ SameRun(p, r)
    BY <1>2, <2>1, MissingPageFollows DEF ViewFollows
  <2>3. PICK z : z = IF r.prefsOpen THEN N!Gap(r, "under preferences") ELSE r
    BY Zenon
  <2>4. "under preferences" \in Passes
    BY DEF Passes
  <2>5. z.generation = p.generation
    BY Zenon, <2>2, <2>3, <2>4, GapNoted DEF SameRun
  <2>6. N!Missing(t, p) = IF t.prefs /\ t.note = None THEN N!At(t, "prefsDashboard", z) ELSE N!End(z)
    BY Zenon, <1>2, <2>1, <2>3 DEF N!Missing, MissingPage
  <2> QED BY <1>0, <2>5, <2>6
<1> QED BY <1>1, <1>2

LEMMA RestoreNoteRuns ==
  ASSUME NEW t \in TaskType, NEW p, Ready(p)
  PROVE  N!RestoreNote(t, p).p.generation = p.generation
BY MissingRuns DEF N!RestoreNote, N!At, N!Out

LEMMA PreferencesRun ==
  ASSUME NEW p, PageSound(p), NEW open \in BOOLEAN, NEW q, q = [p EXCEPT !.prefsOpen = open]
  PROVE  q.generation = p.generation /\ (Ready(p) => Ready(q))
<1>1. PageSound(q) /\ SameEdit(p, q) /\ SameRun(p, q)
  BY PreferencesShown
<1> QED BY <1>1 DEF SameRun, SameEdit, Ready

LEMMA RestoreScreenRuns ==
  ASSUME NEW t \in TaskType, NEW p, Ready(p)
  PROVE  N!RestoreScreen(t, p).p.generation = p.generation
<1>0. \A q : N!End(q).p = q
  BY DEF N!End, N!Out
<1>1. PICK b \in BOOLEAN : b = FALSE
  OBVIOUS
<1>2. PICK q : q = [p EXCEPT !.prefsOpen = b]
  OBVIOUS
<1>3. q.generation = p.generation /\ Ready(q)
  BY <1>2, PreferencesRun DEF Ready
<1>4. N!RestoreNote(t, p).p.generation = p.generation /\ N!RestoreNote(t, q).p.generation = p.generation
  BY <1>3, RestoreNoteRuns
<1>5. \/ N!RestoreScreen(t, p) \in {N!End(p), N!End(q)}
      \/ N!RestoreScreen(t, p) \in {N!RestoreNote(t, p), N!RestoreNote(t, q)}
  BY <1>1, <1>2 DEF N!RestoreScreen
<1> QED BY <1>0, <1>3, <1>4, <1>5

LEMMA RestoreSavedRuns ==
  ASSUME NEW t \in TaskType, NEW p, Ready(p)
  PROVE  N!RestoreSaved(t, p).p.generation = p.generation
<1>0. \A q : N!End(q).p = q
  BY DEF N!End, N!Out
<1>1. PICK b \in BOOLEAN : b = TRUE
  OBVIOUS
<1>2. PICK q : q = [p EXCEPT !.prefsOpen = b]
  OBVIOUS
<1>3. q.generation = p.generation
  BY <1>2, PreferencesRun DEF Ready
<1>4. N!RestorePreferences(t, p).p.generation = p.generation
  <2>1. N!RestorePreferences(t, p) \in {N!End(q), N!RestoreNote(t, p)}
    BY <1>1, <1>2 DEF N!RestorePreferences
  <2> QED BY <1>0, <1>3, <2>1, RestoreNoteRuns
<1>5. N!BackToPreferences(p).p.generation = p.generation
  <2>1. PICK z : z = [N!SetPreferences(p, b) EXCEPT !.prefsOpen = TRUE]
    OBVIOUS
  <2>2. Over(p, z)
    BY <2>1, PreferencesOver DEF Ready
  <2>3. N!BackToPreferences(p) = N!End(z)
    BY <1>1, <2>1 DEF N!BackToPreferences
  <2> QED BY <1>0, <2>2, <2>3 DEF Over, SameRun
<1> QED BY <1>0, <1>4, <1>5, RestoreScreenRuns DEF N!RestoreSaved

LEMMA OpenReadRuns ==
  ASSUME NEW t, Latest(t, page), Ready(page), t.route = "none", t.note # None
  PROVE  N!OpenRead(t, page).p.gaps = {} => N!OpenRead(t, page).p.generation = page.generation
<1>0. \A q : N!End(q).p = q
  BY DEF N!End, N!Out
<1>1. CASE store[t.note] = None
  BY <1>0, <1>1 DEF N!OpenRead
<1>2. CASE store[t.note] # None
  <2>1. N!Current(t, page) /\ t.gen # 0 /\ t \in TaskType
    BY DEF N!Current, Latest
  <2>2. PICK q : q = N!Shown(page, t.note, store[t.note])
    OBVIOUS
  <2>3. PICK r : r = q
    OBVIOUS
  <2>4. ViewFollows(t, page, r) /\ SameRun(page, r)
    BY <1>2, <2>1, <2>2, <2>3, ShownFollows
  <2>5. PageSound(q) /\ q.generation = page.generation
    BY <2>3, <2>4 DEF ViewFollows, SameRun
  <2>6. PICK b \in BOOLEAN : b = TRUE
    OBVIOUS
  <2>7. PICK z : z = [q EXCEPT !.prefsOpen = b]
    OBVIOUS
  <2>8. z.generation = page.generation
    BY <2>5, <2>7, PreferencesRun
  <2>9. N!Gap(q, "under preferences").gaps # {}
    <3>1. "under preferences" \in Passes
      BY DEF Passes
    <3> QED BY Zenon, <2>5, <3>1, GapNoted
  <2>10. N!OpenRead(t, page) \in {N!End(z), N!End(N!Gap(q, "under preferences")), N!End(q)}
    BY Zenon, <1>2, <2>1, <2>2, <2>6, <2>7 DEF N!OpenRead
  <2> QED BY Zenon, <1>0, <2>5, <2>8, <2>9, <2>10
<1> QED BY <1>1, <1>2

(* A task goes on, once the server has answered and nothing was let through. *)
Going(i, t, o) ==
  /\ Grounded(i, t, page, o) /\ ScreenInv /\ t = tasks[i] /\ t.pc \in N!Runnable /\ o = Outcome(t)
  /\ store' = store /\ GroundsInv' /\ page.gaps = {} /\ page'.gaps = {} /\ page'.answered

LEMMA GoingFacts ==
  ASSUME NEW i, NEW t, NEW o, Going(i, t, o)
  PROVE  /\ i \in N!Slots /\ Grounded(i, t, page, o) /\ TaskSound(t) /\ t \in TaskType /\ Ready(page)
         /\ PageSound(page) /\ t.pc \notin {"idle", "saving"} /\ Stop(t) = t.pc /\ Shape(t, t.pc)
         /\ NotesInEditor /\ LatestFits /\ RightOrDue /\ page.screen # "none" /\ page.generation # 0
         /\ o.p.gaps = {}
         /\ (t.pc \in {"opened", "openRead"} => store[t.note] # None)
<1>1. /\ Grounded(i, t, page, o) /\ ScreenInv /\ t = tasks[i] /\ t.pc \in N!Runnable
      /\ page.gaps = {} /\ page'.gaps = {} /\ page'.answered
  BY DEF Going
<1>2. NavigationTypes /\ GroundsInv /\ i \in N!Slots
  BY <1>1 DEF Grounded
<1>3. page'.answered = o.p.answered /\ page'.gaps = o.p.gaps /\ o.p.answered = page.answered
  <2>1. Applied(i, t, page, o)
    BY <1>1, GroundedPage
  <2>2. ViewFollows(t, page, o.p)
    BY <1>1 DEF Grounded, Stepped, OutcomeSound
  <2> QED BY <2>1, <2>2 DEF Applied, ViewFollows
<1>4. TaskSound(t) /\ t \in TaskType /\ Ready(page) /\ PageSound(page)
  BY <1>1, <1>2, SameAsItself DEF TaskSound, NavigationTypes
<1>5. t.pc \notin {"idle", "saving"} /\ Stop(t) = t.pc
  BY <1>1 DEF N!Runnable, Stop
<1>6. page.screen # "none" /\ page.generation # 0
  BY <1>1, <1>2, <1>3 DEF GroundsInv, Starting, Generations
<1>7. t.pc \in {"opened", "openRead"} => store[t.note] # None
  BY <1>1, <1>2, <1>5 DEF NavigationTypes, OpensKnown
<1> QED BY <1>1, <1>2, <1>3, <1>4, <1>5, <1>6, <1>7 DEF ScreenInv, TaskSound

(* The latest restore goes on.                                               *)
LEMMA GoingLatest ==
  ASSUME NEW i, NEW t, NEW o, Going(i, t, o), t.gen # 0, t.gen = page.generation
  PROVE  ViewDone
<1>1. /\ i \in N!Slots /\ Grounded(i, t, page, o) /\ TaskSound(t) /\ t \in TaskType /\ Ready(page)
      /\ PageSound(page) /\ Stop(t) = t.pc /\ Shape(t, t.pc) /\ NotesInEditor /\ LatestFits
      /\ o.p.gaps = {}
      /\ (t.pc \in {"opened", "openRead"} => store[t.note] # None)
  BY GoingFacts
<1>2. t = tasks[i] /\ t.pc \in N!Runnable /\ o = Outcome(t) /\ store' = store /\ GroundsInv' /\ page'.gaps = {}
  BY DEF Going
<1>3. Fits(t, page)
  BY <1>1, <1>2 DEF LatestFits
<1>4. Latest(t, page) /\ t.route = "none" /\ t.pc \in RouterStops /\ t.pc \notin {"startRead", "startList"}
  BY <1>1, <1>3 DEF Latest, Fits, Shape
<1>5. Lands(o) /\ o.p.generation = page.generation
  <2>1. CASE t.pc = "opened"
    <3>1. Lands(N!OpenSaved(t, page))
      BY <1>1, <1>4, OpenSavedLands
    <3>2. N!OpenSaved(t, page).p = page \/ N!OpenSaved(t, page).p = N!Gap(page, "save failed")
      BY DEF N!OpenSaved, N!End, N!At, N!Out
    <3>3. "save failed" \in Passes
      BY DEF Passes
    <3>4. N!OpenSaved(t, page).p = page
      BY ZenonT(60), <1>1, <1>2, <2>1, <3>2, <3>3, GapNoted, OutcomeIs
    <3> QED BY <1>2, <2>1, <3>1, <3>4, OutcomeIs
  <2>2. CASE t.pc = "openRead"
    <3>1. t.note # None /\ store[t.note] # None
      BY <1>1, <2>2 DEF Shape
    <3>2. Lands(N!OpenRead(t, page))
      BY <1>1, <1>4, <3>1, OpenReadLands
    <3>3. o = N!OpenRead(t, page)
      BY <1>2, <2>2, OutcomeIs
    <3> QED BY <1>1, <1>4, <3>1, <3>2, <3>3, OpenReadRuns
  <2>3. CASE t.pc = "readLocal"
    <3>1. t.note # None
      BY <1>1, <2>3 DEF Shape
    <3>2. Lands(N!ReadLocal(t, page))
      BY <1>1, <1>4, <3>1, ReadLocalLands
    <3>3. N!ReadLocal(t, page).p.generation = page.generation
      <4>1. N!Current(t, page) /\ [t EXCEPT !.route = "none"] = t
        BY <1>1, <1>4 DEF N!Current, Latest, TaskType
      <4>2. store[t.note] # None => N!OpenNote(t, page).p.generation = page.generation
        <5>1. page.generation \in Nat
          BY <1>1 DEF PageSound, PageType
        <5> QED BY <1>1, <1>4, <3>1, <5>1, OpenNoteSound
      <4>3. N!Missing(t, page).p.generation = page.generation
        BY <1>1, MissingRuns
      <4>4. N!At(t, "fetch", page).p = page
        BY DEF N!At, N!Out
      <4> QED BY <4>1, <4>2, <4>3, <4>4 DEF N!ReadLocal
    <3> QED BY <1>2, <2>3, <3>2, <3>3, OutcomeIs
  <2>4. CASE t.pc = "prefsDashboard"
    <3>1. t.prefs /\ t.note = None /\ page.screen = "dashboard"
      BY <1>1, <1>3, <2>4 DEF Fits, Shape
    <3>2. Lands(N!PrefsDashboard(t, page))
      BY <1>1, <1>4, <3>1, PrefsDashboardLands
    <3>3. PICK b \in BOOLEAN : b = TRUE
      OBVIOUS
    <3>4. PICK q : q = [page EXCEPT !.prefsOpen = b]
      OBVIOUS
    <3>5. N!PrefsDashboard(t, page).p \in {q, page}
      BY <3>3, <3>4 DEF N!PrefsDashboard, N!End, N!Out
    <3>6. q.generation = page.generation
      BY <1>1, <3>4, PreferencesRun
    <3> QED BY <1>2, <2>4, <3>2, <3>5, <3>6, OutcomeIs
  <2>5. CASE t.pc \in {"leaveSaved", "restoreSaved"}
    <3>1. page.current # None => N!Editing(page)
      BY <1>1 DEF NotesInEditor
    <3>2. Lands(N!RestoreSaved(t, page))
      BY <1>1, <1>3, <1>4, <2>5, <3>1, RestoreSavedLands
    <3>3. N!RestoreSaved(t, page).p.generation = page.generation
      BY <1>1, RestoreSavedRuns
    <3> QED BY <1>2, <2>5, <3>2, <3>3, OutcomeIs
  <2> QED BY <1>2, <1>4, <2>1, <2>2, <2>3, <2>4, <2>5 DEF N!Runnable, RouterStops
<1>6. tasks[i].pc # "backDone" /\ t.gen = o.p.generation
  BY <1>2, <1>4, <1>5 DEF RouterStops
<1> QED BY <1>1, <1>2, <1>5, <1>6, ViewLanded

(* A restore that was overtaken ends and leaves the screen.                  *)
LEMMA GoingStale ==
  ASSUME NEW i, NEW t, NEW o, Going(i, t, o), t.gen # 0, t.gen # page.generation
  PROVE  ViewDone
<1>1. /\ i \in N!Slots /\ Grounded(i, t, page, o) /\ TaskSound(t) /\ PageSound(page) /\ Stop(t) = t.pc
      /\ Shape(t, t.pc) /\ LatestFits /\ RightOrDue /\ o.p.gaps = {}
  BY GoingFacts
<1>2. t = tasks[i] /\ t.pc \in N!Runnable /\ o = Outcome(t) /\ store' = store /\ GroundsInv'
  BY DEF Going
<1>3. ~N!Current(t, page) /\ t.pc \in RouterStops
  BY <1>1 DEF N!Current, Shape
<1>4. N!End(page).p = page /\ N!End(page).t = N!Idle /\ N!Idle.gen = 0
  BY DEF N!End, N!Out, N!Idle
<1>5. o = N!End(page)
  <2>1. CASE t.pc = "opened"
    <3>1. "save failed" \in Passes
      BY DEF Passes
    <3>2. N!Gap(page, "save failed").gaps # {}
      BY Zenon, <1>1, <3>1, GapNoted
    <3>3. o = N!End(IF t.ok THEN page ELSE N!Gap(page, "save failed"))
      BY Zenon, <1>2, <1>3, <2>1, OutcomeIs DEF N!OpenSaved
    <3>4. N!End(N!Gap(page, "save failed")).p = N!Gap(page, "save failed")
      BY DEF N!End, N!Out
    <3> QED BY Zenon, <1>1, <3>2, <3>3, <3>4
  <2>2. CASE t.pc \in {"openRead", "readLocal", "prefsDashboard", "startRead"}
    BY Zenon, <1>2, <1>3, <2>2, OutcomeIs DEF N!OpenRead, N!ReadLocal, N!PrefsDashboard, N!StartRead
  <2>3. CASE t.pc \in {"leaveSaved", "restoreSaved"}
    BY <1>2, <1>3, <2>3, OutcomeIs DEF N!RestoreSaved, N!RestoreScreen
  <2>4. CASE t.pc = "startList"
    <3>1. PICK q : q = N!Dashboard(page)
      OBVIOUS
    <3>2. "late startup" \in Passes
      BY DEF Passes
    <3>3. N!Gap(q, "late startup").gaps # {}
      BY Zenon, <1>1, <3>1, <3>2, DashboardShown, GapNoted
    <3>4. o = N!End(N!Gap(q, "late startup"))
      BY Zenon, <1>2, <1>3, <2>4, <3>1, OutcomeIs DEF N!StartList
    <3>5. N!End(N!Gap(q, "late startup")).p = N!Gap(q, "late startup")
      BY DEF N!End, N!Out
    <3> QED BY Zenon, <1>1, <3>3, <3>4, <3>5
  <2> QED BY <1>2, <1>3, <2>1, <2>2, <2>3, <2>4 DEF N!Runnable, RouterStops
<1>6. SameEdit(page, page) /\ SameLook(page, page)
  BY DEF SameEdit, SameLook
<1>7. tasks[i].pc # "backDone"
  BY <1>2, <1>3 DEF RouterStops
<1> QED BY <1>1, <1>2, <1>4, <1>5, <1>6, <1>7, ViewSame

(* A click's note appears under its own address.                             *)
LEMMA OpenedRight ==
  ASSUME NEW t, TaskSound(t), t.pc = "openRead", t.gen = 0, store[t.note] # None, Ready(page), NEW o,
         o = N!OpenRead(t, page), o.p.gaps = {}
  PROVE  ~N!RestoreUnderWay /\ Right(o.p) /\ o.t = N!Idle /\ o.p.generation = page.generation
<1>1. /\ t \in TaskType /\ t.note # None /\ t.note \in NoteOrNone /\ t.route # "none" /\ ~t.prefs
      /\ N!Current(t, page)
  BY DEF TaskSound, Stop, Shape, TaskType, N!Current
<1>2. PICK q : q = N!Shown(page, t.note, store[t.note])
  OBVIOUS
<1>3. PICK e : e = N!Entry("note", t.note)
  OBVIOUS
<1>4. e \in Entries /\ e.note = t.note /\ e.screen = "note"
  BY <1>1, <1>3 DEF N!Entry, Entries
<1>5. PICK b \in BOOLEAN : b = (t.route = "replace")
  OBVIOUS
<1>6. PICK r : r = N!SetRoute(q, e, b)
  OBVIOUS
<1>7. /\ ViewFollows(t, page, r) /\ r.screen = "editor" /\ r.prefsOpen = page.prefsOpen
      /\ r.current = t.note /\ SameRun(page, r)
  <2>1. \E replace \in BOOLEAN : r = N!SetRoute(q, N!Entry("note", t.note), replace)
    BY <1>3, <1>6
  <2> QED BY <1>1, <1>2, <2>1, ShownFollows
<1>8. PageSound(q)
  <2>1. PICK z : z = q
    OBVIOUS
  <2>2. ViewFollows(t, page, z)
    BY <1>1, <1>2, <2>1, ShownFollows
  <2> QED BY <2>1, <2>2 DEF ViewFollows
<1>9. N!Here(r) = e
  BY <1>4, <1>6, <1>8, RouteSet
<1>10. N!OpenRead(t, page) =
         N!End(IF N!RestoreUnderWay THEN N!Beside(r)
               ELSE IF r.prefsOpen THEN N!Gap(r, "under preferences") ELSE r)
  <2>1. r = IF t.route = "none" THEN q ELSE N!SetRoute(q, N!Entry("note", t.note), t.route = "replace")
    BY <1>1, <1>3, <1>5, <1>6
  <2> QED BY Zenon, <1>1, <1>2, <2>1 DEF N!OpenRead
<1>11. N!Gap(r, "under preferences").gaps # {} /\ (N!RestoreUnderWay => N!Beside(r).gaps # {})
  <2>1. "under preferences" \in Passes
    BY DEF Passes
  <2>2. PageSound(r) /\ PageSound(page)
    BY <1>7 DEF ViewFollows, Ready
  <2> QED BY Zenon, <1>1, <1>7, <2>1, <2>2, GapNoted, BesideCovers
<1>12. \A z : N!End(z).p = z /\ N!End(z).t = N!Idle
  BY DEF N!End, N!Out
<1>13. ~N!RestoreUnderWay /\ ~r.prefsOpen /\ o = N!End(r)
  BY Zenon, <1>10, <1>11, <1>12
<1>14. Right(r)
  BY <1>1, <1>4, <1>7, <1>9, <1>13 DEF Right, Addressed, N!Editing
<1> QED BY <1>7, <1>12, <1>13, <1>14 DEF SameRun

(* A note of its own, before its first save.                                 *)
LEMMA MadeRight ==
  ASSUME NEW t \in TaskType, t.pc \in {"newSaved", "wikiSaved"}, t.note # None, store[t.note] = None,
         Ready(page), NEW q, q = N!Beside(N!StartNewNote(page, t.note)), q.gaps = {}
  PROVE  ~N!RestoreUnderWay /\ Right(q) /\ q.generation = page.generation
<1>1. PICK z : z = N!StartNewNote(page, t.note)
  OBVIOUS
<1>2. ViewFollows(t, page, z) /\ z.screen = "editor" /\ z.current = t.note /\ SameRun(page, z)
  BY <1>1, NewNoteFollows
<1>3. PageSound(page)
  BY DEF Ready
<1>4. ~N!RestoreUnderWay /\ q = z
  BY <1>1, <1>2, <1>3, BesideCovers
<1> QED BY <1>2, <1>4 DEF Right, Unaddressed, N!Editing, SameRun

LEMMA GoingPlain ==
  ASSUME NEW i, NEW t, NEW o, Going(i, t, o), t.gen = 0
  PROVE  ViewDone
<1>1. /\ i \in N!Slots /\ Grounded(i, t, page, o) /\ TaskSound(t) /\ t \in TaskType /\ Ready(page)
      /\ PageSound(page) /\ Stop(t) = t.pc /\ Shape(t, t.pc) /\ LatestFits /\ RightOrDue
      /\ page.screen # "none" /\ page.generation # 0 /\ o.p.gaps = {}
      /\ (t.pc \in {"opened", "openRead"} => store[t.note] # None)
  BY GoingFacts
<1>2. t = tasks[i] /\ t.pc \in N!Runnable /\ o = Outcome(t) /\ store' = store /\ GroundsInv'
  BY DEF Going
<1>3. \A q : N!End(q).p = q /\ N!End(q).t = N!Idle /\ N!Idle.gen = 0
  BY DEF N!End, N!Out, N!Idle
<1>4. SameEdit(page, page) /\ SameLook(page, page)
  BY DEF SameEdit, SameLook
<1>5. tasks[i].gen # page.generation
  BY <1>1, <1>2
<1>6. CASE t.pc = "opened"
  <2>1. o = N!OpenSaved(t, page)
    BY <1>2, <1>6, OutcomeIs
  <2>2. "save failed" \in Passes
    BY DEF Passes
  <2>3. N!Gap(page, "save failed").gaps # {}
    BY Zenon, <1>1, <2>2, GapNoted
  <2>4. o = N!At(t, "openRead", page)
    BY Zenon, <1>1, <1>3, <2>1, <2>3 DEF N!OpenSaved, N!Current
  <2>5. o.p = page /\ o.t.gen = 0 /\ Stop(o.t) = "openRead"
    BY <1>1, <2>4, AtStops
  <2> QED BY <1>1, <1>2, <1>4, <1>5, <1>6, <2>5, ViewSame
<1>7. CASE t.pc = "openRead"
  <2>1. o = N!OpenRead(t, page)
    BY <1>2, <1>7, OutcomeIs
  <2>2. ~N!RestoreUnderWay /\ Right(o.p) /\ o.t = N!Idle /\ o.p.generation = page.generation
    BY <1>1, <1>7, <2>1, OpenedRight
  <2> QED BY <1>1, <1>2, <1>3, <2>2, ViewRight
<1>8. CASE t.pc = "backSaved"
  <2>1. o = N!BackSaved(t, page)
    BY <1>2, <1>8, OutcomeIs
  <2>2. /\ OutcomeSound(t, page, o) /\ SameRoute(page, o.p)
        /\ o.p.prefsOpen = page.prefsOpen /\ o.p.generation = page.generation
        /\ \/ o.p.travel > 0 /\ o.p.screen = page.screen
           \/ o.t.pc = "backDone" /\ o.p.screen = "dashboard"
    BY <1>1, <1>8, <2>1, BackSavedSound
  <2>3. o.t.gen = 0
    BY <1>3, <2>2 DEF OutcomeSound, TaskFollows, Carried
  <2>4. N!Here(o.p) = N!Here(page)
    BY <2>2 DEF N!Here, SameRoute
  <2> QED BY <1>1, <1>2, <1>5, <1>8, <2>2, <2>3, <2>4, ViewBack
<1>9. CASE t.pc = "backDone"
  <2>1. o = N!BackDone(t, page)
    BY <1>2, <1>9, OutcomeIs
  <2>2. /\ o.t = N!Idle /\ o.p.screen = page.screen /\ N!Here(o.p) = N!DashboardEntry
        /\ ~page.prefsOpen /\ ~N!Editing(page) /\ ~N!RestoreUnderWay
        /\ o.p.prefsOpen = page.prefsOpen /\ SameRun(page, o.p)
    BY <1>1, <2>1, BackDoneSound
  <2>3. o.p.screen = "dashboard"
    BY <1>1, <2>2 DEF PageSound, PageType, N!Editing
  <2>4. Right(o.p)
    BY <2>2, <2>3 DEF Right, Addressed, N!DashboardEntry, N!Entry
  <2> QED BY <1>1, <1>2, <1>3, <2>2, <2>4, ViewRight DEF SameRun
<1>10. CASE t.pc \in {"prefsSaved", "newSaved"} /\ ~t.ok
  <2>1. o = N!End(page)
    BY <1>2, <1>10, OutcomeIs DEF N!PrefsSaved, N!NewSaved
  <2> QED BY <1>1, <1>2, <1>3, <1>4, <1>5, <1>10, <2>1, ViewSame
<1>11. CASE t.pc = "prefsSaved" /\ t.ok
  <2>1. PICK b \in BOOLEAN : b = FALSE
    OBVIOUS
  <2>2. PICK q : q = [N!SetPreferences(page, b) EXCEPT !.prefsOpen = TRUE]
    OBVIOUS
  <2>3. Over(page, q)
    BY <1>1, <2>2, PreferencesOver
  <2>4. ViewFollows(t, page, q)
    BY <1>1, <2>2, PreferencesRoute
  <2>5. o = N!End(N!Beside(q))
    BY <1>2, <1>11, <2>1, <2>2, OutcomeIs DEF N!PrefsSaved
  <2>6. ~N!RestoreUnderWay /\ o.p = q /\ o.t.gen = 0
    BY <1>1, <1>3, <2>4, <2>5, BesideCovers
  <2> QED BY <1>1, <1>2, <1>11, <2>3, <2>6, ViewCovered
<1>12. CASE t.pc = "newSaved" /\ t.ok
  <2>1. t.note # None /\ store[t.note] = None
    BY <1>1, <1>2, <1>12 DEF Shape, Grounded, GroundsInv, NewNotesFresh
  <2>2. o = N!End(N!Beside(N!StartNewNote(page, t.note)))
    BY <1>2, <1>12, OutcomeIs DEF N!NewSaved
  <2>3. ~N!RestoreUnderWay /\ Right(o.p) /\ o.p.generation = page.generation /\ o.t.gen = 0
    BY <1>1, <1>3, <1>12, <2>1, <2>2, MadeRight
  <2> QED BY <1>1, <1>2, <2>3, ViewRight
<1>13. CASE t.pc = "wikiSaved" /\ store[t.note] = None
  <2>1. t.note # None
    BY <1>1, <1>13 DEF Shape
  <2>2. o = N!Saving(t, "idle", N!Beside(N!StartNewNote(page, t.note)))
    BY <1>2, <1>13, OutcomeIs DEF N!WikiSaved
  <2>3. o.p = N!Beside(N!StartNewNote(page, t.note)) /\ o.t.gen = 0
    BY <1>1, <2>2, SavingStops
  <2>4. ~N!RestoreUnderWay /\ Right(o.p) /\ o.p.generation = page.generation
    BY <1>1, <1>13, <2>1, <2>3, MadeRight
  <2> QED BY <1>1, <1>2, <2>3, <2>4, ViewRight
<1>14. CASE t.pc = "wikiSaved" /\ store[t.note] # None
  <2>1. o = N!WikiSaved(t, page)
    BY <1>2, <1>14, OutcomeIs
  <2>2. o.p.generation = page.generation + 1 /\ o.t.gen = 0 /\ Stop(o.t) \in {"opened", "openRead"}
    BY <1>1, <1>2, <1>14, <2>1, WikiOpens DEF Grounded
  <2>3. page.generation \in Nat
    BY <1>1 DEF PageSound, PageType
  <2> QED BY <1>1, <1>2, <2>2, <2>3, ViewOpens
<1>15. t.pc \in OtherStops
  BY <1>1 DEF Shape
<1> QED BY <1>2, <1>6, <1>7, <1>8, <1>9, <1>10, <1>11, <1>12, <1>13, <1>14, <1>15 DEF N!Runnable, OtherStops

LEMMA ProceedKeepsScreen ==
  ASSUME NavigationInv, NEW i \in N!Slots, N!Proceed(i)
  PROVE  GroundsInv' /\ ScreenInv'
<1>1. PICK t : t = tasks[i]
  OBVIOUS
<1>2. PICK o : o = Outcome(t)
  OBVIOUS
<1>3. Grounded(i, t, page, o) /\ ScreenInv
  BY <1>1, <1>2, ProceedGrounds DEF NavigationInv
<1>4. t.pc \in N!Runnable /\ store' = store
  BY <1>1, ProceedApplies
<1>5. t.pc = "startList" => o.p.gaps # {} \/ t.gen = page.generation
  <2> SUFFICES ASSUME t.pc = "startList", t.gen # page.generation PROVE o.p.gaps # {}
    OBVIOUS
  <2>1. TaskSound(t) /\ PageSound(page)
    BY <1>1 DEF NavigationInv, NavigationTypes
  <2>2. t.gen # 0
    BY <2>1 DEF TaskSound, Shape, Stop, OtherStops
  <2>3. PICK q : q = N!Dashboard(page)
    OBVIOUS
  <2>4. "late startup" \in Passes
    BY DEF Passes
  <2>5. N!Gap(q, "late startup").gaps # {}
    BY Zenon, <2>1, <2>3, <2>4, DashboardShown, GapNoted
  <2>6. o = N!End(N!Gap(q, "late startup"))
    BY Zenon, <1>2, <2>2, <2>3, OutcomeIs DEF N!StartList, N!Current
  <2> QED BY Zenon, <2>5, <2>6 DEF N!End, N!Out
<1>6. ASSUME GroundsInv', page.gaps = {}, page'.gaps = {}, page'.answered
      PROVE  ViewDone
  <2>1. Going(i, t, o)
    BY <1>1, <1>2, <1>3, <1>4, <1>6 DEF Going
  <2> QED BY <2>1, GoingLatest, GoingStale, GoingPlain
<1> QED BY <1>3, <1>5, <1>6, StepScreen

(* The server's answer, a step of the restore that waits for it.             *)
LEMMA AnswerScreens ==
  ASSUME NavigationInv, NEW i \in N!Slots, NEW t, t = tasks[i], t.pc = "fetch", NEW o,
         OutcomeSound(t, page, o), N!Apply(i, o), Ahead(o),
         store' = store \/ (t.note \in N!AllNotes /\ store' = [store EXCEPT ![t.note] = 0]),
         \/ o.p.gaps # {}
         \/ ~N!Current(t, page) /\ o = N!End(page) /\ store' = store
         \/ /\ N!Current(t, page) /\ o.p.generation = page.generation /\ (Latest(t, page) => Lands(o))
            /\ store' = store \/ o.t # N!Idle
  PROVE  GroundsInv' /\ ScreenInv'
<1>1. TaskSound(t) /\ t \in TaskType /\ t.gen # 0 /\ NavigationTypes /\ GroundsInv /\ ScreenInv /\ Stop(t) = "fetch"
  BY DEF NavigationInv, NavigationTypes, TaskSound, Shape, Stop, OtherStops
<1>2. Grounded(i, t, page, o)
  BY <1>1, ResumedGrounds
<1>3. ASSUME GroundsInv', page.gaps = {}, page'.gaps = {}, page'.answered
      PROVE  ViewDone
  <2>1. Applied(i, t, page, o)
    BY <1>2, GroundedPage
  <2>2. ViewFollows(t, page, o.p)
    BY DEF OutcomeSound
  <2>3. page.answered /\ o.p.gaps = {}
    BY <1>3, <2>1, <2>2 DEF Applied, ViewFollows
  <2>4. LatestFits /\ RightOrDue
    BY <1>1, <1>3, <2>3 DEF ScreenInv
  <2>5. CASE ~N!Current(t, page) /\ o = N!End(page) /\ store' = store
    <3>1. t.gen # page.generation
      BY <2>5 DEF N!Current
    <3>2. o.p = page /\ o.t = N!Idle /\ N!Idle.gen = 0
      BY <2>5 DEF N!End, N!Out, N!Idle
    <3>3. SameEdit(page, page) /\ SameLook(page, page)
      BY DEF SameEdit, SameLook
    <3> QED BY <1>1, <1>2, <1>3, <2>4, <2>5, <3>1, <3>2, <3>3, ViewSame
  <2>6. CASE /\ N!Current(t, page) /\ o.p.generation = page.generation /\ (Latest(t, page) => Lands(o))
             /\ store' = store \/ o.t # N!Idle
    <3>1. t.gen = page.generation
      BY <1>1, <2>6 DEF N!Current
    <3>2. Latest(t, page)
      BY <1>1, <2>4, <3>1 DEF LatestFits, Fits, Latest
    <3> QED BY <1>2, <1>3, <2>6, <3>1, <3>2, ViewLanded
  <2> QED BY <2>3, <2>5, <2>6
<1> QED BY <1>1, <1>2, <1>3, StepScreen

LEMMA FetchedKeepsScreen ==
  ASSUME NavigationInv, NEW i \in N!Slots, N!Fetched(i)
  PROVE  GroundsInv' /\ ScreenInv'
<1>1. PICK t : t = tasks[i]
  OBVIOUS
<1>2. /\ TaskSound(t) /\ t \in TaskType /\ Ready(page) /\ PageSound(page) /\ t.pc = "fetch"
      /\ NavigationTypes
  BY Zenon, <1>1, SameAsItself DEF TaskSound, Ready, NavigationInv, NavigationTypes, N!Fetched
<1>3. RouterTask(t) /\ t.note # None /\ t.note \in N!AllNotes /\ t.gen # 0 /\ t.route = "none"
  BY <1>2, RouterTasks DEF TaskSound, Shape, Stop, TaskType, NoteOrNone, RouterTask
<1>4. [t EXCEPT !.route = "none"] = t
  BY <1>2, <1>3 DEF TaskType
<1>5. OutcomeSound(t, page, N!End(page))
  BY <1>2, PageStays, EndSound
<1>6. CASE /\ store' = IF N!Current(t, page) THEN [store EXCEPT ![t.note] = 0] ELSE store
           /\ N!Apply(i, IF N!Current(t, page) THEN N!OpenNote([t EXCEPT !.route = "none"], page)
                        ELSE N!End(page))
  <2>1. CASE N!Current(t, page)
    <3>1. PICK o : o = N!OpenNote(t, page)
      OBVIOUS
    <3>2. page.generation \in Nat
      BY <1>2 DEF PageSound, PageType
    <3>3. OutcomeSound(t, page, o) /\ o.p.generation = page.generation
      BY <1>2, <1>3, <3>1, <3>2, OpenNoteSound
    <3>4. N!Apply(i, o) /\ store' = [store EXCEPT ![t.note] = 0]
      BY <1>4, <1>6, <2>1, <3>1
    <3>5. Ahead(o) /\ o.t # N!Idle
      BY <1>2, <3>1, OpenNoteAhead
    <3>6. Latest(t, page) => Lands(o)
      BY <1>2, <1>3, <3>1, OpenNoteLands
    <3> QED BY <1>1, <1>2, <1>3, <2>1, <3>3, <3>4, <3>5, <3>6, AnswerScreens
  <2>2. CASE ~N!Current(t, page)
    <3>1. Ahead(N!End(page))
      BY EndsAhead
    <3>2. N!Apply(i, N!End(page)) /\ store' = store
      BY <1>6, <2>2
    <3> QED BY <1>1, <1>2, <1>5, <2>2, <3>1, <3>2, AnswerScreens
  <2> QED BY <2>1, <2>2
<1>7. CASE N!Apply(i, N!Missing(t, page)) /\ store' = store
  <2>1. PICK o : o = N!Missing(t, page)
    OBVIOUS
  <2>2. OutcomeSound(t, page, o) /\ Ahead(o) /\ o.p.generation = page.generation
    BY <1>2, <1>3, <2>1, MissingSound, MissingAhead, MissingRuns
  <2>3. Latest(t, page) => Lands(o)
    BY <1>2, <2>1, MissingLands
  <2>4. ~N!Current(t, page) => o = N!End(page)
    BY <2>1 DEF N!Missing
  <2> QED BY <1>1, <1>2, <1>7, <2>1, <2>2, <2>3, <2>4, AnswerScreens
<1>8. CASE N!Apply(i, N!End(N!Gap(page, "fetch failed"))) /\ store' = store
  <2>1. "fetch failed" \in Passes
    BY DEF Passes
  <2>2. PICK o : o = N!End(N!Gap(page, "fetch failed"))
    BY Zenon
  <2>3. OutcomeSound(t, page, o)
    BY Zenon, <1>2, <2>1, <2>2, GapFollows, EndSound
  <2>4. Ahead(o) /\ o.p = N!Gap(page, "fetch failed")
    BY Zenon, <2>2, EndsAhead, EndStops
  <2>5. o.p.gaps # {}
    BY Zenon, <1>2, <2>1, <2>4, GapNoted
  <2> QED BY Zenon, <1>1, <1>2, <1>8, <2>2, <2>3, <2>4, <2>5, AnswerScreens
<1> QED BY Zenon, <1>1, <1>6, <1>7, <1>8 DEF N!Fetched

-----------------------------------------------------------------------------
(* A navigation begins.                                                      *)
LEMMA RestorePreferencesRuns ==
  ASSUME NEW t \in TaskType, NEW p, Ready(p)
  PROVE  N!RestorePreferences(t, p).p.generation = p.generation /\ Ahead(N!RestorePreferences(t, p))
<1>0. \A q : N!End(q).p = q
  BY DEF N!End, N!Out
<1>1. PICK b \in BOOLEAN : b = TRUE
  OBVIOUS
<1>2. PICK q : q = [p EXCEPT !.prefsOpen = b]
  OBVIOUS
<1>3. q.generation = p.generation
  BY <1>2, PreferencesRun DEF Ready
<1>4. N!RestorePreferences(t, p) \in {N!End(q), N!RestoreNote(t, p)}
  BY <1>1, <1>2 DEF N!RestorePreferences
<1> QED BY <1>0, <1>3, <1>4, RestoreNoteRuns, RestoreNoteAhead, EndsAhead

(* Where a restore is after its first step.                                  *)
Begins(o) == Stop(o.t) \in (Later \ {"startList"}) \cup {"leaveSaved", "restoreSaved"}

LEMMA RestoreRouteRuns ==
  ASSUME NEW p, Ready(p), NEW fetch \in BOOLEAN, NEW popped \in BOOLEAN
  PROVE  LET r == N!RestoreRoute(p, fetch, popped) IN
         r.p.generation = p.generation + 1 /\ Begins(r)
<1>0. PICK t : t = RestoreTask(p, fetch, popped)
  OBVIOUS
<1>1. /\ t \in TaskType /\ t.gen = p.generation + 1 /\ t.note = N!Here(p).note
      /\ t.prefs = (N!Here(p).screen = "preferences")
      /\ t.leaving = (N!Here(p).screen # "preferences" /\ p.prefsOpen)
  BY <1>0, RestoreTaskSound DEF RouterTask
<1>2. PICK g \in Nat : g = p.generation + 1
  BY DEF Ready, PageSound, PageType
<1>3. PICK q : q = [p EXCEPT !.generation = g]
  OBVIOUS
<1>6. Ready(q) /\ q.generation = g
  BY <1>3 DEF Ready, PageSound, PageType
<1>8. t = [N!Idle EXCEPT !.gen = q.generation, !.note = N!Here(p).note,
                         !.prefs = (N!Here(p).screen = "preferences"),
                         !.leaving = (~(N!Here(p).screen = "preferences") /\ p.prefsOpen),
                         !.fetch = fetch, !.popped = popped]
  BY <1>0, <1>2, <1>6 DEF RestoreTask
<1>9. q = [p EXCEPT !.generation = @ + 1]
  BY <1>2, <1>3
<1>10. N!RestoreRoute(p, fetch, popped) \in
         {N!Saving(t, "leaveSaved", q), N!RestorePreferences(t, q), N!Saving(t, "restoreSaved", q),
          N!RestoreScreen(t, q)}
  <2>1. N!RestoreRoute(p, fetch, popped) =
          LET same == t.note # None /\ p.current = t.note /\ p.dirty
          IN  IF (N!Here(p).screen = "preferences" \/ t.leaving) /\ same THEN N!Saving(t, "leaveSaved", q)
              ELSE IF N!Here(p).screen = "preferences" THEN N!RestorePreferences(t, q)
              ELSE IF N!Editing(p) /\ p.dirty THEN N!Saving(t, "restoreSaved", q)
              ELSE N!RestoreScreen(t, q)
    BY <1>8, <1>9 DEF N!RestoreRoute
  <2> QED BY <2>1
<1>11. \A s \in {"leaveSaved", "restoreSaved"} : N!Saving(t, s, q).p = q /\ Begins(N!Saving(t, s, q))
  <2> SUFFICES ASSUME NEW s \in {"leaveSaved", "restoreSaved"}
               PROVE  N!Saving(t, s, q).p = q /\ Begins(N!Saving(t, s, q))
    OBVIOUS
  <2> QED BY <1>1, SavingStops DEF Begins
<1>12. N!RestorePreferences(t, q).p.generation = g /\ N!RestoreScreen(t, q).p.generation = g
  BY <1>1, <1>6, RestorePreferencesRuns, RestoreScreenRuns
<1>13. Begins(N!RestorePreferences(t, q)) /\ Begins(N!RestoreScreen(t, q))
  BY <1>1, <1>6, RestorePreferencesRuns, RestoreScreenAhead DEF Ahead, Begins
<1> QED BY <1>2, <1>6, <1>10, <1>11, <1>12, <1>13

(* A restore that ends at once ends the event that began it.                 *)
LEMMA RestoringOutcome ==
  ASSUME NEW t \in TaskType, NEW p, PageSound(p), NEW r, OutcomeSound(t, p, r), NEW o,
         o = r \/ o = [r EXCEPT !.p.restoring = FALSE]
  PROVE  /\ OutcomeSound(t, p, o) /\ o.t = r.t /\ SameEdit(r.p, o.p) /\ SameLook(r.p, o.p)
         /\ o.p.gaps = r.p.gaps /\ o.p.travel = r.p.travel /\ o.p.generation = r.p.generation
         /\ N!Here(o.p) = N!Here(r.p)
<1>1. CASE o = r
  BY <1>1 DEF SameEdit, SameLook
<1>2. CASE o # r
  <2>1. PICK b \in BOOLEAN : b = FALSE
    OBVIOUS
  <2>2. PICK q : q = [r.p EXCEPT !.restoring = b]
    OBVIOUS
  <2>3. r = [t |-> r.t, p |-> r.p, save |-> r.save]
    BY DEF OutcomeSound, N!Out
  <2>4. o = [r EXCEPT !.p = q]
    BY <1>2, <2>1, <2>2
  <2>5. o = [t |-> r.t, p |-> q, save |-> r.save]
    BY <2>3, <2>4
  <2>6. o.t = r.t /\ o.p = q /\ o.save = r.save
    BY <2>5
  <2>7. PageSound(r.p) /\ ViewFollows(t, p, r.p)
    BY DEF OutcomeSound, ViewFollows
  <2>8. /\ PageSound(q) /\ SameEdit(r.p, q) /\ SameLook(r.p, q) /\ SameRoute(r.p, q) /\ q.gaps = r.p.gaps
        /\ q.travel = r.p.travel /\ q.generation = r.p.generation /\ q.answered = r.p.answered
        /\ N!Here(q) = N!Here(r.p)
    BY <2>2, <2>7, RestoringSet
  <2>9. ViewFollows(t, p, q)
    <3>1. Kept(t, p, r.p) => Kept(t, p, q)
      BY <2>8 DEF Kept, SameEdit, SameLook
    <3>2. Renewed(t, p, r.p) => Renewed(t, p, q)
      BY <2>8 DEF Renewed, SameEdit, SameLook, SameRoute
    <3>3. \A k \in 1 .. Len(q.stack) :
         \/ q.stack[k].note = None
         \/ q.stack[k].note = t.note /\ store[t.note] # None /\ q.saved # N!Nothing
         \/ \E j \in 1 .. Len(p.stack) : q.stack[k].note = p.stack[j].note
      BY <2>7, <2>8 DEF ViewFollows, SameRoute, SameEdit
    <3> QED BY <2>7, <2>8, <3>1, <3>2, <3>3 DEF ViewFollows, SameLook
  <2> QED BY <2>5, <2>6, <2>8, <2>9 DEF OutcomeSound, N!Out
<1> QED BY <1>1, <1>2

LEMMA RestoreBeginsScreen ==
  ASSUME NavigationInv, NEW p, SamePage(p), NEW fetch \in BOOLEAN, NEW popped \in BOOLEAN, NEW o,
         \/ o = N!RestoreRoute(p, fetch, popped)
         \/ o = [N!RestoreRoute(p, fetch, popped) EXCEPT !.p.restoring = FALSE],
         N!Begin(o), store' = store, p.answered => page.answered \/ page.screen # "none"
  PROVE  GroundsInv' /\ ScreenInv'
<1>1. NavigationTypes /\ GroundsInv /\ ScreenInv /\ Ready(p) /\ PageSound(p)
  BY PagesAreReady DEF NavigationInv, Ready
<1>2. PICK t : t = RestoreTask(p, fetch, popped)
  OBVIOUS
<1>3. t \in TaskType /\ t.pc = "idle" /\ t.gen = p.generation + 1 /\ t.note = N!Here(p).note
  BY <1>1, <1>2, RestoreTaskSound DEF RouterTask
<1>4. PICK r : r = N!RestoreRoute(p, fetch, popped)
  OBVIOUS
<1>5. OutcomeSound(t, p, r)
  BY <1>1, <1>2, <1>4, RestoreRouteSound
<1>6. r.p.generation = p.generation + 1 /\ Begins(r) /\ Lands(r)
  BY <1>1, <1>4, RestoreRouteRuns, RestoreRouteLands
<1>7. /\ OutcomeSound(t, p, o) /\ o.t = r.t /\ SameEdit(r.p, o.p) /\ SameLook(r.p, o.p)
      /\ o.p.gaps = r.p.gaps /\ o.p.travel = r.p.travel /\ o.p.generation = r.p.generation
      /\ N!Here(o.p) = N!Here(r.p)
  BY <1>1, <1>3, <1>4, <1>5, RestoringOutcome
<1>8. Lands(o)
  <2>1. Right(r.p) => Right(o.p)
    BY <1>7 DEF Right, Unaddressed, Addressed, N!Editing, SameEdit, SameLook
  <2>2. Fits(r.t, r.p) => Fits(o.t, o.p)
    BY <1>7 DEF Fits, Aimed, Uncovered, SameEdit, SameLook
  <2> QED BY <1>6, <1>7, <2>1, <2>2 DEF Lands
<1>9. PICK i \in N!Slots : tasks[i] = N!Idle /\ N!Apply(i, o)
  BY DEF N!Begin
<1>10. p.generation = page.generation /\ page.generation \in Nat /\ p.stack = page.stack /\ p.at \in 1 .. Len(p.stack)
  BY <1>1 DEF SamePage, NavigationTypes, PageSound, PageType
<1>11. Known(t.note)
  BY <1>1, <1>3, <1>10 DEF N!Here, GroundsInv, KnownNotes
<1>12. Started(i, t, p, o)
  <2>1. t.gen = page.generation + 1 /\ o.p.generation = t.gen /\ o.p.generation > page.generation
    BY <1>3, <1>6, <1>7, <1>10
  <2>2. Stop(o.t) \notin {"startRead", "startList", "newSaved"}
    BY <1>6, <1>7 DEF Begins, Later
  <2> QED BY <1>3, <1>9, <1>11, <2>1, <2>2 DEF Started
<1>13. Grounded(i, t, p, o)
  BY <1>1, <1>3, <1>7, <1>9, <1>12 DEF Grounded, Stepped
<1>14. ASSUME GroundsInv', page.gaps = {}, page'.gaps = {}, page'.answered
       PROVE  ViewDone
  <2>1. tasks[i].pc # "backDone" /\ t.gen = o.p.generation
    BY <1>3, <1>6, <1>7, <1>9, <1>10 DEF N!Idle
  <2> QED BY <1>8, <1>13, <1>14, <2>1, ViewLanded
<1> QED BY <1>1, <1>3, <1>13, <1>14, StepScreen

LEMMA PopStateKeepsScreen ==
  ASSUME NavigationInv, NEW p, SamePage(p), N!PopState(p), store' = store, p.answered = page.answered
  PROVE  GroundsInv' /\ ScreenInv'
<1>1. PICK b \in BOOLEAN : b = TRUE
  OBVIOUS
<1>2. PICK q : q = [p EXCEPT !.restoring = b]
  OBVIOUS
<1>3. SamePage(q) /\ q.answered = page.answered
  BY <1>2, RestoringSet DEF SamePage, SameEdit, SameLook, SameRoute
<1>4. PICK r : r = N!RestoreRoute(q, FALSE, TRUE)
  OBVIOUS
<1>5. PICK o : /\ o = IF r.t.pc = "idle" THEN [r EXCEPT !.p.restoring = FALSE] ELSE r
               /\ N!Begin(o)
  BY <1>1, <1>2, <1>4 DEF N!PopState
<1>6. FALSE \in BOOLEAN /\ TRUE \in BOOLEAN
  OBVIOUS
<1>7. \/ o = N!RestoreRoute(q, FALSE, TRUE)
      \/ o = [N!RestoreRoute(q, FALSE, TRUE) EXCEPT !.p.restoring = FALSE]
  BY <1>4, <1>5
<1> QED BY <1>3, <1>5, <1>6, <1>7, RestoreBeginsScreen

LEMMA MoveKeepsScreen ==
  ASSUME NavigationInv, NEW d \in {-1, 1}, N!Move(d)
  PROVE  GroundsInv' /\ ScreenInv'
<1>1. PageSound(page)
  BY DEF NavigationInv, NavigationTypes
<1>2. PICK k \in 1 .. Len(page.stack) : k = page.at + d
  <2>1. DOMAIN page.stack = 1 .. Len(page.stack)
    BY <1>1, LenProperties DEF PageSound, PageType
  <2> QED BY <2>1 DEF N!Move
<1>3. PICK p : p = [page EXCEPT !.at = k]
  OBVIOUS
<1>4. SamePage(p) /\ p.answered = page.answered
  <2>1. k \in Nat
    BY <1>1, LenProperties DEF PageSound, PageType
  <2> QED BY <1>1, <1>3, <2>1 DEF SamePage, PageSound, PageType, SameEdit, SameLook
<1>5. N!PopState(p) /\ store' = store
  BY <1>2, <1>3 DEF N!Move
<1> QED BY <1>4, <1>5, PopStateKeepsScreen

LEMMA ServerAnswersKeepsScreen ==
  ASSUME NavigationInv, N!ServerAnswers
  PROVE  GroundsInv' /\ ScreenInv'
<1>1. PageSound(page)
  BY DEF NavigationInv, NavigationTypes
<1>2. PICK p : p = [page EXCEPT !.answered = TRUE]
  OBVIOUS
<1>3. SamePage(p)
  BY <1>1, <1>2 DEF SamePage, PageSound, PageType, SameEdit, SameLook
<1>4. PICK o : o = N!RestoreRoute(p, TRUE, FALSE) /\ N!Begin(o) /\ store' = store
  BY <1>2 DEF N!ServerAnswers
<1>5. TRUE \in BOOLEAN /\ FALSE \in BOOLEAN /\ page.screen # "none"
  BY DEF N!ServerAnswers
<1> QED BY <1>3, <1>4, <1>5, RestoreBeginsScreen

(* A click that shows nothing before its next await.                         *)
LEMMA QuietBeginsScreen ==
  ASSUME NavigationInv, NEW t \in TaskType, t.pc = "idle", t.gen = 0,
         t.note = None \/ store[t.note] # None \/ N!Unused(t.note),
         NEW p, p = page \/ p = [page EXCEPT !.timer = FALSE],
         NEW s \in {"backSaved", "prefsSaved", "newSaved", "wikiSaved"}, Shape(t, s),
         s = "newSaved" => store[t.note] = None, NEW o,
         \/ o = N!Saving(t, s, p)
         \/ s = "wikiSaved" /\ o = N!At(t, s, p),
         N!Begin(o), store' = store, page.screen # "none"
  PROVE  GroundsInv' /\ ScreenInv'
<1>1. NavigationTypes /\ GroundsInv /\ ScreenInv /\ SamePage(page) /\ PageSound(page)
  BY SameAsItself DEF NavigationInv, NavigationTypes
<1>2. /\ PageSound(p) /\ SameEdit(page, p) /\ SameLook(page, p) /\ SameRoute(page, p) /\ SameRun(page, p)
      /\ p.gaps = page.gaps
  <2>1. CASE p = page
    BY <1>1, <2>1 DEF SameEdit, SameLook, SameRoute, SameRun
  <2>2. CASE p = [page EXCEPT !.timer = FALSE]
    BY <1>1, <2>2 DEF PageSound, PageType, SameEdit, SameLook, SameRoute, SameRun
  <2> QED BY <2>1, <2>2
<1>3. ViewFollows(t, page, p)
  BY <1>1, <1>2, PageKept DEF SameLook
<1>4. s \in Afters /\ (s = "wikiSaved" => s \in Stops \ {"idle", "saving", "leaveSaved", "restoreSaved"})
  BY DEF Afters, Stops, N!Runnable
<1>5. OutcomeSound(t, page, o) /\ o.p = p /\ Stop(o.t) = s /\ o.t.gen = 0
  <2>1. CASE o = N!Saving(t, s, p)
    BY <1>3, <1>4, <2>1, SavingSound, SavingStops
  <2>2. CASE s = "wikiSaved" /\ o = N!At(t, s, p)
    BY <1>3, <1>4, <2>2, AtSound, AtStops
  <2> QED BY <2>1, <2>2
<1>6. PICK i \in N!Slots : tasks[i] = N!Idle /\ N!Apply(i, o)
  BY DEF N!Begin
<1>7. Started(i, t, page, o)
  BY <1>5, <1>6 DEF Started
<1>8. Grounded(i, t, page, o)
  BY <1>1, <1>5, <1>6, <1>7 DEF Grounded, Stepped
<1>9. ASSUME GroundsInv', page.gaps = {}, page'.gaps = {}, page'.answered
      PROVE  ViewDone
  <2>1. page'.answered = o.p.answered
    BY <1>8, GroundedPage DEF Applied
  <2>2. page.answered
    BY <1>2, <1>5, <1>9, <2>1 DEF SameRun
  <2>3. LatestFits /\ RightOrDue
    BY <1>1, <1>9, <2>2 DEF ScreenInv
  <2>4. N!Here(o.p) = N!Here(page) /\ o.p.travel = page.travel /\ o.p.generation = page.generation
    BY <1>2, <1>5 DEF N!Here, SameRoute, SameRun
  <2>5. tasks[i].pc # "backDone" /\ tasks[i].gen # page.generation /\ Stop(tasks[i]) = "idle"
    BY <1>1, <1>6, IdleSound DEF N!Idle, GroundsInv, Generations
  <2> QED BY <1>2, <1>5, <1>8, <1>9, <2>3, <2>4, <2>5, ViewSame
<1> QED BY <1>1, <1>8, <1>9, StepScreen

LEMMA ClickNoteKeepsScreen ==
  ASSUME NavigationInv, NEW n \in N!AllNotes, N!ClickNote(n)
  PROVE  GroundsInv' /\ ScreenInv'
<1>1. NavigationTypes /\ GroundsInv /\ ScreenInv /\ PageSound(page)
  BY DEF NavigationInv, NavigationTypes
<1>2. Ready(page) /\ SamePage(page)
  BY <1>1, SameAsItself
<1>3. PICK u : u = N!Begun(n, "idle")
  OBVIOUS
<1>4. PICK t : t = [u EXCEPT !.route = "push"]
  OBVIOUS
<1>5. /\ u \in TaskType /\ u.pc = "idle" /\ u.gen = 0 /\ u.note = n /\ ~u.prefs
  BY <1>3, BegunSound
<1>6. /\ t \in TaskType /\ t.pc = "idle" /\ t.gen = 0 /\ t.note = n /\ ~t.prefs /\ t.route = "push"
  BY <1>4, <1>5 DEF TaskType
<1>7. n # None
  BY NavigationAssumption DEF N!AllNotes
<1>8. /\ page.screen = "dashboard" /\ store[n] # None /\ store' = store
      /\ N!Begin(N!OpenNote(t, page))
  BY <1>3, <1>4 DEF N!ClickNote
<1>9. PICK o : o = N!OpenNote(t, page)
  OBVIOUS
<1>10. OutcomeSound(t, page, o) /\ o.p.generation = page.generation + 1 /\ o.p.answered = page.answered
  BY <1>2, <1>6, <1>7, <1>8, <1>9, OpenNoteSound
<1>11. Stop(o.t) \in {"opened", "openRead"} /\ o.t.gen = 0
  BY <1>6, <1>9, OpenNoteAhead
<1>12. PICK i \in N!Slots : tasks[i] = N!Idle /\ N!Apply(i, o)
  BY <1>8, <1>9 DEF N!Begin
<1>13. Started(i, t, page, o)
  BY <1>6, <1>8, <1>11, <1>12 DEF Started
<1>14. Grounded(i, t, page, o)
  BY <1>1, <1>2, <1>6, <1>10, <1>12, <1>13 DEF Grounded, Stepped
<1>15. GroundsInv' => ViewDone
  <2>1. o.p.generation > page.generation
    BY <1>1, <1>10 DEF PageSound, PageType
  <2> QED BY <1>11, <1>14, <2>1, ViewOpens
<1> QED BY <1>1, <1>6, <1>14, <1>15, StepScreen

LEMMA ClickLinkKeepsScreen ==
  ASSUME NavigationInv, NEW n \in N!AllNotes, N!ClickLink(n)
  PROVE  GroundsInv' /\ ScreenInv'
<1>1. PICK t : t = N!Begun(n, "idle")
  OBVIOUS
<1>2. t \in TaskType /\ t.pc = "idle" /\ t.gen = 0 /\ t.note = n /\ ~t.prefs
  BY <1>1, BegunSound
<1>3. n # None
  BY NavigationAssumption DEF N!AllNotes
<1>4. Shape(t, "wikiSaved")
  BY <1>2, <1>3 DEF Shape, OtherStops
<1>5. /\ store' = store /\ (store[n] # None \/ N!Unused(n)) /\ page.screen # "none"
      /\ N!Begin(IF page.dirty THEN N!Saving(t, "wikiSaved", page) ELSE N!At(t, "wikiSaved", page))
  BY <1>1 DEF N!ClickLink, N!Editing
<1>6. PICK s \in {"backSaved", "prefsSaved", "newSaved", "wikiSaved"} : s = "wikiSaved"
  OBVIOUS
<1>7. PICK o : o = (IF page.dirty THEN N!Saving(t, s, page) ELSE N!At(t, s, page)) /\ N!Begin(o)
  BY <1>5, <1>6
<1>8. PICK p : p = page
  OBVIOUS
<1>9. o = N!Saving(t, s, p) \/ (s = "wikiSaved" /\ o = N!At(t, s, p))
  BY <1>6, <1>7, <1>8
<1>10. Shape(t, s) /\ s # "newSaved" /\ (store[t.note] # None \/ N!Unused(t.note))
  BY <1>2, <1>4, <1>5, <1>6
<1> QED BY <1>2, <1>5, <1>7, <1>8, <1>9, <1>10, QuietBeginsScreen

LEMMA ShortcutKeepsScreen ==
  ASSUME NavigationInv, NEW n \in N!AllNotes, N!NewNoteByShortcut(n)
  PROVE  GroundsInv' /\ ScreenInv'
<1>1. PICK t : t = N!Begun(n, "idle")
  OBVIOUS
<1>2. t \in TaskType /\ t.pc = "idle" /\ t.gen = 0 /\ t.note = n /\ ~t.prefs
  BY <1>1, BegunSound
<1>3. n # None
  BY NavigationAssumption DEF N!AllNotes
<1>4. PICK s \in {"backSaved", "prefsSaved", "newSaved", "wikiSaved"} : s = "newSaved"
  OBVIOUS
<1>5. Shape(t, s)
  BY <1>2, <1>3, <1>4 DEF Shape, OtherStops
<1>6. PICK p : p = page
  OBVIOUS
<1>7. PICK o : o = N!Saving(t, s, p)
  OBVIOUS
<1>8. store' = store /\ N!Unused(t.note) /\ page.screen # "none" /\ N!Begin(o)
  BY <1>1, <1>2, <1>4, <1>6, <1>7 DEF N!NewNoteByShortcut, N!Editing
<1>9. store[t.note] = None
  BY <1>8 DEF N!Unused
<1> QED BY <1>2, <1>5, <1>6, <1>7, <1>8, <1>9, QuietBeginsScreen

LEMMA BackButtonKeepsScreen ==
  ASSUME NavigationInv, N!BackButton
  PROVE  GroundsInv' /\ ScreenInv'
<1>1. PICK t : t = N!Idle
  OBVIOUS
<1>2. t \in TaskType /\ t.pc = "idle" /\ t.gen = 0 /\ t.note = None /\ ~t.prefs
  BY <1>1, IdleSound DEF N!Idle
<1>3. PICK s \in {"backSaved", "prefsSaved", "newSaved", "wikiSaved"} : s = "backSaved"
  OBVIOUS
<1>4. Shape(t, s)
  BY <1>2, <1>3 DEF Shape, OtherStops
<1>5. PICK p : p = [page EXCEPT !.timer = FALSE]
  OBVIOUS
<1>6. PICK o : o = N!Saving(t, s, p)
  OBVIOUS
<1>7. store' = store /\ page.screen # "none" /\ N!Begin(o)
  BY <1>1, <1>3, <1>5, <1>6 DEF N!BackButton, N!Editing
<1> QED BY <1>2, <1>3, <1>4, <1>5, <1>6, <1>7, QuietBeginsScreen

-----------------------------------------------------------------------------
(* Steps of the user and of the saver that run no task.                      *)
LEMMA PageKeepsGrounds ==
  ASSUME NavigationTypes, GroundsInv, PageSound(page'),
         page'.current = page.current, page'.session = page.session, page'.saved = page.saved,
         page'.screen = page.screen, page'.generation = page.generation, page'.answered = page.answered,
         \/ page'.text = page.text /\ page'.dirty = page.dirty
         \/ page.current # None /\ page'.dirty,
         \A k \in 1 .. Len(page'.stack) :
           \E j \in 1 .. Len(page.stack) : page'.stack[k].note = page.stack[j].note,
         tasks' = tasks, store' = store,
         \/ saver' = saver
         \/ saver.busy /\ saver'.note = saver.note /\ saver'.session = saver.session /\ saver'.text = saver.text
         \/ saver'.note = page'.current /\ saver'.session = page'.session /\ saver'.text = page'.text
  PROVE  GroundsInv'
<1>1. FirstSave'
  BY DEF GroundsInv, FirstSave
<1>2. KnownNotes'
  <2>1. \A n : Known(n)' <=> Known(n)
    BY DEF Known
  <2>2. ASSUME NEW k \in 1 .. Len(page'.stack) PROVE Still(page'.stack[k].note)
    <3>1. PICK j \in 1 .. Len(page.stack) : page'.stack[k].note = page.stack[j].note
      OBVIOUS
    <3>2. Known(page.stack[j].note)
      BY DEF GroundsInv, KnownNotes
    <3> QED BY <3>1, <3>2 DEF Known, Still
  <2>3. ASSUME NEW j \in N!Slots, tasks'[j].gen # 0 PROVE Still(tasks'[j].note)
    <3>1. Known(tasks[j].note)
      BY <2>3 DEF GroundsInv, KnownNotes
    <3> QED BY <3>1 DEF Known, Still
  <2> QED BY <2>2, <2>3 DEF KnownNotes, Known, Still
<1>3. saver'.busy => saver.busy \/ saver'.session = page'.session
  OBVIOUS
<1>4. page.session \in Nat /\ page'.session \in Nat
  BY DEF NavigationTypes, PageSound, PageType
<1>5. Generations'
  BY <1>3, <1>4 DEF GroundsInv, Generations
<1>6. SaverSees'
  BY DEF GroundsInv, SaverSees
<1>7. EmptyEditor'
  BY DEF GroundsInv, EmptyEditor
<1>8. NewNotesFresh'
  <2>1. ASSUME NEW n, NEW j \in N!Slots, Unclaimed(n, j) PROVE Unclaimed(n, j)'
    <3>1. n # page'.current /\ n # saver'.note
      BY <2>1 DEF Unclaimed
    <3> QED BY <2>1, <3>1 DEF Unclaimed
  <2>2. ASSUME NEW j \in N!Slots, Stop(tasks[j]) \in {"newSaved", "wikiSaved"}, store[tasks[j].note] = None
        PROVE  Unclaimed(tasks[j].note, j)'
    <3>1. PICK n : n = tasks[j].note
      OBVIOUS
    <3>2. Unclaimed(n, j)
      BY <2>2, <3>1 DEF GroundsInv, NewNotesFresh
    <3>3. Unclaimed(n, j)'
      BY <2>1, <3>2
    <3> QED BY <3>1, <3>3 DEF Unclaimed
  <2>3. \A j \in N!Slots : Stop(tasks[j]) = "newSaved" => store[tasks[j].note] = None
    BY DEF GroundsInv, NewNotesFresh
  <2> QED BY <2>2, <2>3 DEF NewNotesFresh, Unclaimed, Stop
<1>9. NoAddressYet'
  BY DEF GroundsInv, NoAddressYet
<1>10. Starting'
  BY DEF GroundsInv, Starting, Stop
<1> QED BY <1>1, <1>2, <1>5, <1>6, <1>7, <1>8, <1>9, <1>10 DEF GroundsInv

(* The same screen at the same address.                                      *)
LEMMA SameScreen ==
  ASSUME ScreenInv, page'.gaps = {} => page.gaps = {}, SameLook(page, page'),
         N!Here(page') = N!Here(page), page'.current = page.current, page'.saved = page.saved,
         page.dirty => page'.dirty, page'.travel = page.travel, page'.generation = page.generation,
         page'.answered = page.answered, tasks' = tasks, store' = store
  PROVE  ScreenInv'
<1> SUFFICES ASSUME page'.gaps = {}
             PROVE  NotesInEditor' /\ (page'.answered => LatestFits' /\ RightOrDue')
  BY DEF ScreenInv
<1>1. NotesInEditor /\ (page.answered => LatestFits /\ RightOrDue)
  BY DEF ScreenInv
<1>2. NotesInEditor'
  BY <1>1 DEF NotesInEditor, N!Editing, SameLook
<1>3. BackDue' = BackDue
  BY DEF BackDue
<1>4. ASSUME page.answered PROVE LatestFits'
  <2>1. ASSUME NEW j \in N!Slots, tasks'[j].gen = page'.generation
        PROVE  FitsAfter(tasks'[j])
    <3>1. Fits(tasks[j], page)
      BY <1>1, <1>4, <2>1 DEF LatestFits
    <3> QED BY <1>3, <3>1, FitsKept DEF SameLook
  <2> QED BY <2>1, AfterFits
<1>5. ASSUME page.answered PROVE RightOrDue'
  <2>1. Unaddressed(page) => Unaddressed(page)'
    BY DEF Unaddressed, N!Editing, SameLook
  <2>2. Addressed(page) => Addressed(page)'
    BY DEF Addressed, N!Editing, N!Here, SameLook
  <2>3. FirstSaveDue => FirstSaveDue'
    BY DEF FirstSaveDue, N!Editing, SameLook
  <2>4. N!RestoreUnderWay => N!RestoreUnderWay'
    BY DEF N!RestoreUnderWay
  <2>5. OpeningDue => OpeningDue'
    BY DEF OpeningDue, Stop
  <2> QED BY <1>1, <1>3, <1>5, <2>1, <2>2, <2>3, <2>4, <2>5 DEF RightOrDue, Right
<1> QED BY <1>2, <1>4, <1>5

LEMMA TypeKeepsScreen ==
  ASSUME NavigationInv, N!Type
  PROVE  GroundsInv' /\ ScreenInv'
<1>1. NavigationTypes /\ GroundsInv /\ ScreenInv
  BY DEF NavigationInv
<1>2. /\ PageSound(page') /\ SameLook(page, page') /\ SameRoute(page, page') /\ SameRun(page, page')
      /\ page'.gaps = page.gaps /\ page'.current = page.current /\ page'.session = page.session
      /\ page'.saved = page.saved /\ page'.dirty
      /\ tasks' = tasks /\ saver' = saver /\ store' = store
      /\ page.current # None
  BY <1>1, TypePage
<1>3. GroundsInv'
  BY <1>1, <1>2, PageKeepsGrounds DEF SameRoute, SameRun, SameLook
<1>4. N!Here(page') = N!Here(page)
  BY <1>2 DEF N!Here, SameRoute
<1> QED BY <1>1, <1>2, <1>3, <1>4, SameScreen DEF SameRun

LEMMA AutoSaveKeepsScreen ==
  ASSUME NavigationInv, N!AutoSave
  PROVE  GroundsInv' /\ ScreenInv'
<1>1. NavigationTypes /\ GroundsInv /\ ScreenInv /\ PageSound(page) /\ saver \in SaverType
  BY DEF NavigationInv, NavigationTypes
<1>2. page' = [page EXCEPT !.timer = FALSE]
  BY DEF N!AutoSave
<1>3. /\ PageSound(page') /\ SameEdit(page, page') /\ SameLook(page, page') /\ SameRoute(page, page')
      /\ SameRun(page, page') /\ page'.gaps = page.gaps
  BY <1>1, <1>2 DEF PageSound, PageType, SameEdit, SameLook, SameRoute, SameRun
<1>4. PICK s : s = N!Save(page)
  OBVIOUS
<1>5. \/ saver.busy /\ s.note = saver.note /\ s.session = saver.session /\ s.text = saver.text
      \/ s.note = page.current /\ s.session = page.session /\ s.text = page.text
  BY <1>1, <1>4, SaveCalled
<1>6. saver' \in {saver, s} /\ tasks' = tasks /\ store' = store
  BY <1>4 DEF N!AutoSave
<1>7. GroundsInv'
  BY <1>1, <1>3, <1>5, <1>6, PageKeepsGrounds DEF SameEdit, SameLook, SameRoute, SameRun
<1>8. N!Here(page') = N!Here(page)
  BY <1>3 DEF N!Here, SameRoute
<1> QED BY <1>1, <1>3, <1>6, <1>7, <1>8, SameScreen DEF SameEdit, SameRun

LEMMA ClosePreferencesKeepsScreen ==
  ASSUME NavigationInv, N!ClosePreferences
  PROVE  GroundsInv' /\ ScreenInv'
<1>1. NavigationTypes /\ GroundsInv /\ ScreenInv /\ PageSound(page)
  BY DEF NavigationInv, NavigationTypes
<1>2. tasks' = tasks /\ saver' = saver /\ store' = store /\ page.prefsOpen /\ page.travel = 0
  BY DEF N!ClosePreferences
<1>3. \/ page' = [page EXCEPT !.travel = 1]
      \/ N!Here(page).screen # "preferences" /\ page' = [page EXCEPT !.prefsOpen = FALSE]
  <2>1. page.travel + 1 = 1
    BY <1>2
  <2> QED BY <2>1 DEF N!ClosePreferences
<1>4. /\ PageSound(page') /\ SameEdit(page, page') /\ SameRoute(page, page') /\ page'.screen = page.screen
      /\ page'.generation = page.generation /\ page'.answered = page.answered /\ page'.gaps = page.gaps
      /\ \/ page'.travel > 0 /\ page'.prefsOpen = page.prefsOpen
         \/ N!Here(page).screen # "preferences" /\ page'.travel = page.travel /\ ~page'.prefsOpen
  <2>1. CASE page' = [page EXCEPT !.travel = 1]
    BY <1>1, <2>1 DEF PageSound, PageType, SameEdit, SameRoute
  <2>2. CASE N!Here(page).screen # "preferences" /\ page' = [page EXCEPT !.prefsOpen = FALSE]
    BY <1>1, <2>2 DEF PageSound, PageType, SameEdit, SameRoute
  <2> QED BY <1>3, <2>1, <2>2
<1>5. GroundsInv'
  BY <1>1, <1>2, <1>4, PageKeepsGrounds DEF SameEdit, SameRoute
<1>6. N!Here(page') = N!Here(page)
  BY <1>4 DEF N!Here, SameRoute
<1>7. NotesInEditor => NotesInEditor'
  BY <1>4 DEF NotesInEditor, N!Editing, SameEdit
<1>8. BackDue' = BackDue
  BY <1>2 DEF BackDue
<1>9. LatestFits => LatestFits'
  <2> SUFFICES ASSUME LatestFits, NEW j \in N!Slots, tasks'[j].gen = page'.generation
               PROVE  FitsAfter(tasks'[j])
    BY AfterFits
  <2>1. Fits(tasks[j], page)
    BY <1>2, <1>4 DEF LatestFits
  <2>2. page.travel > 0 => page'.travel > 0
    BY <1>2
  <2> QED BY <1>2, <1>4, <1>6, <1>8, <2>1, <2>2, FitsKept DEF SameEdit
<1>10. RightOrDue => RightOrDue'
  <2>1. CASE page'.travel > 0
    BY <2>1 DEF RightOrDue
  <2>2. CASE N!Here(page).screen # "preferences" /\ page'.travel = page.travel
    <3>1. ~Addressed(page)
      BY <1>2, <2>2 DEF Addressed
    <3>2. Unaddressed(page) => Unaddressed(page)'
      BY <1>2, <1>4 DEF Unaddressed, N!Editing, SameEdit
    <3>3. FirstSaveDue => FirstSaveDue'
      BY <1>4 DEF FirstSaveDue, N!Editing, SameEdit
    <3>4. N!RestoreUnderWay => N!RestoreUnderWay'
      BY <1>2, <1>4 DEF N!RestoreUnderWay
    <3>5. OpeningDue => OpeningDue'
      BY <1>2 DEF OpeningDue, Stop
    <3> QED BY <1>8, <2>2, <3>1, <3>2, <3>3, <3>4, <3>5 DEF RightOrDue, Right
  <2> QED BY <1>4, <2>1, <2>2
<1> QED BY <1>1, <1>4, <1>5, <1>7, <1>9, <1>10 DEF ScreenInv

LEMMA TravelKeepsScreen ==
  ASSUME NavigationInv, N!Travel
  PROVE  GroundsInv' /\ ScreenInv'
<1>1. NavigationTypes /\ GroundsInv /\ PageSound(page)
  BY DEF NavigationInv, NavigationTypes
<1>2. PICK k \in Nat : k = page.travel - 1
  BY <1>1 DEF N!Travel, PageSound, PageType
<1>3. PICK p : p = [page EXCEPT !.travel = k]
  OBVIOUS
<1>4. SamePage(p) /\ p.at = page.at /\ p.answered = page.answered
  BY <1>1, <1>3 DEF SamePage, PageSound, PageType, SameEdit, SameLook
<1>5. store' = store
  BY DEF N!Travel
<1>6. IF p.at = 1 THEN page' = N!Gap(p, "left") /\ UNCHANGED <<tasks, saver, lost>>
      ELSE N!PopState([p EXCEPT !.at = @ - 1])
  BY <1>2, <1>3 DEF N!Travel
<1>7. CASE p.at = 1
  <2>1. "left" \in Passes /\ PageSound(p)
    BY <1>4 DEF Passes, SamePage
  <2>2. /\ PageSound(page') /\ SameEdit(p, page') /\ SameLook(p, page') /\ SameRoute(p, page')
        /\ SameRun(p, page') /\ page'.gaps # {}
    BY <1>6, <1>7, <2>1, GapNoted
  <2>3. /\ SameEdit(page, page') /\ page'.screen = page.screen /\ page'.stack = page.stack
        /\ page'.generation = page.generation /\ page'.answered = page.answered
    BY <1>4, <2>2 DEF SamePage, SameEdit, SameLook, SameRoute, SameRun
  <2>4. tasks' = tasks /\ saver' = saver
    BY <1>6, <1>7
  <2>5. GroundsInv'
    BY <1>1, <1>5, <2>2, <2>3, <2>4, PageKeepsGrounds DEF SameEdit
  <2> QED BY <2>2, <2>5 DEF ScreenInv
<1>8. CASE p.at # 1
  <2>1. PICK j \in 1 .. Len(page.stack) : j = page.at - 1
    BY <1>1, <1>4, <1>8, LenProperties DEF PageSound, PageType
  <2>2. PICK q : q = [p EXCEPT !.at = j]
    OBVIOUS
  <2>3. SamePage(q) /\ q.answered = page.answered
    <3>1. j \in Nat
      BY <1>1, LenProperties DEF PageSound, PageType
    <3> QED BY <1>1, <1>4, <2>2, <3>1 DEF SamePage, PageSound, PageType, SameEdit, SameLook
  <2>4. N!PopState(q)
    BY <1>4, <1>6, <1>8, <2>1, <2>2
  <2> QED BY <1>5, <2>3, <2>4, PopStateKeepsScreen
<1> QED BY <1>7, <1>8

LEMMA OpenPreferencesKeepsScreen ==
  ASSUME NavigationInv, N!OpenPreferences
  PROVE  GroundsInv' /\ ScreenInv'
<1>1. NavigationTypes /\ GroundsInv /\ ScreenInv /\ PageSound(page)
  BY DEF NavigationInv, NavigationTypes
<1>2. store' = store /\ page.screen # "none"
  BY DEF N!OpenPreferences
<1>3. CASE N!Begin(N!Saving(N!Idle, "prefsSaved", page))
  <2>1. PICK t : t = N!Idle
    OBVIOUS
  <2>2. t \in TaskType /\ t.pc = "idle" /\ t.gen = 0 /\ t.note = None /\ ~t.prefs
    BY <2>1, IdleSound DEF N!Idle
  <2>3. PICK s \in {"backSaved", "prefsSaved", "newSaved", "wikiSaved"} : s = "prefsSaved"
    OBVIOUS
  <2>4. Shape(t, s)
    BY <2>2, <2>3 DEF Shape, OtherStops
  <2>5. PICK p : p = page
    OBVIOUS
  <2>6. PICK o : o = N!Saving(t, s, p)
    OBVIOUS
  <2>7. N!Begin(o)
    BY <1>3, <2>1, <2>3, <2>5, <2>6
  <2> QED BY <1>2, <2>2, <2>3, <2>4, <2>5, <2>6, <2>7, QuietBeginsScreen
<1>4. CASE /\ page' = N!Beside([N!SetPreferences(page, FALSE) EXCEPT !.prefsOpen = TRUE])
           /\ UNCHANGED <<tasks, saver, lost>>
  <2>1. PICK b \in BOOLEAN : b = FALSE
    OBVIOUS
  <2>2. PICK q : q = [N!SetPreferences(page, b) EXCEPT !.prefsOpen = TRUE]
    OBVIOUS
  <2>3. Over(page, q)
    BY <1>1, <2>2, PreferencesOver
  <2>4. PageSound(q) /\ \A k \in 1 .. Len(q.stack) :
                          \E j \in 1 .. Len(page.stack) : q.stack[k].note = page.stack[j].note
    <3>1. PICK u : u = N!SetPreferences(page, b)
      OBVIOUS
    <3>2. PageSound(u) /\ StackFrom(page, u, N!Here(page).note)
      BY <1>1, <3>1, PreferencesSet
    <3>3. PICK open \in BOOLEAN : open = TRUE
      OBVIOUS
    <3>4. PageSound(q) /\ SameRoute(u, q)
      <4>1. q = [u EXCEPT !.prefsOpen = TRUE]
        BY <2>2, <3>1
      <4>2. q = [u EXCEPT !.prefsOpen = open]
        BY <3>3, <4>1
      <4> QED BY <3>2, <4>2, PreferencesShown
    <3>5. page.at \in 1 .. Len(page.stack)
      BY <1>1 DEF PageSound
    <3> QED BY <3>2, <3>4, <3>5 DEF StackFrom, SameRoute, N!Here
  <2>5. page' = N!Beside(q) /\ tasks' = tasks /\ saver' = saver
    BY <1>4, <2>1, <2>2
  <2>6. /\ PageSound(page') /\ SameEdit(q, page') /\ SameLook(q, page') /\ SameRoute(q, page')
        /\ SameRun(q, page') /\ (page' = q \/ page'.gaps # {}) /\ (N!RestoreUnderWay => page'.gaps # {})
    <3>1. "beside a restore" \in Passes
      BY DEF Passes
    <3>2. CASE N!RestoreUnderWay
      BY Zenon, <2>4, <2>5, <3>1, <3>2, GapNoted DEF N!Beside
    <3>3. CASE ~N!RestoreUnderWay
      BY <2>4, <2>5, <3>3 DEF N!Beside, SameEdit, SameLook, SameRoute, SameRun
    <3> QED BY <3>2, <3>3
  <2>7. GroundsInv'
    <3>1. /\ SameEdit(page, page') /\ page'.screen = page.screen /\ SameRun(page, page')
      BY <2>3, <2>6 DEF Over, SameEdit, SameLook, SameRun
    <3> QED BY <1>1, <1>2, <2>4, <2>5, <2>6, <3>1, PageKeepsGrounds DEF SameEdit, SameRoute, SameRun
  <2>8. ASSUME page'.gaps = {} PROVE NotesInEditor' /\ (page'.answered => ViewDone)
    <3>1. page' = q /\ ~N!RestoreUnderWay /\ page.gaps = {}
      BY <2>3, <2>6, <2>8 DEF Over
    <3>2. NotesInEditor /\ (page.answered => RightOrDue)
      BY <1>1, <3>1 DEF ScreenInv
    <3>3. NotesInEditor'
      BY <2>3, <3>1, <3>2 DEF NotesInEditor, N!Editing, Over, SameEdit
    <3>4. LatestFits'
      BY <2>3, <2>5, <3>1, AfterFits DEF Over, SameRun, N!RestoreUnderWay
    <3>5. RightOrDue => RightOrDue'
      <4>1. Unaddressed(page) => Unaddressed(page)'
        BY <1>2, <2>3, <3>1 DEF Unaddressed, N!Editing, Over, SameEdit
      <4>2. Addressed(page) => Addressed(page)'
        BY <2>3, <3>1 DEF Addressed, N!Editing, N!Here, Over, SameEdit
      <4>3. FirstSaveDue => FirstSaveDue'
        BY <2>3, <3>1 DEF FirstSaveDue, N!Editing, Over, SameEdit
      <4>4. BackDue => BackDue'
        BY <2>5 DEF BackDue
      <4>5. OpeningDue => OpeningDue'
        BY <2>5 DEF OpeningDue, Stop
      <4>6. page'.travel = page.travel
        BY <2>3, <3>1 DEF Over, SameRun
      <4> QED BY <3>1, <4>1, <4>2, <4>3, <4>4, <4>5, <4>6 DEF RightOrDue, Right
    <3>6. page'.answered = page.answered
      BY <2>3, <3>1 DEF Over, SameRun
    <3> QED BY <3>2, <3>3, <3>4, <3>5, <3>6 DEF ViewDone
  <2> QED BY <2>7, <2>8 DEF ScreenInv, ViewDone
<1> QED BY <1>3, <1>4 DEF N!OpenPreferences

LEMMA NewNoteKeepsScreen ==
  ASSUME NavigationInv, NEW n \in N!AllNotes, N!NewNote(n)
  PROVE  GroundsInv' /\ ScreenInv'
<1>1. NavigationTypes /\ GroundsInv /\ PageSound(page)
  BY DEF NavigationInv, NavigationTypes
<1>2. /\ PageSound(page') /\ page'.session = page.session + 1 /\ page'.current = n /\ page'.text = 0
      /\ ~page'.dirty /\ page'.saved = N!Nothing /\ page'.screen = "editor"
      /\ page'.stack = page.stack /\ page'.generation = page.generation + 1
      /\ tasks' = tasks /\ saver' = saver /\ store' = store
  BY <1>1, NewNotePage DEF SameRoute
<1>3. /\ n \in NewNotes /\ store[n] = None /\ n # page.current /\ n # saver.note
      /\ \A i \in N!Slots : tasks[i].note # n
  BY DEF N!NewNote, N!Unused
<1>4. n # None /\ n \notin Notes
  BY <1>3, NavigationAssumption
<1>5. page.session \in Nat /\ page.generation \in Nat /\ page.screen = "dashboard"
  BY <1>1 DEF PageSound, PageType, N!NewNote
<1>6. FirstSave'
  BY <1>2, <1>4 DEF FirstSave
<1>7. KnownNotes'
  <2>1. KnownNotes
    BY <1>1 DEF GroundsInv
  <2> QED BY <1>2, <2>1 DEF KnownNotes, Known
<1>8. \A j \in N!Slots : tasks[j].gen \in Nat /\ tasks[j].gen <= page.generation
  <2> SUFFICES ASSUME NEW j \in N!Slots PROVE tasks[j].gen \in Nat /\ tasks[j].gen <= page.generation
    OBVIOUS
  <2>1. TaskSound(tasks[j])
    BY <1>1 DEF NavigationTypes
  <2> QED BY <1>1, <2>1 DEF TaskSound, TaskType, GroundsInv, Generations
<1>9. saver.session \in Nat /\ (saver.busy => saver.session <= page.session)
  BY <1>1 DEF GroundsInv, Generations, NavigationTypes, SaverType
<1>10. Generations'
  <2>1. page'.generation # 0
    BY <1>2, <1>5
  <2>2. \A j \in N!Slots : tasks'[j].gen <= page'.generation
    BY <1>2, <1>5, <1>8
  <2>3. \A i \in N!Slots : tasks'[i].gen # 0 => \A j \in N!Slots : j # i => tasks'[j].gen # tasks'[i].gen
    BY <1>1, <1>2 DEF GroundsInv, Generations
  <2>4. saver'.busy => saver'.session <= page'.session
    BY <1>2, <1>5, <1>9
  <2> QED BY <2>1, <2>2, <2>3, <2>4 DEF Generations
<1>11. SaverSees'
  BY <1>2, <1>3, <1>5, <1>9 DEF SaverSees
<1>12. EmptyEditor'
  BY <1>2, <1>4 DEF EmptyEditor
<1>13. NewNotesFresh'
  <2>1. \A j \in N!Slots : Stop(tasks[j]) = "newSaved" => store[tasks[j].note] = None
    BY <1>1 DEF GroundsInv, NewNotesFresh
  <2>2. ASSUME NEW j \in N!Slots, Stop(tasks[j]) \in {"newSaved", "wikiSaved"}, store[tasks[j].note] = None
        PROVE  /\ tasks[j].note # n /\ tasks[j].note # saver.note /\ tasks[j].note \notin Notes
               /\ \A k \in N!Slots : k # j => tasks[k].note # tasks[j].note
    <3>1. Unclaimed(tasks[j].note, j)
      BY <1>1, <2>2 DEF GroundsInv, NewNotesFresh
    <3> QED BY <1>3, <3>1 DEF Unclaimed
  <2> QED BY <1>2, <2>1, <2>2 DEF NewNotesFresh, Unclaimed, Stop
<1>14. NoAddressYet'
  <2>1. \A k \in 1 .. Len(page.stack) : Known(page.stack[k].note)
    BY <1>1 DEF GroundsInv, KnownNotes
  <2>2. \A k \in 1 .. Len(page.stack) : page.stack[k].note # n
    BY <1>3, <1>4, <2>1 DEF Known
  <2> QED BY <1>2, <2>2 DEF NoAddressYet
<1>15. Starting'
  <2>1. \A j \in N!Slots : tasks'[j].gen # page'.generation
    BY <1>2, <1>5, <1>8
  <2> QED BY <1>2, <2>1 DEF Starting
<1>16. GroundsInv'
  BY <1>6, <1>7, <1>10, <1>11, <1>12, <1>13, <1>14, <1>15 DEF GroundsInv
<1>17. NotesInEditor'
  BY <1>2 DEF NotesInEditor, N!Editing
<1>18. LatestFits'
  BY <1>2, <1>5, <1>8, AfterFits
<1>19. RightOrDue'
  <2>1. Unaddressed(page)'
    BY <1>2, <1>3, <1>4 DEF Unaddressed, N!Editing
  <2> QED BY <2>1 DEF RightOrDue, Right
<1> QED BY <1>16, <1>17, <1>18, <1>19 DEF ScreenInv

(* A round of the note saver.                                                *)
RoundDone(ok) ==
  /\ saver.busy /\ PageSound(page) /\ PageSound(page')
  /\ page'.current = page.current /\ page'.session = page.session /\ page'.text = page.text
  /\ SameLook(page, page') /\ SameRun(page, page') /\ page.gaps \subseteq page'.gaps
  /\ \/ RoundUnchanged /\ ~page'.dirty /\ page'.saved = page.saved /\ SameRoute(page, page')
     \/ ~N!SnapshotIsCurrent /\ page' = page
     \/ N!SnapshotIsCurrent /\ ~RoundUnchanged /\ ok /\ page' = N!Persisted(page)
     \/ N!SnapshotIsCurrent /\ page'.dirty = page.dirty /\ page'.saved = page.saved /\ SameRoute(page, page')
  /\ store' = [n \in N!AllNotes |->
       IF ok /\ ~RoundUnchanged /\ n = saver.note THEN saver.text ELSE store[n]]
  /\ saver' = N!Snapshot(page', FALSE) \/ saver' = N!Rested

LEMMA RoundIsDone ==
  ASSUME NavigationTypes, NEW ok \in BOOLEAN, N!SaveRound(ok)
  PROVE  RoundDone(ok)
<1>1. PageSound(page)
  BY DEF NavigationTypes
<1> QED BY Zenon, <1>1, SaveRoundParts DEF RoundDone

(* The notes a round leaves: those there were, and the one it saved.         *)
LEMMA RoundStore ==
  ASSUME NavigationTypes, NEW ok \in BOOLEAN, RoundDone(ok), NEW n \in NoteOrNone
  PROVE  /\ Known(n) => Still(n)
         /\ n \in N!AllNotes /\ store[n] # None => store'[n] # None
         /\ n \in N!AllNotes /\ n # saver.note => store'[n] = store[n]
         /\ n \in N!AllNotes /\ RoundUnchanged => store'[n] = store[n]
<1>1. saver.text # None
  <2>1. saver.text \in Nat
    BY DEF NavigationTypes, SaverType
  <2> QED BY <2>1, ClientAssumption
<1>2. n \in N!AllNotes =>
        store'[n] = IF ok /\ ~RoundUnchanged /\ n = saver.note THEN saver.text ELSE store[n]
  BY DEF RoundDone
<1>3. n = None \/ n \in N!AllNotes
  BY DEF NoteOrNone
<1> QED BY <1>1, <1>2, <1>3 DEF Known, Still

(* A note the round wrote for the session there is, and its address.         *)
LEMMA RoundPersisted ==
  ASSUME NavigationTypes, GroundsInv, NEW ok \in BOOLEAN, RoundDone(ok),
         N!SnapshotIsCurrent, ~RoundUnchanged, ok, page' = N!Persisted(page)
  PROVE  /\ page.current \in N!AllNotes /\ page.current # None /\ store'[page.current] # None
         /\ ~page'.dirty /\ page'.saved \in Nat /\ page'.saved # N!Nothing
         /\ \/ N!URLNote(page) = page.current /\ SameRoute(page, page') /\ N!Here(page') = N!Here(page)
            \/ /\ SameRoute(page, page') /\ N!Here(page') = N!Here(page)
               /\ page'.gaps # {} \/ N!RestoreUnderWay
            \/ /\ N!Here(page') = N!Entry("note", page.current) /\ StackFrom(page, page', page.current)
               /\ page'.gaps # {} \/ (~page.prefsOpen /\ ~N!RestoreUnderWay)
<1>1. PageSound(page) /\ saver.text = page.text /\ saver.note = page.current /\ page.text \in Nat
  BY DEF RoundDone, N!SnapshotIsCurrent, PageSound, PageType
<1>2. page.current # None
  BY <1>1 DEF GroundsInv, EmptyEditor, RoundUnchanged
<1>3. page.current \in N!AllNotes
  BY <1>1, <1>2 DEF PageSound, PageType, NoteOrNone
<1>4. store'[page.current] = page.text
  BY <1>1, <1>3 DEF RoundDone
<1>5. page.text # None
  BY <1>1, ClientAssumption
<1>6. /\ ~page'.dirty /\ page'.saved = page.text
      /\ \/ N!URLNote(page) = page.current /\ SameRoute(page, page') /\ N!Here(page') = N!Here(page)
         \/ /\ SameRoute(page, page') /\ N!Here(page') = N!Here(page)
            /\ page'.gaps # {} \/ N!RestoreUnderWay
         \/ /\ N!Here(page') = N!Entry("note", page.current) /\ StackFrom(page, page', page.current)
            /\ page'.gaps # {} \/ (~page.prefsOpen /\ ~N!RestoreUnderWay)
  BY <1>1, PersistedPage
<1>7. page.text # N!Nothing
  BY <1>1 DEF N!Nothing
<1> QED BY <1>1, <1>2, <1>3, <1>4, <1>5, <1>6, <1>7

(* The tasks after a round: each is where it was, or it is over.             *)
LEMMA RoundTasks ==
  ASSUME NavigationTypes, NEW ok \in BOOLEAN, N!SaveRound(ok), NEW i \in N!Slots
  PROVE  /\ TaskSound(tasks[i]) /\ TaskSound(tasks'[i]) /\ Stop(tasks'[i]) = Stop(tasks[i])
         /\ \/ tasks'[i] = N!Idle /\ tasks'[i].gen = 0 /\ tasks'[i].note = None /\ Stop(tasks[i]) = "idle"
            \/ /\ Carried(tasks[i], tasks'[i]) /\ tasks'[i].gen = tasks[i].gen
               /\ tasks'[i].note = tasks[i].note
         /\ tasks'[i].gen = tasks[i].gen
         /\ tasks[i].pc # "saving" => tasks'[i] = tasks[i]
<1>1. /\ NavigationTypes'
      /\ tasks'[i].pc # "idle" => Carried(tasks[i], tasks'[i])
      /\ Stop(tasks'[i]) = Stop(tasks[i])
      /\ tasks[i].pc # "saving" => tasks'[i] = tasks[i]
  BY SaveRoundTypes
<1>2. TaskSound(tasks[i]) /\ TaskSound(tasks'[i])
  BY <1>1, SameAsItself DEF NavigationTypes, TaskSound, Stop, Shape, TaskType
<1>3. CASE tasks'[i].pc # "idle"
  BY <1>1, <1>2, <1>3 DEF Carried
<1>4. CASE tasks'[i].pc = "idle"
  <2>1. tasks'[i] = N!Idle /\ tasks'[i].gen = 0 /\ tasks'[i].note = None /\ Stop(tasks'[i]) = "idle"
    BY <1>2, <1>4, IdleSound DEF TaskSound, N!Idle
  <2>2. tasks[i].gen = 0
    <3>1. CASE tasks[i].pc = "idle"
      BY <1>2, <3>1 DEF TaskSound, N!Idle
    <3>2. CASE tasks[i].pc # "idle"
      <4>1. Shape(tasks[i], "idle")
        BY <1>1, <1>2, <2>1, <3>2 DEF TaskSound
      <4> QED BY <4>1 DEF Shape, RouterStops
    <3> QED BY <3>1, <3>2
  <2> QED BY <1>1, <1>2, <2>1, <2>2
<1> QED BY <1>3, <1>4

LEMMA RoundKeepsNotes ==
  ASSUME NavigationTypes, GroundsInv, NEW ok \in BOOLEAN, N!SaveRound(ok)
  PROVE  FirstSave' /\ KnownNotes' /\ NoAddressYet' /\ EmptyEditor'
<1>1. RoundDone(ok)
  BY RoundIsDone
<1>2. page.current \in NoteOrNone /\ page'.current = page.current
  BY <1>1 DEF RoundDone, PageSound, PageType
<1>3. \/ /\ page'.saved = page.saved /\ page'.stack = page.stack
         /\ (RoundUnchanged /\ ~page'.dirty) \/ page'.dirty = page.dirty
      \/ N!SnapshotIsCurrent /\ ~RoundUnchanged /\ ok /\ page' = N!Persisted(page)
  BY <1>1 DEF RoundDone, SameRoute
<1>4. N!SnapshotIsCurrent /\ ~RoundUnchanged /\ ok /\ page' = N!Persisted(page) =>
        /\ page.current \in N!AllNotes /\ page.current # None /\ store'[page.current] # None
        /\ page'.saved # N!Nothing
        /\ SameRoute(page, page') \/ StackFrom(page, page', page.current)
  BY <1>1, RoundPersisted
<1>5. FirstSave'
  <2> SUFFICES ASSUME page.current # None, store'[page.current] = None
               PROVE  page.current \notin Notes /\ page'.saved = N!Nothing
    BY <1>2 DEF FirstSave
  <2>1. page.current \in N!AllNotes
    BY <1>2 DEF NoteOrNone
  <2>2. store[page.current] = None
    BY <1>1, <1>2, <2>1, RoundStore
  <2> QED BY <1>3, <1>4, <2>2 DEF GroundsInv, FirstSave
<1>6. KnownNotes'
  <2>1. ASSUME NEW n, n \in NoteOrNone, Known(n) PROVE Still(n)
    BY <1>1, <2>1, RoundStore
  <2>2. ASSUME NEW k \in 1 .. Len(page.stack) PROVE Still(page.stack[k].note)
    <3>1. page.stack[k] \in Entries
      BY <1>1, ElementOfSeq DEF RoundDone, PageSound, PageType
    <3>2. Known(page.stack[k].note)
      BY DEF GroundsInv, KnownNotes
    <3> QED BY <2>1, <3>1, <3>2 DEF Entries
  <2>3. ASSUME NEW k \in 1 .. Len(page'.stack) PROVE Still(page'.stack[k].note)
    <3>1. CASE page'.stack = page.stack
      BY <2>2, <2>3, <3>1
    <3>2. CASE page'.stack # page.stack
      <4>1. store'[page.current] # None /\ StackFrom(page, page', page.current)
        BY <1>3, <1>4, <3>2 DEF SameRoute
      <4>2. \/ page'.stack[k].note = page.current
            \/ \E j \in 1 .. Len(page.stack) : page'.stack[k].note = page.stack[j].note
        BY <2>3, <4>1 DEF StackFrom
      <4> QED BY <2>2, <4>1, <4>2 DEF Still
    <3> QED BY <3>1, <3>2
  <2>4. ASSUME NEW j \in N!Slots, tasks'[j].gen # 0 PROVE Still(tasks'[j].note)
    <3>1. tasks'[j].note = tasks[j].note /\ tasks[j].gen # 0 /\ TaskSound(tasks[j])
      BY <2>4, RoundTasks
    <3>2. Known(tasks[j].note) /\ tasks[j].note \in NoteOrNone
      BY <3>1 DEF GroundsInv, KnownNotes, TaskSound, TaskType
    <3> QED BY <2>1, <3>1, <3>2
  <2> QED BY <2>3, <2>4 DEF KnownNotes, Known, Still
<1>7. NoAddressYet'
  <2> SUFFICES ASSUME page.current # None, page'.saved = N!Nothing, NEW k \in 1 .. Len(page'.stack)
               PROVE  page'.stack[k].note # page.current
    BY <1>2 DEF NoAddressYet
  <2>1. page'.saved = page.saved /\ page'.stack = page.stack
    BY <1>3, <1>4
  <2> QED BY <2>1 DEF GroundsInv, NoAddressYet
<1>8. EmptyEditor'
  <2>1. page'.text = page.text
    BY <1>1 DEF RoundDone
  <2> QED BY <1>2, <1>3, <1>4, <2>1 DEF GroundsInv, EmptyEditor
<1> QED BY <1>5, <1>6, <1>7, <1>8

LEMMA RoundKeepsTasks ==
  ASSUME NavigationTypes, GroundsInv, NEW ok \in BOOLEAN, N!SaveRound(ok)
  PROVE  Generations' /\ SaverSees' /\ NewNotesFresh' /\ Starting'
<1>1. RoundDone(ok)
  BY RoundIsDone
<1>2. /\ page'.generation = page.generation /\ page'.session = page.session
      /\ page'.current = page.current /\ page'.text = page.text
      /\ page'.screen = page.screen /\ page'.answered = page.answered
      /\ page.session \in Nat /\ page.current \in NoteOrNone
  BY <1>1 DEF RoundDone, SameRun, SameLook, PageSound, PageType
<1>3. \/ /\ saver'.busy /\ saver'.note = page.current /\ saver'.session = page.session
         /\ saver'.text = page.text
      \/ ~saver'.busy /\ saver'.note = None
  BY <1>1, <1>2 DEF RoundDone, N!Snapshot, N!Rested
<1>4. \A j \in N!Slots : tasks'[j].gen = tasks[j].gen
  BY RoundTasks
<1>5. Generations'
  BY <1>2, <1>3, <1>4 DEF GroundsInv, Generations
<1>6. SaverSees'
  BY <1>2, <1>3 DEF SaverSees
<1>7. NewNotesFresh'
  <2>1. ASSUME NEW j \in N!Slots, Stop(tasks'[j]) \in {"newSaved", "wikiSaved"}
        PROVE  /\ Stop(tasks[j]) = Stop(tasks'[j]) /\ tasks'[j].note = tasks[j].note
               /\ tasks[j].note \in N!AllNotes /\ tasks[j].note # None
    <3>1. /\ Stop(tasks[j]) = Stop(tasks'[j]) /\ tasks'[j].note = tasks[j].note /\ TaskSound(tasks[j])
      BY <2>1, RoundTasks
    <3>2. tasks[j].pc # "idle"
      BY <2>1, <3>1 DEF Stop
    <3> QED BY <2>1, <3>1, <3>2 DEF TaskSound, Shape, TaskType, NoteOrNone
  <2>2. ASSUME NEW j \in N!Slots, Stop(tasks'[j]) \in {"newSaved", "wikiSaved"}, store'[tasks'[j].note] = None
        PROVE  /\ tasks'[j].note # page'.current /\ tasks'[j].note # saver'.note
               /\ tasks'[j].note \notin Notes
               /\ \A k \in N!Slots : k # j => tasks'[k].note # tasks'[j].note
    <3>1. PICK n : n = tasks[j].note
      OBVIOUS
    <3>2. n \in N!AllNotes /\ n # None /\ tasks'[j].note = n /\ n \in NoteOrNone
      BY <2>1, <2>2, <3>1 DEF NoteOrNone
    <3>3. store[n] = None
      BY <1>1, <2>2, <3>2, RoundStore
    <3>4. Unclaimed(n, j)
      BY <2>1, <2>2, <3>1, <3>3 DEF GroundsInv, NewNotesFresh
    <3>5. ASSUME NEW k \in N!Slots, k # j PROVE tasks'[k].note # n
      <4>1. tasks'[k].note = None \/ tasks'[k].note = tasks[k].note
        BY RoundTasks
      <4> QED BY <3>2, <3>4, <3>5, <4>1 DEF Unclaimed
    <3> QED BY <1>2, <1>3, <3>2, <3>4, <3>5 DEF Unclaimed
  <2>3. ASSUME NEW j \in N!Slots, Stop(tasks'[j]) = "newSaved" PROVE store'[tasks'[j].note] = None
    <3>1. PICK n : n = tasks[j].note
      OBVIOUS
    <3>2. /\ n \in N!AllNotes /\ tasks'[j].note = n /\ n \in NoteOrNone /\ Stop(tasks[j]) = "newSaved"
      BY <2>1, <2>3, <3>1 DEF NoteOrNone
    <3>3. store[n] = None /\ Unclaimed(n, j)
      BY <3>1, <3>2 DEF GroundsInv, NewNotesFresh
    <3>4. store'[n] = store[n]
      BY <1>1, <3>2, <3>3, RoundStore DEF Unclaimed
    <3> QED BY <3>2, <3>3, <3>4
  <2> QED BY <2>2, <2>3 DEF NewNotesFresh, Unclaimed, Stop
<1>8. Starting'
  <2>1. page'.screen = "none" => ~page'.answered
    BY <1>2 DEF GroundsInv, Starting
  <2>2. ASSUME NEW j \in N!Slots, Stop(tasks'[j]) \in {"startRead", "startList"},
               tasks'[j].gen = page'.generation
        PROVE  /\ page'.screen = "none" /\ page'.current = None
               /\ \A k \in N!Slots : k # j => tasks'[k] = N!Idle
    <3>1. Stop(tasks[j]) = Stop(tasks'[j])
      BY RoundTasks
    <3>2. page.screen = "none" /\ page.current = None /\ \A k \in N!Slots : k # j => tasks[k] = N!Idle
      BY <1>2, <1>4, <2>2, <3>1 DEF GroundsInv, Starting
    <3>3. N!Idle.pc # "saving"
      BY DEF N!Idle
    <3>4. \A k \in N!Slots : k # j => tasks'[k] = N!Idle
      BY <3>2, <3>3, RoundTasks
    <3> QED BY <1>2, <3>2, <3>4
  <2> QED BY <2>1, <2>2 DEF Starting, Stop
<1> QED BY <1>5, <1>6, <1>7, <1>8

(* What was under way before the round is under way after it.                *)
LEMMA RoundDues ==
  ASSUME NavigationTypes, NEW ok \in BOOLEAN, N!SaveRound(ok)
  PROVE  /\ N!RestoreUnderWay' = N!RestoreUnderWay
         /\ BackDue => BackDue'
         /\ OpeningDue => OpeningDue'
         /\ page'.travel = page.travel
<1>1. page'.generation = page.generation /\ page'.travel = page.travel
  BY RoundIsDone DEF RoundDone, SameRun
<1>2. \A j \in N!Slots : /\ tasks'[j].gen = tasks[j].gen /\ Stop(tasks'[j]) = Stop(tasks[j])
                         /\ tasks[j].pc # "saving" => tasks'[j] = tasks[j]
  BY RoundTasks
<1>3. N!RestoreUnderWay' = N!RestoreUnderWay
  BY <1>1, <1>2 DEF N!RestoreUnderWay
<1>4. BackDue => BackDue'
  BY <1>2 DEF BackDue
<1>5. OpeningDue => OpeningDue'
  BY <1>2 DEF OpeningDue, Stop
<1> QED BY <1>1, <1>3, <1>4, <1>5

LEMMA RoundKeepsFits ==
  ASSUME NavigationInv, NEW ok \in BOOLEAN, N!SaveRound(ok), page'.gaps = {}, LatestFits
  PROVE  LatestFits'
<1>1. NavigationTypes /\ GroundsInv /\ RoundDone(ok)
  BY RoundIsDone DEF NavigationInv
<1>2. page'.generation = page.generation /\ SameLook(page, page') /\ page'.current = page.current
  BY <1>1 DEF RoundDone, SameRun
<1>3. N!Here(page') = N!Here(page) \/ ~N!RestoreUnderWay
  <2>1. SameRoute(page, page') => N!Here(page') = N!Here(page)
    BY DEF SameRoute, N!Here
  <2>2. \/ SameRoute(page, page')
        \/ N!SnapshotIsCurrent /\ ~RoundUnchanged /\ ok /\ page' = N!Persisted(page)
    BY <1>1 DEF RoundDone, SameRoute
  <2> QED BY <1>1, <2>1, <2>2, RoundPersisted
<1> SUFFICES ASSUME NEW j \in N!Slots, tasks'[j].gen = page'.generation
             PROVE  FitsAfter(tasks'[j])
  BY AfterFits
<1>4. tasks[j].gen = page.generation /\ N!RestoreUnderWay
  BY <1>1, <1>2, RoundTasks DEF N!RestoreUnderWay
<1>5. /\ Stop(tasks'[j]) = Stop(tasks[j]) /\ Carried(tasks[j], tasks'[j])
  <2>1. page.generation # 0
    BY <1>1 DEF GroundsInv, Generations
  <2> QED BY <1>1, <1>2, <2>1, RoundTasks
<1>6. Fits(tasks[j], page)
  BY <1>4 DEF LatestFits
<1>7. Fits(tasks'[j], page)
  BY <1>5, <1>6 DEF Fits, Aimed, Uncovered, Carried
<1>8. BackDue => BackDue'
  BY <1>1, RoundDues
<1>9. page'.travel = page.travel
  BY <1>1, RoundDues
<1> QED BY <1>2, <1>3, <1>4, <1>7, <1>8, <1>9, FitsKept DEF SameLook

LEMMA RoundKeepsRight ==
  ASSUME NavigationInv, NEW ok \in BOOLEAN, N!SaveRound(ok), page'.gaps = {}, NotesInEditor, RightOrDue
  PROVE  RightOrDue'
<1>1. NavigationTypes /\ GroundsInv /\ RoundDone(ok)
  BY RoundIsDone DEF NavigationInv
<1>2. /\ SameLook(page, page') /\ page'.current = page.current /\ page'.text = page.text
      /\ page.current \in NoteOrNone /\ page.at \in 1 .. Len(page.stack)
  BY <1>1 DEF RoundDone, PageSound, PageType
<1>3. /\ N!RestoreUnderWay' = N!RestoreUnderWay
      /\ BackDue => BackDue'
      /\ OpeningDue => OpeningDue'
      /\ page'.travel = page.travel
  BY <1>1, RoundDues
<1>4. N!RestoreUnderWay \/ page.travel > 0 \/ BackDue \/ OpeningDue => RightOrDue'
  BY <1>3 DEF RightOrDue
<1>5. Addressed(page) /\ N!Here(page') = N!Here(page) => Addressed(page)'
  BY <1>2 DEF Addressed, N!Editing, N!Here, SameLook
<1>6. CASE N!SnapshotIsCurrent /\ ~RoundUnchanged /\ ok /\ page' = N!Persisted(page)
  <2>1. /\ page.current # None /\ store'[page.current] # None
        /\ \/ N!URLNote(page) = page.current /\ N!Here(page') = N!Here(page)
           \/ N!RestoreUnderWay
           \/ N!Here(page') = N!Entry("note", page.current) /\ ~page.prefsOpen
    BY <1>1, <1>6, RoundPersisted
  <2>2. CASE N!URLNote(page) = page.current /\ N!Here(page') = N!Here(page)
    <3>1. page.stack[page.at].note = page.current
      BY <2>1, <2>2 DEF N!URLNote, N!Here
    <3>2. page.saved # N!Nothing
      BY <1>1, <1>2, <2>1, <3>1 DEF GroundsInv, NoAddressYet
    <3>3. ~Unaddressed(page) /\ ~FirstSaveDue
      BY <1>1, <3>2 DEF Unaddressed, FirstSaveDue, GroundsInv, FirstSave
    <3> QED BY <1>4, <1>5, <2>2, <3>3 DEF RightOrDue, Right
  <2>3. CASE N!Here(page') = N!Entry("note", page.current) /\ ~page.prefsOpen
    <3>1. N!Here(page').screen = "note" /\ N!Here(page').note = page.current
      BY <2>3 DEF N!Entry
    <3>2. N!Editing(page)
      BY <2>1 DEF NotesInEditor
    <3>3. page'.screen = page.screen /\ ~page'.prefsOpen
      BY <1>2, <2>3 DEF SameLook
    <3>4. Addressed(page)'
      BY <1>2, <2>1, <3>1, <3>2, <3>3 DEF Addressed, N!Editing, N!Here
    <3> QED BY <3>4 DEF RightOrDue, Right
  <2> QED BY <1>4, <2>1, <2>2, <2>3
<1>7. CASE ~(N!SnapshotIsCurrent /\ ~RoundUnchanged /\ ok /\ page' = N!Persisted(page))
  <2>1. /\ page'.saved = page.saved /\ SameRoute(page, page')
        /\ RoundUnchanged \/ page'.dirty = page.dirty
    BY <1>1, <1>7 DEF RoundDone, SameRoute
  <2>2. N!Here(page') = N!Here(page)
    BY <2>1 DEF N!Here, SameRoute
  <2>3. RoundUnchanged => page.saved # N!Nothing
    <3>1. saver.text \in Nat
      BY <1>1 DEF NavigationTypes, SaverType
    <3> QED BY <3>1 DEF RoundUnchanged, N!Nothing
  <2>4. FirstSaveDue => FirstSaveDue'
    BY <1>2, <2>1, <2>3 DEF FirstSaveDue, N!Editing, SameLook
  <2>5. Unaddressed(page) => Unaddressed(page)' \/ FirstSaveDue'
    <3> SUFFICES ASSUME Unaddressed(page), ~Unaddressed(page)' PROVE FirstSaveDue'
      OBVIOUS
    <3>1. page.current # None /\ store[page.current] = None /\ N!Editing(page)
      BY DEF Unaddressed
    <3>2. store'[page.current] # None
      BY <1>2, <3>1 DEF Unaddressed, N!Editing, SameLook
    <3>3. page.current \in N!AllNotes
      BY <1>2, <3>1 DEF NoteOrNone
    <3>4. page.current = saver.note /\ ok /\ ~RoundUnchanged /\ saver.busy
      BY <1>1, <3>1, <3>2, <3>3 DEF RoundDone
    <3>5. ~N!SnapshotIsCurrent \/ page' # N!Persisted(page)
      BY <1>7, <3>4
    <3>6. page.saved = N!Nothing
      BY <1>1, <3>1 DEF GroundsInv, FirstSave
    <3>7. saver.session = page.session
      BY <1>1, <3>1, <3>4 DEF GroundsInv, SaverSees
    <3>8. saver.text = page.text \/ page.dirty
      BY <1>1, <3>4, <3>7 DEF GroundsInv, SaverSees
    <3>9. CASE page.dirty
      BY <2>4, <3>1, <3>6, <3>9 DEF FirstSaveDue
    <3>10. CASE ~page.dirty
      <4>1. N!SnapshotIsCurrent
        BY <3>4, <3>7, <3>8, <3>10 DEF N!SnapshotIsCurrent
      <4>2. page' = RoundPage(ok)
        BY Zenon, <1>1, SaveRoundParts
      <4> QED BY <3>4, <3>5, <4>1, <4>2 DEF RoundPage
    <3> QED BY <3>9, <3>10
  <2> QED BY <1>4, <1>5, <2>2, <2>4, <2>5 DEF RightOrDue, Right
<1> QED BY <1>6, <1>7

LEMMA SaveRoundKeepsScreen ==
  ASSUME NavigationInv, NEW ok \in BOOLEAN, N!SaveRound(ok)
  PROVE  GroundsInv' /\ ScreenInv'
<1>1. NavigationTypes /\ GroundsInv /\ ScreenInv /\ RoundDone(ok)
  BY RoundIsDone DEF NavigationInv
<1>2. GroundsInv'
  BY <1>1, RoundKeepsNotes, RoundKeepsTasks DEF GroundsInv
<1>3. ASSUME page'.gaps = {} PROVE NotesInEditor' /\ (page'.answered => ViewDone)
  <2>1. page.gaps = {} /\ page'.answered = page.answered /\ SameLook(page, page') /\ page'.current = page.current
    BY <1>1, <1>3 DEF RoundDone, SameRun
  <2>2. NotesInEditor /\ (page.answered => LatestFits /\ RightOrDue)
    BY <1>1, <2>1 DEF ScreenInv
  <2>3. NotesInEditor'
    BY <2>1, <2>2 DEF NotesInEditor, N!Editing, SameLook
  <2>4. page.answered => LatestFits' /\ RightOrDue'
    BY <1>3, <2>2, RoundKeepsFits, RoundKeepsRight
  <2> QED BY <2>1, <2>3, <2>4 DEF ViewDone
<1> QED BY <1>2, <1>3 DEF ScreenInv, ViewDone

-----------------------------------------------------------------------------
(* The screen, from the opening of the page on.                              *)
LEMMA NavigationInitScreen ==
  ASSUME N!Init
  PROVE  NavigationInv
<1>1. NavigationTypes
  BY NavigationInitTyped DEF EditInv
<1>2. PICK stack \in N!Openings :
        /\ page = [stack |-> stack, at |-> Len(stack), travel |-> 0, generation |-> 1,
                   restoring |-> FALSE, screen |-> "none", prefsOpen |-> FALSE,
                   current |-> None, session |-> 0, text |-> 0, saved |-> 0, dirty |-> FALSE,
                   timer |-> FALSE, failed |-> FALSE, late |-> FALSE, answered |-> FALSE,
                   gaps |-> {}]
        /\ LET n == N!Here([stack |-> stack, at |-> Len(stack)])
               note == IF n.screen = "note" THEN n.note ELSE None
               t == [N!Begun(note, IF note = None THEN "startList" ELSE "startRead") EXCEPT !.gen = 1]
           IN  tasks = [i \in N!Slots |-> IF i = 1 THEN t ELSE N!Idle]
  BY DEF N!Init
<1>3. /\ page.stack = stack /\ page.at = Len(stack) /\ page.generation = 1 /\ page.screen = "none"
      /\ page.current = None /\ page.text = 0 /\ page.saved = 0 /\ ~page.dirty /\ ~page.answered
  BY <1>2
<1>4. \A k \in 1 .. Len(page.stack) : Known(page.stack[k].note)
  <2>1. PICK d : d = N!DashboardEntry
    OBVIOUS
  <2>2. d.note = None
    BY <2>1 DEF N!DashboardEntry, N!Entry
  <2>3. CASE stack = <<d>>
    BY <1>3, <2>2, <2>3 DEF Known
  <2>4. CASE \E e \in {N!Entry("note", n) : n \in Notes} \cup {N!Entry("preferences", None)} : stack = <<d, e>>
    <3>1. PICK e : stack = <<d, e>> /\ (e.note \in Notes \/ e.note = None)
      BY <2>4 DEF N!Entry
    <3>2. Len(stack) = 2 /\ stack[1] = d /\ stack[2] = e
      BY <3>1
    <3> QED BY <1>3, <2>2, <3>1, <3>2 DEF Known
  <2> QED BY <1>2, <2>1, <2>3, <2>4 DEF N!Openings
<1>5. PICK t : /\ t.gen = 1 /\ (t.note = None \/ t.note \in Notes) /\ Stop(t) \in {"startList", "startRead"}
               /\ tasks = [i \in N!Slots |-> IF i = 1 THEN t ELSE N!Idle]
  <2>1. PICK h : h = N!Here([stack |-> stack, at |-> Len(stack)])
    OBVIOUS
  <2>2. h.screen = "note" => h.note \in Notes
    <3>1. h = stack[Len(stack)]
      BY <2>1 DEF N!Here
    <3>2. PICK d : d = N!DashboardEntry
      OBVIOUS
    <3>3. d.screen # "note"
      BY <3>2 DEF N!DashboardEntry, N!Entry
    <3>4. CASE stack = <<d>>
      BY <3>1, <3>3, <3>4
    <3>5. CASE \E e \in {N!Entry("note", n) : n \in Notes} \cup {N!Entry("preferences", None)} : stack = <<d, e>>
      <4>1. PICK e : stack = <<d, e>> /\ (e.screen = "note" => e.note \in Notes)
        BY <3>5 DEF N!Entry
      <4>2. h = e
        BY <3>1, <4>1
      <4> QED BY <4>1, <4>2
    <3> QED BY <1>2, <3>2, <3>4, <3>5 DEF N!Openings
  <2>3. PICK note : note = IF h.screen = "note" THEN h.note ELSE None
    OBVIOUS
  <2>4. PICK pc \in {"startList", "startRead"} : pc = IF note = None THEN "startList" ELSE "startRead"
    OBVIOUS
  <2>5. PICK t : t = [[N!Idle EXCEPT !.note = note, !.pc = pc] EXCEPT !.gen = 1]
    OBVIOUS
  <2>6. t.gen = 1 /\ t.note = note /\ t.pc = pc
    BY <2>5, IdleSound DEF TaskType, N!Idle
  <2>7. tasks = [i \in N!Slots |-> IF i = 1 THEN t ELSE N!Idle]
    BY <1>2, <2>1, <2>3, <2>4, <2>5 DEF N!Begun
  <2>8. Stop(t) = pc
    BY <2>4, <2>6 DEF Stop
  <2> QED BY <2>2, <2>3, <2>4, <2>6, <2>7, <2>8
<1>6. /\ N!Idle.gen = 0 /\ Stop(N!Idle) = "idle"
      /\ \A j \in N!Slots : \/ j = 1 /\ tasks[j] = t
                            \/ j # 1 /\ tasks[j] = N!Idle
  BY <1>5, IdleSound DEF N!Idle
<1>7. saver = N!Rested /\ ~saver.busy
  BY DEF N!Init, N!Rested
<1>8. FirstSave /\ NoAddressYet /\ EmptyEditor /\ SaverSees
  BY <1>3, <1>7 DEF FirstSave, NoAddressYet, EmptyEditor, SaverSees
<1>9. KnownNotes
  <2>1. \A j \in N!Slots : tasks[j].gen # 0 => Known(tasks[j].note)
    BY <1>5, <1>6 DEF Known
  <2> QED BY <1>4, <2>1 DEF KnownNotes
<1>10. Generations
  <2>1. ASSUME NEW j \in N!Slots PROVE tasks[j].gen <= page.generation
    BY <1>3, <1>5, <1>6
  <2>2. ASSUME NEW i \in N!Slots, tasks[i].gen # 0, NEW j \in N!Slots, j # i
        PROVE  tasks[j].gen # tasks[i].gen
    BY <1>6, <2>2
  <2> QED BY <1>3, <1>7, <2>1, <2>2 DEF Generations
<1>11. NewNotesFresh
  <2>1. \A j \in N!Slots : Stop(tasks[j]) \notin {"newSaved", "wikiSaved"}
    BY <1>5, <1>6
  <2> QED BY <2>1 DEF NewNotesFresh
<1>12. Starting
  <2>1. \A i \in N!Slots : Stop(tasks[i]) \in {"startRead", "startList"} =>
                             \A j \in N!Slots : j # i => tasks[j] = N!Idle
    BY <1>6
  <2> QED BY <1>3, <2>1 DEF Starting
<1>13. GroundsInv
  BY <1>8, <1>9, <1>10, <1>11, <1>12 DEF GroundsInv
<1>14. ScreenInv
  BY <1>3 DEF ScreenInv, NotesInEditor
<1> QED BY <1>1, <1>13, <1>14 DEF NavigationInv

LEMMA NavigationNextKeepsScreen ==
  ASSUME NavigationInv, N!Next
  PROVE  GroundsInv' /\ ScreenInv'
<1>1. ASSUME NEW i \in N!Slots, N!Proceed(i) PROVE GroundsInv' /\ ScreenInv'
  BY <1>1, ProceedKeepsScreen
<1>2. ASSUME NEW i \in N!Slots, N!Fetched(i) PROVE GroundsInv' /\ ScreenInv'
  BY <1>2, FetchedKeepsScreen
<1>3. ASSUME NEW ok \in BOOLEAN, N!SaveRound(ok) PROVE GroundsInv' /\ ScreenInv'
  BY <1>3, SaveRoundKeepsScreen
<1>4. ASSUME NEW d \in {-1, 1}, N!Move(d) PROVE GroundsInv' /\ ScreenInv'
  BY <1>4, MoveKeepsScreen
<1>5. CASE N!Travel \/ N!BackButton \/ N!OpenPreferences \/ N!ClosePreferences \/ N!ServerAnswers
  BY <1>5, TravelKeepsScreen, BackButtonKeepsScreen, OpenPreferencesKeepsScreen,
     ClosePreferencesKeepsScreen, ServerAnswersKeepsScreen
<1>6. ASSUME NEW n \in N!AllNotes, N!ClickNote(n) PROVE GroundsInv' /\ ScreenInv'
  BY <1>6, ClickNoteKeepsScreen
<1>7. ASSUME NEW n \in N!AllNotes, N!ClickLink(n) PROVE GroundsInv' /\ ScreenInv'
  BY <1>7, ClickLinkKeepsScreen
<1>8. ASSUME NEW n \in N!AllNotes, N!NewNote(n) PROVE GroundsInv' /\ ScreenInv'
  BY <1>8, NewNoteKeepsScreen
<1>9. ASSUME NEW n \in N!AllNotes, N!NewNoteByShortcut(n) PROVE GroundsInv' /\ ScreenInv'
  BY <1>9, ShortcutKeepsScreen
<1>10. CASE N!Type \/ N!AutoSave
  BY <1>10, TypeKeepsScreen, AutoSaveKeepsScreen
<1> QED BY <1>1, <1>2, <1>3, <1>4, <1>5, <1>6, <1>7, <1>8, <1>9, <1>10 DEF N!Next

(* With nothing under way, what the screen waits for is nothing.             *)
LEMMA QuietIsRight ==
  ASSUME NavigationInv
  PROVE  N!ScreenFollowsRoute
<1> SUFFICES ASSUME N!Quiet, page.gaps = {} PROVE Right(page)
  BY DEF N!ScreenFollowsRoute, Right, Unaddressed, Addressed
<1>1. NavigationTypes /\ GroundsInv /\ RightOrDue
  BY DEF NavigationInv, ScreenInv, N!Quiet
<1>2. /\ \A j \in N!Slots : tasks[j] = N!Idle
      /\ page.travel = 0 /\ ~page.dirty
  BY DEF N!Quiet
<1>3. N!Idle.gen = 0 /\ N!Idle.pc = "idle" /\ Stop(N!Idle) = "idle"
  BY IdleSound DEF N!Idle
<1>4. ~N!RestoreUnderWay
  BY <1>1, <1>2, <1>3 DEF N!RestoreUnderWay, GroundsInv, Generations
<1>5. ~BackDue /\ ~OpeningDue /\ ~FirstSaveDue
  BY <1>2, <1>3 DEF BackDue, OpeningDue, FirstSaveDue
<1>6. ~(page.travel > 0)
  BY <1>2
<1> QED BY <1>1, <1>4, <1>5, <1>6 DEF RightOrDue

ScreenClient == active = "navigation" => EditInv /\ NavigationInv

(* Once every navigation, save and answer is over, the screen shows what the *)
(* address names, or a new note that has no address yet: whichever of the    *)
(* overlapping navigations came last, no earlier one has the last word       *)
(* (ui/navigation-controller.js; page.gaps lists what the code lets pass).   *)
THEOREM ScreenFollowsRouteHolds == ClientSpec => []ScreenFollowsRoute
<1>1. ClientInit => ScreenClient
  BY NavigationInitTyped, NavigationInitScreen DEF ClientInit, ScreenClient
<1>2. ScreenClient /\ [ClientNext]_vars => ScreenClient'
  <2> SUFFICES ASSUME ScreenClient, [ClientNext]_vars, active' = "navigation"
               PROVE  EditInv' /\ NavigationInv'
    BY DEF ScreenClient
  <2>1. active = "navigation" /\ EditInv /\ NavigationInv
    BY DEF ScreenClient, ClientNext, vars
  <2>2. CASE N!Next
    <3>1. EditInv'
      BY <2>1, <2>2, NavigationNextKeepsEdits
    <3>2. GroundsInv' /\ ScreenInv'
      BY <2>1, <2>2, NavigationNextKeepsScreen
    <3> QED BY <3>1, <3>2 DEF EditInv, NavigationInv
  <2>3. CASE UNCHANGED navigationVars
    <3>1. page' = page /\ tasks' = tasks /\ saver' = saver /\ store' = store /\ lost' = lost /\ used' = used
      BY <2>3 DEF navigationVars
    <3>2. EditInv'
      BY <2>1, <3>1 DEF EditInv, NavigationTypes, TextsBounded, Number, StoreSound,
         OpensKnown, EditsSafe, Edited, Excused, Away, Apart, Passing, Waiting, Covered, LostExcused,
         N!SnapshotIsCurrent
    <3>3. GroundsInv'
      BY <2>1, <3>1 DEF NavigationInv, GroundsInv, FirstSave, KnownNotes, Known, Generations, SaverSees,
         EmptyEditor, NewNotesFresh, Unclaimed, NoAddressYet, Starting, Stop
    <3>4. ScreenInv'
      BY <2>1, <3>1 DEF NavigationInv, ScreenInv, NotesInEditor, N!Editing, LatestFits, Fits, Aimed, Uncovered,
         BackDue, RightOrDue, Right, Unaddressed, Addressed, N!Here, N!RestoreUnderWay, FirstSaveDue,
         OpeningDue, Stop
    <3> QED BY <3>2, <3>3, <3>4 DEF EditInv, NavigationInv
  <2> QED BY <2>1, <2>2, <2>3 DEF ClientNext, vars
<1>3. ScreenClient => ScreenFollowsRoute
  BY QuietIsRight DEF ScreenClient, ScreenFollowsRoute
<1> QED BY <1>1, <1>2, <1>3, PTL DEF ClientSpec
=============================================================================
