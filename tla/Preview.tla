------------------------------ MODULE Preview ------------------------------
\* The Markdown preview beside the editor: the requests to the preview worker,
\* the rendering of its answers (whole, patched, or a batch at a time), the
\* ranges that tie the rendered blocks to the source, and the edits made
\* through the preview: ticking a task, dragging a block, undoing either.
\*
\* A note's text is a sequence of items, each a block of its own with a name
\* and a task box.  An element of the page shows an item; its entry is the
\* position in the source that an edit of the element changes (0: none yet).
EXTENDS Integers, Sequences, FiniteSets

CONSTANTS
    Names,          \* the items notes are written with
    None,           \* absent
    MaxHistory,     \* edits the interactive session can undo (50 in the code)
    Budget          \* how often the environment acts: [types, adopts, opens,
                    \* panels, edits, faults, all |-> Nat]

VARIABLES
    editor,         \* text, dirty, panel
    preview,        \* the page and everything that renders it
    edit,           \* history, drag, and whether an edit ever missed its item
    uses            \* what the environment has done, against Budget

previewVars == <<editor, preview, edit, uses>>

\* The texts that are written: no item twice, every task open.
Texts ==
    {t \in UNION {[1..n -> [name : Names, done : {FALSE}]] : n \in 0..Cardinality(Names)} :
        \A i, j \in DOMAIN t : t[i] = t[j] => i = j}

\* Zen shows its source ("zen") or its preview ("reading"), the other views both or the source.
Panels == {"both", "editor", "zen", "reading"}
Shows(panel) == panel \in {"both", "reading"}
Writable(panel) == panel # "reading"
Interactive(panel) == panel \in {"both", "editor"}

Visible == Shows(editor.panel)

SourceIsCurrent_Rendered == preview.source = editor.text    \* Mutated: the ranges are not compared.

\* An edit through the preview needs the page and its ranges to be of the editor's text.
SourceIsCurrent == preview.source = editor.text /\ preview.known = editor.text

CanUse(kind) == uses[kind] < Budget[kind] /\ uses.all < Budget.all
Use(kind) ==
    /\ CanUse(kind)
    /\ uses' = [uses EXCEPT ![kind] = @ + 1, !.all = @ + 1]

-----------------------------------------------------------------------------
\* Rendering: each operator gives the preview after one function of the code.

\* A newer generation: what waits for an idle moment or for its next batch is of an older one.
Outdated(p) ==
    [p EXCEPT !.apply = IF @ = None THEN None ELSE [@ EXCEPT !.fresh = FALSE],
              !.part = IF @ = None THEN None ELSE [@ EXCEPT !.fresh = FALSE]]

Invalidated(p) == [p EXCEPT !.source = None, !.cut = FALSE]

CancelPending(p) ==
    [p EXCEPT !.request = None, !.apply = None, !.part = None, !.job = None,
              !.busy = FALSE, !.due = @ \ {"delay"}]

\* The blocks of the page get their ranges: at once, or in slices (job).
CacheBlocks(p, text, deferred) ==
    IF text = <<>> \/ deferred
    THEN [p EXCEPT !.live = TRUE, !.known = None,
                   !.job = IF text = <<>> THEN None ELSE [text |-> text, next |-> 1]]
    ELSE [p EXCEPT !.live = TRUE, !.known = text, !.job = None,
                   !.dom = [i \in DOMAIN @ |-> [@[i] EXCEPT !.entry = i]]]

\* The number of leading (or trailing) items two texts share.
Shared(old, new) ==
    CHOOSE k \in 0..Len(old) :
        /\ k <= Len(new) /\ \A i \in 1..k : old[i] = new[i]
        /\ k < Len(old) /\ k < Len(new) => old[k + 1] # new[k + 1]

SharedTail(old, new, prefix) ==
    CHOOSE k \in 0..(Len(old) - prefix) :
        /\ k <= Len(new) - prefix
        /\ \A i \in 0..(k - 1) : old[Len(old) - i] = new[Len(new) - i]
        /\ k < Len(old) - prefix /\ k < Len(new) - prefix
             => old[Len(old) - k] # new[Len(new) - k]

CanPatch(p, safe) ==
    /\ safe /\ p.meta # None /\ p.meta = p.source
    /\ p.live /\ Len(p.dom) = Len(p.meta)

\* Elements whose block did not change stay as they are on the page; as many
\* replacements as replaced blocks are written into the old elements.
PatchBlocks(p, text) ==
    LET prefix == Shared(p.meta, text)
        suffix == SharedTail(p.meta, text, prefix)
        shift  == Len(p.meta) - Len(text)
    IN  [i \in DOMAIN text |->
            IF i <= prefix THEN p.dom[i]
            ELSE IF i > Len(text) - suffix THEN p.dom[i + shift]
            ELSE [item |-> text[i], entry |-> IF shift = 0 THEN p.dom[i].entry ELSE 0]]

\* What a worker can answer: safe blocks, few or many; chunks or one piece of
\* HTML for a text that is not safe.  "fallback" is rendered without the worker.
Safe(how) == how \in {"blocks", "long"}
Batched(how, text) == how \in {"long", "chunks"} /\ text # <<>>

Rendered(p, text, how) ==
    [p EXCEPT !.source = text, !.cut = FALSE, !.meta = IF Safe(how) THEN text ELSE None]

\* Starting a batched rendering empties the page and the ranges; the text the
\* page was rendered from stays recorded (cut).  The older slices can no
\* longer be committed, their blocks being gone.
RenderProgressively(p, text, how) ==
    [p EXCEPT !.dom = <<>>, !.busy = TRUE, !.live = FALSE, !.known = None, !.job = None,
              !.cut = p.source # None,
              !.part = [text |-> text, how |-> how, fresh |-> TRUE]]

Render(p, text, how, visible, current) ==
    LET whole == [i \in DOMAIN text |-> [item |-> text[i], entry |-> 0]]
        done(dom) == CacheBlocks(Rendered([p EXCEPT !.dom = dom, !.part = None, !.busy = FALSE],
                                          text, how),
                                 text, how # "fallback")
    IN  IF ~visible \/ current # text THEN p
        ELSE IF CanPatch(p, Safe(how)) THEN done(PatchBlocks(p, text))
        ELSE IF Batched(how, text) THEN RenderProgressively(p, text, how)
        ELSE done(whole)

\* The page is taken to show the text already.  It does not if a rendering of
\* another text was cut short, and it takes no edits if its ranges were dropped.
TakenAsShown(p, text) ==
    [p EXCEPT !.flaws = @ \cup (IF p.cut THEN {"cut short"} ELSE {})
                          \cup (IF p.known # text /\ p.job = None /\ text # <<>>
                                THEN {"left inert"} ELSE {})]

UpdatePreview(p, text, visible) ==
    IF ~visible THEN p
    ELSE IF text = p.source THEN TakenAsShown(p, text)
    ELSE Render(CancelPending(p), text, "fallback", visible, text)

WorkerRender_Waiting(p, text, announce) ==    \* Mutated: no new request while one is out.
    LET q == [p EXCEPT !.busy = @ \/ announce]
    IN  IF p.dead THEN UpdatePreview(p, text, TRUE)
        ELSE IF p.request # None THEN q
        ELSE [Outdated(q) EXCEPT !.request =
                [text |-> text, at |-> IF announce THEN "frame" ELSE "worker"]]

\* A request for the text under way is not repeated; another one overtakes it.
WorkerRender(p, text, announce) ==
    LET q == [p EXCEPT !.busy = @ \/ announce]
    IN  IF p.dead THEN UpdatePreview(p, text, TRUE)
        ELSE IF p.request # None /\ p.request.text = text THEN q
        ELSE [Outdated(q) EXCEPT !.request =
                [text |-> text, at |-> IF announce THEN "frame" ELSE "worker"]]

\* The delay's handle is forgotten, not cleared: it can fire once more.
RequestPreviewRender(p, text, visible, announce) ==
    LET q == IF "delay" \in p.due
             THEN [p EXCEPT !.due = (@ \ {"delay"}) \cup {"stray"}] ELSE p
    IN  IF ~visible THEN q
        ELSE IF text = q.source THEN [TakenAsShown(q, text) EXCEPT !.busy = FALSE]
        ELSE WorkerRender(q, text, announce)

-----------------------------------------------------------------------------
\* The worker's answers and the timers.

Delay(timer) ==
    /\ timer \in preview.due
    /\ preview' = RequestPreviewRender([preview EXCEPT !.due = @ \ {timer}],
                                       editor.text, Visible, timer = "frame")
    /\ UNCHANGED <<editor, edit, uses>>

\* The animation frame before a request is posted.
Post ==
    /\ preview.request # None /\ preview.request.at = "frame"
    /\ preview' = IF preview.request.text # editor.text \/ ~Visible
                  THEN [preview EXCEPT !.request = None, !.busy = FALSE]
                  ELSE [preview EXCEPT !.request.at = "worker"]
    /\ UNCHANGED <<editor, edit, uses>>

Answer(how) ==
    /\ ~preview.dead
    /\ preview.request # None /\ preview.request.at = "worker"
    /\ LET text == preview.request.text
           p    == [preview EXCEPT !.request = None]
       IN  preview' =
             IF text # editor.text \/ ~Visible THEN [p EXCEPT !.busy = FALSE]
             ELSE IF SourceIsCurrent
             THEN [p EXCEPT !.meta = IF Safe(how) THEN text ELSE None, !.busy = FALSE]
             ELSE [p EXCEPT !.apply = [text |-> text, how |-> how, fresh |-> TRUE]]
    /\ UNCHANGED <<editor, edit, uses>>

\* The worker answers with an error, or stops: it is not used again.
WorkerFails ==
    /\ ~preview.dead /\ (preview.request # None \/ preview.source # None)
    /\ Use("faults")
    /\ \E answers \in BOOLEAN :
        /\ answers => /\ preview.request # None /\ preview.request.at = "worker"
                      /\ preview.request.text = editor.text /\ Visible
        /\ preview' = [preview EXCEPT !.dead = TRUE,
                            !.request = IF answers THEN None ELSE @,
                            !.apply = [text |-> None, how |-> "fallback", fresh |-> TRUE]]
    /\ UNCHANGED <<editor, edit>>

\* The idle callback that renders an answer.
Apply ==
    /\ preview.apply # None
    /\ LET a == preview.apply
           p == [preview EXCEPT !.apply = None]
       IN  preview' = IF ~a.fresh THEN p
                      ELSE IF a.how = "fallback" THEN UpdatePreview(p, editor.text, Visible)
                      ELSE Render(p, a.text, a.how, Visible, editor.text)
    /\ UNCHANGED <<editor, edit, uses>>

\* The next batch of a progressive rendering.
RenderBatch ==
    /\ preview.part # None
    /\ LET part == preview.part
           next == Len(preview.dom) + 1
           p    == [preview EXCEPT !.dom = Append(@, [item |-> part.text[next], entry |-> 0])]
       IN  preview' =
             IF ~part.fresh \/ part.text # editor.text \/ ~Visible
             THEN [preview EXCEPT !.part = None, !.busy = FALSE]
             ELSE IF next < Len(part.text) THEN p
             ELSE CacheBlocks(Rendered([p EXCEPT !.part = None, !.busy = FALSE],
                                       part.text, part.how), part.text, TRUE)
    /\ UNCHANGED <<editor, edit, uses>>

\* The next slice of the ranges; the last one commits them.
CacheBatch ==
    /\ preview.job # None
    /\ LET job == preview.job
           p   == IF preview.live
                  THEN [preview EXCEPT !.dom[job.next].entry = job.next] ELSE preview
       IN  preview' =
             IF job.text # editor.text THEN [preview EXCEPT !.job = None]
             ELSE IF job.next < Len(job.text) THEN [p EXCEPT !.job.next = @ + 1]
             ELSE [p EXCEPT !.job = None, !.known = job.text]
    /\ UNCHANGED <<editor, edit, uses>>

-----------------------------------------------------------------------------
\* The user writes, changes the view and opens notes; a pull updates the open note.

\* What every input to the source does to the preview.
SourceInput(p, visible) ==
    [CancelPending(p) EXCEPT !.known = None,
                             !.due = IF visible THEN @ \cup {"delay"} ELSE @]

Type(text) ==
    /\ Writable(editor.panel) /\ text # editor.text
    /\ edit.drag # None => ~edit.drag.armed
    /\ Use("types")
    /\ editor' = [editor EXCEPT !.text = text, !.dirty = TRUE]
    /\ preview' = SourceInput(preview, Visible)
    /\ edit' = [edit EXCEPT !.history = <<>>, !.drag = None]

Saved ==
    /\ editor.dirty
    /\ editor' = [editor EXCEPT !.dirty = FALSE]
    /\ UNCHANGED <<preview, edit, uses>>

UpdateOpenNote(p, text) == RequestPreviewRender(Invalidated(p), text, Visible, TRUE)

\* A pull brings the open note another text.  The undo history and a drag
\* under way stay those of the text before.
Adopt(text) ==
    /\ ~editor.dirty /\ text # editor.text
    /\ Use("adopts")
    /\ editor' = [editor EXCEPT !.text = text]
    /\ preview' = LET p == UpdateOpenNote(preview, text)
                  IN  IF edit.history # <<>> \/ edit.drag # None
                      THEN [p EXCEPT !.flaws = @ \cup {"adopted"}] ELSE p
    /\ UNCHANGED edit

\* Leaving or entering an interactive view forgets what was rendered and the history.
SyncMode(p, from, to) ==
    IF Interactive(from) = Interactive(to) THEN p
    ELSE [Invalidated(p) EXCEPT !.meta = None]

SetPanel(p, text, from, to) ==
    LET q == SyncMode(p, from, to)
    IN  IF ~Shows(to) THEN q
        ELSE IF to = "reading" \/ Interactive(from) # Interactive(to) \/ text # q.source
        THEN RequestPreviewRender(q, text, TRUE, TRUE)
        ELSE [q EXCEPT !.due = @ \cup {"frame"}]

ChangePanel(to) ==
    /\ to # editor.panel
    /\ to = "reading" => editor.panel = "zen"
    /\ Use("panels")
    /\ editor' = [editor EXCEPT !.panel = to]
    /\ preview' = SetPanel(preview, editor.text, editor.panel, to)
    /\ edit' = [edit EXCEPT !.drag = None,
                    !.history = IF Interactive(editor.panel) = Interactive(to) THEN @ ELSE <<>>]

\* Another note (or a new one, empty) takes the editor, in the start view.
\* The session is reset and entered again, which asks for a rendering.
Open(text, fresh) ==
    /\ fresh => text = <<>>
    /\ Use("opens")
    /\ editor' = [text |-> text, dirty |-> FALSE, panel |-> "both"]
    /\ preview' =
         LET p == SetPanel(preview, editor.text, editor.panel, "both")
             q == [Invalidated(p) EXCEPT !.dom = <<>>, !.live = FALSE, !.meta = None,
                        !.due = IF fresh THEN @ \ {"delay"} ELSE @]
             r == IF fresh THEN CacheBlocks(q, text, FALSE) ELSE q
         IN  RequestPreviewRender(r, text, TRUE, TRUE)
    /\ edit' = [edit EXCEPT !.history = <<>>, !.drag = None]

-----------------------------------------------------------------------------
\* Edits through the preview.

\* An edit is recorded for undo and entered as an input; a tick keeps the page
\* as it is when page and ranges were those of the text.
ApplySource(page, text, transaction, missed, preserve) ==
    LET p == [SourceInput(page, Visible) EXCEPT !.due = @ \ {"delay"}]
        h == Append(edit.history, transaction)
    IN  /\ editor' = [editor EXCEPT !.text = text, !.dirty = TRUE]
        /\ preview' = IF preserve /\ SourceIsCurrent
                      THEN [p EXCEPT !.source = text, !.known = text, !.meta = None]
                      ELSE RequestPreviewRender(p, text, Visible, TRUE)
        /\ edit' = [history |-> IF Len(h) > MaxHistory THEN Tail(h) ELSE h,
                    drag |-> None, wrong |-> edit.wrong \/ missed]

Ticked(item) == [item EXCEPT !.done = ~@]

\* A click on a task box.  The browser flips the box in any case; the source
\* follows only when page and ranges are current.
Tick(i) ==
    /\ Visible /\ Interactive(editor.panel) /\ edit.drag = None
    /\ i \in DOMAIN preview.dom /\ preview.dom[i].entry # 0
    /\ Use("edits")
    /\ LET at   == preview.dom[i].entry
           page == [preview EXCEPT !.dom[i].item = Ticked(@)]
           text == [editor.text EXCEPT ![at] = Ticked(@)]
       IN  IF SourceIsCurrent /\ at \in DOMAIN editor.text
           THEN ApplySource(page, text,
                            [at |-> at, removed |-> editor.text[at].done,
                             inserted |-> text[at].done, before |-> editor.text],
                            text[at] # page.dom[i].item, TRUE)
           ELSE /\ preview' = [page EXCEPT !.flaws = @ \cup {"box only"}]
                /\ UNCHANGED <<editor, edit>>

\* A drag remembers the source position of the block it took.
PickUp(i) ==
    /\ Visible /\ Interactive(editor.panel) /\ SourceIsCurrent /\ edit.drag = None
    /\ i \in DOMAIN preview.dom /\ preview.dom[i].entry # 0
    /\ Use("edits")
    /\ edit' = [edit EXCEPT !.drag = [from |-> preview.dom[i].entry, name |-> preview.dom[i].item.name,
                                      armed |-> FALSE, target |-> None]]
    /\ UNCHANGED <<editor, preview>>

\* The first move arms the drag and locks the source; every move finds the
\* block under the pointer.
Hover(j, after) ==
    /\ edit.drag # None /\ Visible
    /\ j \in DOMAIN preview.dom /\ preview.dom[j].entry \notin {0, edit.drag.from}
    /\ edit' = [edit EXCEPT !.drag =
                  IF ~@.armed /\ ~SourceIsCurrent THEN None
                  ELSE [@ EXCEPT !.armed = TRUE,
                                 !.target = [to |-> preview.dom[j].entry, after |-> after,
                                             name |-> preview.dom[j].item.name]]]
    /\ UNCHANGED <<editor, preview, uses>>

LetGo ==
    /\ edit.drag # None
    /\ edit' = [edit EXCEPT !.drag = None]
    /\ UNCHANGED <<editor, preview, uses>>

\* The item at `from` moves next to the item at `to`.
Moved(text, from, to, after) ==
    LET others  == [i \in 1..(Len(text) - 1) |-> IF i < from THEN text[i] ELSE text[i + 1]]
        gap     == (IF to > from THEN to - 1 ELSE to) - (IF after THEN 0 ELSE 1)
    IN  SubSeq(others, 1, gap) \o <<text[from]>> \o SubSeq(others, gap + 1, Len(others))

Drop ==
    /\ edit.drag # None /\ edit.drag.armed /\ edit.drag.target # None
    /\ LET drag   == edit.drag
           target == drag.target
           known  == {drag.from, target.to} \subseteq DOMAIN editor.text
           text   == Moved(editor.text, drag.from, target.to, target.after)
       IN  IF SourceIsCurrent /\ known /\ drag.from # target.to /\ text # editor.text
           THEN ApplySource(preview, text,
                            [at |-> 0, removed |-> editor.text, inserted |-> text,
                             before |-> editor.text],
                            \/ editor.text[drag.from].name # drag.name
                            \/ editor.text[target.to].name # target.name, FALSE)
           ELSE /\ edit' = [edit EXCEPT !.drag = None]
                /\ UNCHANGED <<editor, preview>>
    /\ UNCHANGED uses

\* Undo replaces what the last edit inserted, if it still stands where it was inserted.
Undo ==
    /\ Interactive(editor.panel) /\ edit.history # <<>>
    /\ LET last  == edit.history[Len(edit.history)]
           older == SubSeq(edit.history, 1, Len(edit.history) - 1)
           stands == IF last.at = 0 THEN last.inserted = editor.text
                     ELSE last.at \in DOMAIN editor.text
                          /\ editor.text[last.at].done = last.inserted
           text  == IF last.at = 0 THEN last.removed
                    ELSE [editor.text EXCEPT ![last.at].done = last.removed]
       IN  IF ~stands
           THEN /\ edit' = [edit EXCEPT !.history = <<>>]
                /\ UNCHANGED <<editor, preview>>
           ELSE /\ editor' = [editor EXCEPT !.text = text, !.dirty = TRUE]
                /\ edit' = [history |-> older, drag |-> None,
                            wrong |-> edit.wrong \/ text # last.before]
                /\ preview' = RequestPreviewRender(
                                [SourceInput(preview, Visible) EXCEPT !.due = @ \ {"delay"}],
                                text, Visible, TRUE)
    /\ UNCHANGED uses

-----------------------------------------------------------------------------
Init ==
    /\ editor = [text |-> <<>>, dirty |-> FALSE, panel |-> "both"]
    /\ preview = [dom |-> <<>>, source |-> None, meta |-> None, cut |-> FALSE, busy |-> FALSE,
                  known |-> None, live |-> FALSE, job |-> None,
                  dead |-> FALSE, request |-> None, apply |-> None, part |-> None,
                  due |-> {}, flaws |-> {}]
    /\ edit = [history |-> <<>>, drag |-> None, wrong |-> FALSE]
    /\ uses = [types |-> 0, adopts |-> 0, opens |-> 0, panels |-> 0, edits |-> 0,
               faults |-> 0, all |-> 0]

Next ==
    \/ \E timer \in {"delay", "stray", "frame"} : Delay(timer)
    \/ Post
    \/ \E how \in {"blocks", "long", "chunks", "html"} : Answer(how)
    \/ WorkerFails
    \/ Apply
    \/ RenderBatch
    \/ CacheBatch
    \/ \E text \in Texts : Type(text) \/ Adopt(text)
    \/ Saved
    \/ \E panel \in Panels : ChangePanel(panel)
    \/ \E text \in Texts, fresh \in BOOLEAN : Open(text, fresh)
    \/ \E i \in 1..Cardinality(Names) : Tick(i) \/ PickUp(i)
    \/ \E j \in 1..Cardinality(Names), after \in BOOLEAN : Hover(j, after)
    \/ LetGo
    \/ Drop
    \/ Undo

Spec == Init /\ [][Next]_previewVars

-----------------------------------------------------------------------------
Resting ==
    /\ preview.request = None /\ preview.apply = None /\ preview.part = None
    /\ preview.job = None /\ preview.due = {}

\* A visible preview with nothing left to do shows the editor's text, is not
\* marked busy and, in an interactive view, accepts edits (app.js
\* requestPreviewRender, preview-renderer.js render, preview-model.js commit).
\* The flaws say when the code departs from it.
PreviewShowsSource ==
    Visible /\ Resting /\ preview.flaws = {} =>
        /\ [i \in DOMAIN preview.dom |-> preview.dom[i].item] = editor.text
        /\ ~preview.busy
        /\ Interactive(editor.panel) /\ editor.text # <<>> => SourceIsCurrent

\* An edit through the preview changes the item that was ticked or dragged on
\* the page, and undoing it restores the text before it (app.js
\* interactivePreviewSourceIsCurrent, interactive-preview-session.js undo).
EditsHitWhatIsShown == preview.flaws = {} => ~edit.wrong
=============================================================================
