------------------------------ MODULE AppUpdate ------------------------------
(***************************************************************************)
(* The service worker that keeps the app's files for offline use, and the  *)
(* pages that learn of a new version and reload into it (sw.js,            *)
(* ui/feedback.js, registerServiceWorker of app.js).  The worker's address *)
(* names the revision whose cache it fills and serves; what the browser    *)
(* does with registrations, installation and activation is external.       *)
(***************************************************************************)
EXTENDS Integers, FiniteSets

CONSTANTS
  Pages,        \* tabs
  None,
  MaxRevision,  \* bound: revisions the server is ever at
  MaxDeploys    \* bound: deployments

VARIABLES
  site,         \* the revision the server is at, and its deployments
  caches,       \* the files each revision's cache holds, by the revision they are of
  worker,       \* the registration: active and installing worker
  jobs,         \* revisions the pages asked to register
  views,         \* what each tab shows and knows
  gaps          \* events after which a shell may be mixed

updateVars == <<site, caches, worker, jobs, views, gaps>>

Revisions == 1 .. MaxRevision
Assets == {"index", "script"}     \* the shell, and what it loads, at once or when needed
OptionalAssets == {"words"}       \* fetched when it is first needed, and not at installation
Files == Assets \cup OptionalAssets

NoCache == [a \in Files |-> None]
NoWorker == [rev |-> None, activating |-> FALSE]
NoInstall == [rev |-> None, left |-> {}, index |-> TRUE, dangling |-> FALSE]

\* A tab: the revision of its document; mixed: the files it loaded of another one;
\* controlled: the worker that answers it; overtaken: it has changed since the document
\* was loaded; latest: the revision last announced; registered: that one was asked for;
\* aim: the revision a reload waits for; target: the one this page was reloaded for.
NoPage == [doc |-> None, mixed |-> {}, controlled |-> None, overtaken |-> FALSE,
           latest |-> None, registered |-> FALSE, aim |-> None, target |-> None]

(***************************************************************************)
(* The server and the browser's registration.                              *)
(***************************************************************************)
\* A deployment, or a return to an earlier build.  The worker's script changes with it.
Deploy(r) ==
  /\ site.deploys < MaxDeploys /\ r # site.rev
  /\ site' = [rev |-> r, deploys |-> site.deploys + 1]
  /\ gaps' = gaps \cup IF worker.install # NoInstall THEN {"deployed"} ELSE {}
  /\ UNCHANGED <<caches, worker, jobs, views>>

Newest == IF worker.install # NoInstall THEN worker.install.rev ELSE worker.active.rev

Installing(r) == [NoInstall EXCEPT !.rev = r, !.left = Assets]

\* A registration with a new address installs a worker; one with the newest worker's
\* address changes nothing.
RunJob(r) ==
  /\ r \in jobs /\ worker.install = NoInstall
  /\ jobs' = jobs \ {r}
  /\ worker' = IF r = Newest THEN worker ELSE [worker EXCEPT !.install = Installing(r)]
  /\ UNCHANGED <<site, caches, views, gaps>>

\* A registration that fails is forgotten by the pages that wait for it.
JobFails(r) ==
  /\ r \in jobs
  /\ jobs' = jobs \ {r}
  /\ views' = [t \in Pages |-> IF views[t].registered /\ views[t].latest = r
                              THEN [views[t] EXCEPT !.registered = FALSE, !.aim = None] ELSE views[t]]
  /\ UNCHANGED <<site, caches, worker, gaps>>

\* The browser looks for another script at the active worker's address, after a
\* navigation or update(): with another build there, the worker is installed again over
\* the cache in use.
UpdateCheck ==
  /\ worker.install = NoInstall /\ worker.active.rev \notin {None, site.rev}
  /\ "rewritten" \notin gaps
  /\ worker' = [worker EXCEPT !.install = Installing(worker.active.rev)]
  /\ gaps' = gaps \cup {"rewritten"}
  /\ UNCHANGED <<site, caches, jobs, views>>

(***************************************************************************)
(* The worker: install, activate, fetch.                                   *)
(***************************************************************************)
\* Mutated: the shell is not compared with the worker's address.
Matches_Any(r) == TRUE

\* The shell must be of the revision the worker's address names.
Matches(r) == site.rev = r

\* A file is fetched and put in the revision's cache; a cache that was deleted
\* meanwhile takes it with it.
InstallAsset(a) ==
  LET i == worker.install IN
  /\ i # NoInstall /\ a \in i.left
  /\ a = "index" => Matches(i.rev)
  /\ caches' = IF i.dangling THEN caches ELSE [caches EXCEPT ![i.rev][a] = site.rev]
  /\ worker' = [worker EXCEPT !.install.left = @ \ {a}]
  /\ UNCHANGED <<site, jobs, views, gaps>>

\* A file cannot be fetched, or the shell is of another revision.
InstallFails ==
  /\ worker.install # NoInstall /\ worker.install.left # {}
  /\ worker' = [worker EXCEPT !.install = NoInstall]
  /\ UNCHANGED <<site, caches, jobs, views, gaps>>

ControlledBy(p, r) == [p EXCEPT !.controlled = r, !.overtaken = @ \/ p.controlled # r]

\* skipWaiting: the worker takes the place of the active one and controls its pages.
Activate ==
  /\ worker.install # NoInstall /\ worker.install.left = {} /\ ~worker.active.activating
  /\ worker' = [active |-> [rev |-> worker.install.rev, activating |-> TRUE], install |-> NoInstall]
  /\ views' = [t \in Pages |-> IF views[t].controlled = None THEN views[t]
                              ELSE ControlledBy(views[t], worker.install.rev)]
  /\ UNCHANGED <<site, caches, jobs, gaps>>

\* activate: the caches of other revisions are deleted, one that is being filled too,
\* and every page is claimed.
Activated ==
  LET r == worker.active.rev IN
  /\ worker.active.activating
  /\ caches' = [c \in Revisions |-> IF c = r THEN caches[c] ELSE NoCache]
  /\ worker' = [worker EXCEPT !.active.activating = FALSE,
                              !.install.dangling = @ \/ worker.install.rev \notin {None, r}]
  /\ gaps' = gaps \cup IF worker.install.rev \notin {None, r} THEN {"cleaned"} ELSE {}
  /\ views' = [t \in Pages |-> IF views[t].doc = None THEN views[t]
                              ELSE ControlledBy(views[t], r)]
  /\ UNCHANGED <<site, jobs>>

\* A file as the worker of revision c gives it (cachedShellResponse, fetchShellAsset), or
\* the server where no worker is.
Given(c, a) == IF c # None /\ caches[c][a] # None THEN caches[c][a] ELSE site.rev

Kept(c, a) == IF c = None THEN caches ELSE [caches EXCEPT ![c][a] = Given(c, a)]

(***************************************************************************)
(* Pages.                                                                  *)
(***************************************************************************)
\* A navigation is answered by the active worker; the shell names its revision.
Load(t, target) ==
  LET c == worker.active.rev
      doc == Given(c, "index")
  IN /\ ~worker.active.activating
     /\ caches' = Kept(c, "index")
     /\ views' = [views EXCEPT ![t] = [NoPage EXCEPT !.doc = doc, !.latest = doc,
                                                    !.controlled = c, !.target = target]]

Open(t) ==
  /\ views[t].doc = None
  /\ Load(t, None)
  /\ UNCHANGED <<site, worker, jobs, gaps>>

Close(t) ==
  /\ views[t].doc # None
  /\ views' = [views EXCEPT ![t] = NoPage]
  /\ UNCHANGED <<site, caches, worker, jobs, gaps>>

LoadFile(t, a) ==
  LET c == views[t].controlled IN
  /\ views[t].doc # None /\ ~worker.active.activating
  /\ caches' = Kept(c, a)
  /\ views' = [views EXCEPT ![t].mixed = @ \cup IF Given(c, a) # views[t].doc THEN {a} ELSE {}]
  /\ caches' # caches \/ views' # views
  /\ UNCHANGED <<site, worker, jobs, gaps>>

\* registerServiceWorker: asked once for each revision.
Ask(p, r) == IF p.registered /\ p.latest = r THEN jobs ELSE jobs \cup {r}

\* cacheVersion: the answer to a request tells the server's revision.
CacheVersion(t, r) ==
  /\ views[t].doc # None
  /\ views' = [views EXCEPT ![t].latest = r, ![t].registered = TRUE]
  /\ jobs' = Ask(views[t], r)
  /\ views' # views \/ jobs' # jobs
  /\ UNCHANGED <<site, caches, worker, gaps>>

\* showUpdateAvailable: offered while the page is not of the revision last announced.
Offered(p) == p.doc # p.latest

\* The update's Reload button: save, register the latest revision, wait for its worker.
PrepareReload(t) ==
  /\ Offered(views[t]) /\ views[t].aim = None
  /\ views' = [views EXCEPT ![t].aim = views[t].latest, ![t].registered = TRUE]
  /\ jobs' = Ask(views[t], views[t].latest)
  /\ UNCHANGED <<site, caches, worker, gaps>>

\* waitForRevisionController resolves; the page is reloaded unless another update arrived.
Ready(p) == p.controlled = p.aim

Reload(t) ==
  /\ views[t].aim # None /\ Ready(views[t]) /\ views[t].aim = views[t].latest
  /\ Load(t, views[t].aim)
  /\ UNCHANGED <<site, worker, jobs, gaps>>

\* The wait ends after its timeout, or another update has arrived.
ReloadFails(t) ==
  /\ views[t].aim # None
  /\ views' = [views EXCEPT ![t].aim = None]
  /\ UNCHANGED <<site, caches, worker, jobs, gaps>>

Init ==
  /\ site = [rev |-> 1, deploys |-> 0]
  /\ caches = [r \in Revisions |-> NoCache]
  /\ worker = [active |-> NoWorker, install |-> NoInstall]
  /\ jobs = {} /\ views = [t \in Pages |-> NoPage] /\ gaps = {}

Next ==
  \/ \E r \in Revisions : Deploy(r) \/ RunJob(r) \/ JobFails(r)
  \/ UpdateCheck \/ InstallFails \/ Activate \/ Activated
  \/ \E a \in Assets : InstallAsset(a)
  \/ \E t \in Pages :
       \/ Open(t) \/ Close(t) \/ PrepareReload(t) \/ Reload(t) \/ ReloadFails(t)
       \/ CacheVersion(t, site.rev)
       \/ \E a \in Files \ {"index"} : LoadFile(t, a)

Spec == Init /\ [][Next]_updateVars

Whole == \A a \in Assets : caches[worker.active.rev][a] = worker.active.rev

\* The files a worker serves are those of the revision its address names, all of them,
\* so that the app starts offline and a page is of one build; and a page that reloaded
\* for an update is of the revision that was announced.  Excepted are the events that
\* sw.js does not provide for: a deployment while a worker is installed, a second
\* installation over the cache in use, the deletion of a cache that is being filled
\* (sw.js:128, 158; ui/feedback.js:108); and of the optional files, which are of the
\* build the server had when they were first needed (sw.js:117, 220), nothing is said.
ShellIsWhole ==
  gaps = {} =>
    /\ worker.active.rev # None => Whole
    /\ \A t \in Pages :
         /\ views[t].target # None => views[t].doc = views[t].target
         /\ views[t].mixed \subseteq OptionalAssets \/ views[t].overtaken
            \/ views[t].controlled = None
=============================================================================
