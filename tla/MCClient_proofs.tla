--------------------------- MODULE MCClient_proofs ---------------------------
(***************************************************************************)
(* The page of the browser: the worker that serves it, the preferences it  *)
(* sets and the preview it shows, each from an inductive invariant of its  *)
(* own: the components share no state, and a behaviour is about one of     *)
(* them.                                                                   *)
(***************************************************************************)
EXTENDS MCClient, TLAPS, WellFoundedInduction

(***************************************************************************)
(* AppUpdate                                                               *)
(***************************************************************************)
Revision == U!Revisions \cup {None}

Shown == [doc : Revision, mixed : SUBSET U!Files, controlled : Revision, overtaken : BOOLEAN,
          latest : Revision, registered : BOOLEAN, aim : Revision, target : Revision]

InstallType ==
  [rev : Revision, left : SUBSET U!Assets, index : BOOLEAN, dangling : BOOLEAN]

WorkerType == [active : [rev : Revision, activating : BOOLEAN], install : InstallType]

UpdateTypes ==
  /\ site \in [rev : U!Revisions, deploys : Nat]
  /\ caches \in [U!Revisions -> [U!Files -> Revision]]
  /\ worker \in WorkerType
  /\ worker.install.rev = None => worker.install = U!NoInstall
  /\ worker.active.activating => worker.active.rev # None
  /\ views \in [Pages -> Shown]
  /\ jobs \subseteq Revision

(* What has been fetched for the worker being installed is of the revision   *)
(* the server is at, and that is the worker's own if the shell was fetched.  *)
InstallFetched ==
  LET i == worker.install
  IN  i.rev # None =>
        /\ ~i.dangling /\ i.rev # worker.active.rev
        /\ \A a \in U!Assets \ i.left : caches[i.rev][a] = site.rev
        /\ "index" \notin i.left => i.rev = site.rev

(* A page is answered by the active worker, and shows that worker's revision *)
(* unless it was taken over.                                                 *)
PageFollows(p) ==
  /\ p.controlled # None => p.controlled = worker.active.rev
  /\ p.controlled # None /\ ~p.overtaken => p.doc = p.controlled
  /\ p.target # None => p.doc = p.target
  /\ p.mixed \subseteq U!OptionalAssets \/ p.overtaken \/ p.controlled = None

UpdateInv ==
  /\ UpdateTypes
  /\ gaps = {} =>
       /\ InstallFetched
       /\ worker.active.rev # None => U!Whole
       /\ \A t \in Pages : PageFollows(views[t])

LEMMA UpdateStart == U!Init => UpdateInv
<1> SUFFICES ASSUME U!Init PROVE UpdateInv
  OBVIOUS
<1> USE DEF U!Revisions, Revision
<1>1. 1 \in U!Revisions /\ None \notin U!Revisions
  BY ClientAssumption
<1>2. U!NoPage \in Shown
  BY DEF U!NoPage, Shown
<1>3. PageFollows(U!NoPage)
  BY DEF PageFollows, U!NoPage
<1>4. worker.install.rev = None /\ worker.active.rev = None
  BY DEF U!Init, U!NoInstall, U!NoWorker
<1>5. InstallFetched
  BY <1>4 DEF InstallFetched
<1>6. UpdateTypes
  <2>1. site \in [rev : U!Revisions, deploys : Nat]
    BY <1>1 DEF U!Init
  <2>2. caches \in [U!Revisions -> [U!Files -> Revision]]
    BY DEF U!Init, U!NoCache
  <2>3. worker \in WorkerType
    BY DEF U!Init, U!NoWorker, U!NoInstall, WorkerType, InstallType
  <2> QED BY <1>2, <2>1, <2>2, <2>3 DEF UpdateTypes, U!Init, U!NoWorker
<1> QED BY <1>3, <1>4, <1>5, <1>6 DEF UpdateInv, U!Init

LEMMA UpdateTyped ==
  ASSUME UpdateTypes
  PROVE  /\ site.rev \in U!Revisions /\ site.deploys \in Nat
         /\ worker.active.rev \in Revision /\ worker.active.activating \in BOOLEAN
         /\ worker.install.rev \in Revision /\ worker.install.left \subseteq U!Assets
         /\ worker.install.dangling \in BOOLEAN
         /\ worker.install.rev = None <=> worker.install = U!NoInstall
         /\ None \notin U!Revisions
         /\ \A t \in Pages : views[t] \in Shown
<1>1. None \notin U!Revisions
  BY ClientAssumption DEF U!Revisions
<1>2. U!NoInstall.rev = None
  BY DEF U!NoInstall
<1> QED BY <1>1, <1>2 DEF UpdateTypes, WorkerType, InstallType

(* An event sw.js does not provide for never wears off.                      *)
LEMMA GapsStay == U!Next => gaps \subseteq gaps'
BY Zenon DEF U!Next, U!Deploy, U!RunJob, U!JobFails, U!UpdateCheck, U!InstallFails, U!Activate,
       U!Activated, U!InstallAsset, U!Open, U!Close, U!PrepareReload, U!Reload, U!ReloadFails,
       U!CacheVersion, U!LoadFile

LEMMA DeployStep ==
  ASSUME UpdateInv, NEW r \in U!Revisions, U!Deploy(r)
  PROVE  UpdateInv'
<1>1. UpdateTypes'
  BY DEF UpdateInv, UpdateTypes, U!Deploy
<1>2. ASSUME gaps' = {} PROVE worker.install.rev = None /\ gaps = {}
  BY <1>2, UpdateTyped DEF UpdateInv, U!Deploy
<1>3. gaps' = {} => InstallFetched'
  BY <1>2 DEF InstallFetched, U!Deploy
<1> QED BY <1>1, <1>2, <1>3 DEF UpdateInv, U!Deploy, U!Whole, PageFollows

LEMMA RunJobStep ==
  ASSUME UpdateInv, NEW r \in U!Revisions, U!RunJob(r)
  PROVE  UpdateInv'
<1>1. r \in Revision /\ r # None
  BY UpdateTyped DEF Revision, UpdateInv
<1>2. /\ U!Installing(r) \in InstallType
      /\ U!Installing(r).rev = r /\ U!Installing(r).left = U!Assets /\ ~U!Installing(r).dangling
  BY <1>1 DEF U!Installing, U!NoInstall, InstallType
<1>3. CASE worker' = worker
  <2>1. UpdateTypes'
    BY <1>3 DEF UpdateInv, UpdateTypes, U!RunJob
  <2> QED BY <1>3, <2>1 DEF UpdateInv, U!RunJob, U!Whole, PageFollows, InstallFetched
<1>4. CASE worker' = [worker EXCEPT !.install = U!Installing(r)] /\ r # U!Newest
  <2>1. /\ worker'.install = U!Installing(r) /\ worker'.active = worker.active
        /\ worker' \in WorkerType
    BY <1>1, <1>2, <1>4 DEF UpdateInv, UpdateTypes, WorkerType
  <2>2. UpdateTypes'
    BY <1>1, <1>2, <2>1 DEF UpdateInv, UpdateTypes, U!RunJob, WorkerType
  <2>3. r # worker.active.rev
    BY <1>4 DEF U!Newest, U!RunJob
  <2>4. InstallFetched'
    BY <1>2, <2>1, <2>3 DEF InstallFetched, U!Assets
  <2> QED BY <2>1, <2>2, <2>4 DEF UpdateInv, U!RunJob, U!Whole, PageFollows
<1> QED BY <1>3, <1>4 DEF U!RunJob

LEMMA UpdateCheckStep ==
  ASSUME UpdateInv, U!UpdateCheck
  PROVE  UpdateInv'
<1> DEFINE r == worker.active.rev
<1>1. r \in Revision /\ r # None
  BY UpdateTyped DEF Revision, UpdateInv, U!UpdateCheck
<1>2. /\ U!Installing(r) \in InstallType
      /\ U!Installing(r).rev = r /\ U!Installing(r).left = U!Assets /\ ~U!Installing(r).dangling
  BY <1>1 DEF U!Installing, U!NoInstall, InstallType
<1>3. worker' \in WorkerType /\ worker'.install.rev = r
  <2> HIDE DEF r
  <2>1. worker' = [worker EXCEPT !.install = U!Installing(r)]
    BY DEF U!UpdateCheck, r
  <2> QED BY <1>1, <1>2, <2>1 DEF UpdateInv, UpdateTypes, WorkerType
<1>4. UpdateTypes'
  BY <1>1, <1>3 DEF UpdateInv, UpdateTypes, U!UpdateCheck, WorkerType
<1> QED BY <1>4 DEF UpdateInv, U!UpdateCheck

LEMMA InstallAssetStep ==
  ASSUME UpdateInv, NEW a \in U!Assets, U!InstallAsset(a)
  PROVE  UpdateInv'
<1> DEFINE i == worker.install
<1>1. i.rev \in Revision /\ i.rev # None /\ i.rev \in U!Revisions /\ i.left \subseteq U!Assets
  BY UpdateTyped DEF Revision, UpdateInv, U!InstallAsset
<1>2. /\ worker' \in WorkerType /\ worker'.active = worker.active
      /\ worker'.install.rev = i.rev /\ worker'.install.left = i.left \ {a}
      /\ worker'.install.dangling = i.dangling
  BY <1>1 DEF UpdateInv, UpdateTypes, WorkerType, InstallType, U!InstallAsset
<1>3. caches' \in [U!Revisions -> [U!Files -> Revision]]
  <2>1. site.rev \in Revision
    BY UpdateTyped DEF Revision, UpdateInv
  <2> QED BY <1>1, <2>1 DEF UpdateInv, UpdateTypes, U!InstallAsset
<1>4. UpdateTypes'
  BY <1>1, <1>2, <1>3 DEF UpdateInv, UpdateTypes, U!InstallAsset, WorkerType
<1>5. ASSUME gaps = {}
      PROVE  /\ \A r \in U!Revisions : r # i.rev => caches'[r] = caches[r]
             /\ caches'[i.rev] = [caches[i.rev] EXCEPT ![a] = site.rev]
  BY <1>1, <1>5 DEF UpdateInv, UpdateTypes, InstallFetched, U!InstallAsset
<1>6. ASSUME gaps = {} PROVE InstallFetched'
  <2>1. ~i.dangling /\ i.rev # worker.active.rev
    BY <1>1, <1>6 DEF UpdateInv, InstallFetched
  <2>2. \A b \in U!Assets \ worker'.install.left : caches'[i.rev][b] = site.rev
    <3> TAKE b \in U!Assets \ worker'.install.left
    <3>1. b = a \/ b \in U!Assets \ i.left
      BY <1>2
    <3>2. caches[i.rev] \in [U!Files -> Revision]
      BY <1>1 DEF UpdateInv, UpdateTypes
    <3>3. b # a => caches[i.rev][b] = site.rev
      BY <1>1, <1>6, <3>1 DEF UpdateInv, InstallFetched
    <3> QED BY <1>5, <1>6, <3>2, <3>3 DEF U!Files
  <2>3. "index" \notin worker'.install.left => i.rev = site.rev
    BY <1>1, <1>2, <1>6 DEF UpdateInv, InstallFetched, U!InstallAsset, U!Matches
  <2>4. site' = site
    BY DEF U!InstallAsset
  <2> QED BY <1>2, <2>1, <2>2, <2>3, <2>4 DEF InstallFetched
<1>7. ASSUME gaps = {}, worker.active.rev # None PROVE U!Whole'
  <2>1. worker.active.rev \in U!Revisions /\ i.rev # worker.active.rev
    BY <1>1, <1>7, UpdateTyped DEF UpdateInv, InstallFetched, Revision
  <2> QED BY <1>2, <1>5, <1>7, <2>1 DEF UpdateInv, U!Whole
<1>8. gaps' = gaps /\ views' = views
  BY DEF U!InstallAsset
<1> QED BY <1>2, <1>4, <1>6, <1>7, <1>8 DEF UpdateInv, PageFollows

LEMMA InstallFailsStep ==
  ASSUME UpdateInv, U!InstallFails
  PROVE  UpdateInv'
<1>1. /\ worker' \in WorkerType /\ worker'.active = worker.active
      /\ worker'.install = U!NoInstall /\ worker'.install.rev = None
  <2>1. U!NoInstall \in InstallType
    BY DEF U!NoInstall, Revision, InstallType
  <2> QED BY <2>1 DEF UpdateInv, UpdateTypes, WorkerType, U!InstallFails, U!NoInstall
<1>2. UpdateTypes'
  BY <1>1 DEF UpdateInv, UpdateTypes, U!InstallFails, WorkerType
<1>3. InstallFetched'
  BY <1>1 DEF InstallFetched
<1> QED BY <1>1, <1>2, <1>3 DEF UpdateInv, U!InstallFails, U!Whole, PageFollows

(* A step that changes nothing but what some pages show.                     *)
SameShell == \A r \in U!Revisions : \A a \in U!Assets : caches'[r][a] = caches[r][a]

LEMMA PagesChange ==
  ASSUME UpdateInv, site' = site, worker' = worker, gaps' = gaps,
         caches' \in [U!Revisions -> [U!Files -> Revision]],
         gaps = {} => SameShell,
         jobs' \subseteq Revision, views' \in [Pages -> Shown],
         gaps = {} => \A t \in Pages : PageFollows(views'[t])
  PROVE  UpdateInv'
<1>1. UpdateTypes'
  BY DEF UpdateInv, UpdateTypes
<1>2. ASSUME gaps = {} PROVE InstallFetched'
  <2> SUFFICES ASSUME worker.install.rev # None PROVE InstallFetched'
    BY DEF InstallFetched
  <2>1. worker.install.rev \in U!Revisions
    BY UpdateTyped DEF UpdateInv, Revision
  <2> QED BY <1>2, <2>1 DEF UpdateInv, InstallFetched, SameShell
<1>3. ASSUME gaps = {}, worker.active.rev # None PROVE U!Whole'
  <2>1. worker.active.rev \in U!Revisions
    BY <1>3, UpdateTyped DEF UpdateInv, Revision
  <2> QED BY <1>3, <2>1 DEF UpdateInv, U!Whole, SameShell
<1>4. gaps = {} => \A t \in Pages : PageFollows(views[t])'
  BY DEF PageFollows
<1> QED BY <1>1, <1>2, <1>3, <1>4 DEF UpdateInv

LEMMA ControlledPage ==
  ASSUME NEW p \in Shown, NEW r \in Revision
  PROVE  /\ U!ControlledBy(p, r) \in Shown
         /\ U!ControlledBy(p, r).controlled = r /\ U!ControlledBy(p, r).doc = p.doc
         /\ U!ControlledBy(p, r).target = p.target /\ U!ControlledBy(p, r).mixed = p.mixed
         /\ U!ControlledBy(p, r).overtaken <=> p.overtaken \/ p.controlled # r
<1>1. PICK b \in BOOLEAN : b = (p.overtaken \/ p.controlled # r)
  BY DEF Shown
<1>2. U!ControlledBy(p, r) = [p EXCEPT !.controlled = r, !.overtaken = b]
  BY <1>1 DEF U!ControlledBy
<1>3. PICK q : q = [p EXCEPT !.controlled = r, !.overtaken = b]
  OBVIOUS
<1>4. q \in Shown
  BY <1>3 DEF Shown
<1>5. /\ q.controlled = r /\ q.doc = p.doc /\ q.target = p.target /\ q.mixed = p.mixed
      /\ q.overtaken = b
  BY <1>3 DEF Shown
<1> QED BY <1>1, <1>2, <1>3, <1>4, <1>5

LEMMA ActivateStep ==
  ASSUME UpdateInv, U!Activate
  PROVE  UpdateInv'
<1> DEFINE r == worker.install.rev
<1>1. r \in Revision /\ r # None /\ r \in U!Revisions
  BY UpdateTyped DEF Revision, UpdateInv, U!Activate
<1>2. /\ worker' \in WorkerType /\ worker'.active.rev = r
      /\ worker'.install = U!NoInstall /\ worker'.install.rev = None
  <2>1. U!NoInstall \in InstallType /\ U!NoInstall.rev = None
    BY DEF U!NoInstall, Revision, InstallType
  <2>2. worker' = [active |-> [rev |-> r, activating |-> TRUE], install |-> U!NoInstall]
    BY DEF U!Activate
  <2> HIDE DEF r
  <2> QED BY <1>1, <2>1, <2>2 DEF WorkerType
<1>3. \A t \in Pages : views'[t] = IF views[t].controlled = None THEN views[t]
                                  ELSE U!ControlledBy(views[t], r)
  BY DEF U!Activate
<1>4. views' \in [Pages -> Shown]
  <2>1. \A t \in Pages : views'[t] \in Shown
    BY <1>1, <1>3, ControlledPage, UpdateTyped DEF UpdateInv
  <2> QED BY <2>1 DEF U!Activate
<1>5. UpdateTypes'
  BY <1>2, <1>4 DEF UpdateInv, UpdateTypes, U!Activate
<1>6. InstallFetched'
  BY <1>2 DEF InstallFetched
<1>7. gaps = {} => U!Whole'
  <2>1. worker.install.left = {} /\ caches' = caches
    BY DEF U!Activate
  <2> QED BY <1>1, <1>2, <2>1 DEF UpdateInv, InstallFetched, U!Whole, U!Assets
<1>8. ASSUME gaps = {}, NEW t \in Pages PROVE PageFollows(views[t])'
  <2>1. views[t] \in Shown /\ PageFollows(views[t])
    BY <1>8, UpdateTyped DEF UpdateInv
  <2>2. r # worker.active.rev
    BY <1>1, <1>8 DEF UpdateInv, InstallFetched
  <2>3. CASE views[t].controlled = None
    BY <1>3, <2>1, <2>3 DEF PageFollows
  <2>4. CASE views[t].controlled # None
    <3>1. views[t].controlled # r
      BY <2>1, <2>2, <2>4 DEF PageFollows
    <3> HIDE DEF r
    <3> QED BY <1>1, <1>2, <1>3, <2>1, <2>4, <3>1, ControlledPage DEF PageFollows
  <2> QED BY <2>3, <2>4
<1>9. gaps' = gaps
  BY DEF U!Activate
<1> QED BY <1>5, <1>6, <1>7, <1>8, <1>9 DEF UpdateInv

LEMMA ActivatedStep ==
  ASSUME UpdateInv, U!Activated
  PROVE  UpdateInv'
<1> DEFINE r == worker.active.rev
           i == worker.install
           d == i.dangling \/ i.rev \notin {None, r}
<1>1. r \in Revision /\ r \in U!Revisions /\ i.dangling \in BOOLEAN /\ i.rev \in Revision
  BY UpdateTyped DEF Revision, UpdateInv, UpdateTypes, U!Activated
<1>2. /\ worker' \in WorkerType /\ worker'.active.rev = r
      /\ worker'.install.rev = i.rev /\ (i.rev = None => worker'.install = i)
  <2>1. PICK e \in BOOLEAN : e = d
    OBVIOUS
  <2>2. worker' = [worker EXCEPT !.active.activating = FALSE, !.install.dangling = e]
    BY <2>1 DEF U!Activated
  <2>3. worker \in WorkerType
    BY DEF UpdateInv, UpdateTypes
  <2>4. i.rev = None => e = i.dangling
    BY <1>1, <2>1
  <2>5. worker' \in WorkerType /\ worker'.active.rev = r /\ worker'.install.rev = i.rev
    BY <2>2, <2>3 DEF WorkerType, InstallType
  <2>6. worker'.install = [i EXCEPT !.dangling = e]
    BY <2>2, <2>3 DEF WorkerType, InstallType
  <2>7. i.rev = None => worker'.install = i
    BY <2>3, <2>4, <2>6 DEF WorkerType, InstallType
  <2> QED BY <2>5, <2>7
<1>3. caches' \in [U!Revisions -> [U!Files -> Revision]] /\ caches'[r] = caches[r]
  BY <1>1 DEF UpdateInv, UpdateTypes, U!Activated, U!NoCache, Revision
<1>4. \A t \in Pages : views'[t] = IF views[t].doc = None THEN views[t]
                                  ELSE U!ControlledBy(views[t], r)
  BY DEF U!Activated
<1>5. views' \in [Pages -> Shown]
  <2>1. \A t \in Pages : views'[t] \in Shown
    BY <1>1, <1>4, ControlledPage, UpdateTyped DEF UpdateInv
  <2> QED BY <2>1 DEF U!Activated
<1>6. UpdateTypes'
  BY <1>2, <1>3, <1>5, UpdateTyped DEF UpdateInv, UpdateTypes, U!Activated
<1>7. ASSUME gaps' = {} PROVE i.rev = None /\ gaps = {}
  <2>1. gaps = {} /\ i.rev \in {None, r}
    BY <1>7 DEF U!Activated
  <2> QED BY <2>1 DEF UpdateInv, InstallFetched
<1>8. gaps' = {} => InstallFetched' /\ U!Whole'
  <2>1. gaps' = {} => U!Whole
    BY <1>7 DEF UpdateInv, U!Activated, UpdateTypes
  <2>2. U!Whole => U!Whole'
    <3> HIDE DEF i
    <3> QED BY <1>2, <1>3 DEF U!Whole
  <2>3. gaps' = {} => InstallFetched'
    BY <1>2, <1>7 DEF InstallFetched
  <2> QED BY <2>1, <2>2, <2>3
<1>9. ASSUME gaps' = {}, NEW t \in Pages PROVE PageFollows(views[t])'
  <2>1. views[t] \in Shown /\ PageFollows(views[t])
    BY <1>7, <1>9, UpdateTyped DEF UpdateInv
  <2>2. CASE views[t].doc = None
    BY <1>2, <1>4, <2>1, <2>2 DEF PageFollows
  <2>3. CASE views[t].doc # None
    <3> DEFINE p == U!ControlledBy(views[t], r)
    <3>1. /\ p.controlled = r /\ p.doc = views[t].doc
          /\ p.target = views[t].target /\ p.mixed = views[t].mixed
          /\ p.overtaken <=> views[t].overtaken \/ views[t].controlled # r
      BY <1>1, <2>1, ControlledPage
    <3>2. views'[t] = p
      BY <1>4, <2>3
    <3> HIDE DEF r, p
    <3> QED BY <1>2, <2>1, <3>1, <3>2 DEF PageFollows
  <2> QED BY <2>2, <2>3
<1> QED BY <1>6, <1>8, <1>9 DEF UpdateInv

(* Where the worker is whole, a file comes from its cache and the cache      *)
(* stays as it is.                                                           *)
LEMMA GivenWhole ==
  ASSUME UpdateInv, gaps = {}, NEW a \in U!Assets, NEW c, c = worker.active.rev
  PROVE  c # None => U!Given(c, a) = c /\ U!Kept(c, a) = caches
<1> SUFFICES ASSUME c # None PROVE U!Given(c, a) = c /\ U!Kept(c, a) = caches
  OBVIOUS
<1>1. c \in U!Revisions /\ caches[c] \in [U!Files -> Revision] /\ caches[c][a] = c
  BY UpdateTyped DEF UpdateInv, UpdateTypes, U!Whole, Revision
<1>2. U!Given(c, a) = c
  BY <1>1 DEF U!Given
<1>3. [caches EXCEPT ![c][a] = c] = caches
  BY <1>1 DEF UpdateInv, UpdateTypes, U!Files
<1> QED BY <1>2, <1>3 DEF U!Kept

LEMMA GivenTyped ==
  ASSUME UpdateInv, NEW a \in U!Files, NEW c \in Revision
  PROVE  U!Given(c, a) \in U!Revisions /\ U!Kept(c, a) \in [U!Revisions -> [U!Files -> Revision]]
<1>1. U!Given(c, a) \in U!Revisions
  BY UpdateTyped DEF UpdateInv, UpdateTypes, U!Given, Revision
<1> QED BY <1>1 DEF UpdateInv, UpdateTypes, U!Kept, Revision

LEMMA KeptUnmoved == ASSUME NEW a PROVE U!Kept(None, a) = caches
BY DEF U!Kept

(* An optional file is kept beside the shell.                                *)
LEMMA KeptBeside ==
  ASSUME UpdateInv, NEW a \in U!OptionalAssets, NEW c \in Revision, caches' = U!Kept(c, a)
  PROVE  SameShell
<1> SUFFICES ASSUME NEW r \in U!Revisions, NEW b \in U!Assets PROVE caches'[r][b] = caches[r][b]
  BY DEF SameShell
<1>1. a # b /\ caches[r] \in [U!Files -> Revision] /\ b \in U!Files
  BY DEF UpdateInv, UpdateTypes, U!OptionalAssets, U!Assets, U!Files
<1>2. PICK w : w = U!Given(c, a)
  OBVIOUS
<1>3. c # None => caches' = [caches EXCEPT ![c][a] = w]
  BY <1>2 DEF U!Kept
<1> QED BY <1>1, <1>3, KeptUnmoved DEF UpdateInv, UpdateTypes

LEMMA LoadStep ==
  ASSUME UpdateInv, NEW t \in Pages, NEW target \in Revision, U!Load(t, target),
         target # None => target = views[t].controlled, 
         site' = site, worker' = worker, jobs' = jobs, gaps' = gaps
  PROVE  UpdateInv'
<1> DEFINE c   == worker.active.rev
           doc == U!Given(c, "index")
<1>1. c \in Revision /\ doc \in U!Revisions /\ "index" \in U!Assets /\ "index" \in U!Files
  BY UpdateTyped, GivenTyped DEF UpdateInv, U!Assets, U!Files
<1>2. caches' = U!Kept(c, "index")
  BY DEF U!Load
<1>3. PICK p : p = [U!NoPage EXCEPT !.doc = doc, !.latest = doc, !.controlled = c, !.target = target]
  OBVIOUS
<1>4. views' = [views EXCEPT ![t] = p]
  BY <1>3 DEF U!Load
<1> HIDE DEF c, doc
<1>5. /\ p \in Shown /\ p.doc = doc /\ p.controlled = c /\ p.target = target /\ p.mixed = {}
  BY <1>1, <1>3 DEF Shown, U!NoPage, Revision
<1>6. views' \in [Pages -> Shown]
  BY <1>4, <1>5 DEF UpdateInv, UpdateTypes
<1>7. ASSUME gaps = {} PROVE caches' = caches /\ (c # None => doc = c)
  BY <1>1, <1>2, <1>7, GivenWhole, KeptUnmoved DEF c, doc
<1>8. ASSUME gaps = {}, NEW u \in Pages PROVE PageFollows(views'[u])
  <2>1. PageFollows(views[u]) /\ PageFollows(views[t])
    BY <1>8 DEF UpdateInv
  <2>2. CASE u # t
    BY <1>4, <2>1, <2>2 DEF UpdateInv, UpdateTypes
  <2>3. CASE u = t
    <3>1. views'[u] = p
      BY <1>4, <2>3 DEF UpdateInv, UpdateTypes
    <3>2. target # None => target = c
      BY <2>1 DEF PageFollows, c
    <3> QED BY <1>5, <1>7, <1>8, <3>1, <3>2 DEF PageFollows, c
  <2> QED BY <2>2, <2>3
<1>9. caches' \in [U!Revisions -> [U!Files -> Revision]]
  BY <1>1, <1>2, GivenTyped
<1>10. jobs' \subseteq Revision
  BY DEF UpdateInv, UpdateTypes
<1>11. gaps = {} => SameShell
  BY <1>7 DEF SameShell
<1> QED BY <1>6, <1>8, <1>9, <1>10, <1>11, PagesChange

LEMMA OpenStep ==
  ASSUME UpdateInv, NEW t \in Pages, U!Open(t)
  PROVE  UpdateInv'
BY LoadStep DEF U!Open, Revision

LEMMA ReloadStep ==
  ASSUME UpdateInv, NEW t \in Pages, U!Reload(t)
  PROVE  UpdateInv'
<1>1. views[t] \in Shown
  BY UpdateTyped DEF UpdateInv
<1>2. views[t].aim \in Revision /\ views[t].aim = views[t].controlled
  BY <1>1 DEF U!Reload, U!Ready, Shown
<1> QED BY <1>2, LoadStep DEF U!Reload

LEMMA FileStep ==
  ASSUME UpdateInv, NEW t \in Pages, NEW a \in U!Files, U!LoadFile(t, a)
  PROVE  UpdateInv'
<1> DEFINE c == views[t].controlled
<1>1. views[t] \in Shown /\ c \in Revision
  BY UpdateTyped DEF UpdateInv, Shown
<1>2. caches' = U!Kept(c, a)
  BY DEF U!LoadFile
<1>3. PICK m : m = views[t].mixed \cup IF U!Given(c, a) # views[t].doc THEN {a} ELSE {}
  OBVIOUS
<1>4. m \in SUBSET U!Files
  BY <1>1, <1>3 DEF Shown
<1>5. PICK p : p = [views[t] EXCEPT !.mixed = m]
  OBVIOUS
<1>6. views' = [views EXCEPT ![t] = p]
  BY <1>3, <1>5 DEF U!LoadFile, UpdateInv, UpdateTypes
<1>7. /\ p \in Shown /\ p.doc = views[t].doc /\ p.controlled = c /\ p.target = views[t].target
      /\ p.mixed = m /\ p.overtaken = views[t].overtaken
  BY <1>1, <1>4, <1>5 DEF Shown
<1>8. views' \in [Pages -> Shown]
  BY <1>6, <1>7 DEF UpdateInv, UpdateTypes
<1>9. ASSUME gaps = {}, a \in U!Assets PROVE caches' = caches /\ (c # None => U!Given(c, a) = c)
  <2>1. c # None => c = worker.active.rev
    BY <1>9 DEF UpdateInv, PageFollows
  <2> QED BY <1>1, <1>2, <1>9, <2>1, GivenWhole, KeptUnmoved
<1>10. ASSUME gaps = {}, NEW u \in Pages PROVE PageFollows(views'[u])
  <2>1. PageFollows(views[u]) /\ PageFollows(views[t])
    BY <1>10 DEF UpdateInv
  <2>2. CASE u # t
    BY <1>6, <2>1, <2>2 DEF UpdateInv, UpdateTypes
  <2>3. CASE u = t
    <3>1. views'[u] = p
      BY <1>6, <2>3 DEF UpdateInv, UpdateTypes
    <3>2. ASSUME ~views[t].overtaken, c # None PROVE m \subseteq U!OptionalAssets
      <4>1. views[t].mixed \subseteq U!OptionalAssets /\ views[t].doc = c
        BY <2>1, <3>2 DEF PageFollows
      <4>2. CASE a \in U!OptionalAssets
        BY <1>3, <4>1, <4>2
      <4>3. CASE a \in U!Assets
        BY <1>3, <1>9, <1>10, <3>2, <4>1, <4>3
      <4> QED BY <4>2, <4>3 DEF U!Files
    <3> HIDE DEF c
    <3> QED BY <1>7, <2>1, <3>1, <3>2 DEF PageFollows, c
  <2> QED BY <2>2, <2>3
<1>11. caches' \in [U!Revisions -> [U!Files -> Revision]]
  BY <1>1, <1>2, GivenTyped
<1>12. gaps = {} => SameShell
  <2>1. CASE a \in U!OptionalAssets
    BY <1>1, <1>2, <2>1, KeptBeside
  <2>2. CASE a \in U!Assets
    BY <1>9, <2>2 DEF SameShell
  <2> QED BY <2>1, <2>2 DEF U!Files
<1>13. /\ jobs' \subseteq Revision /\ site' = site /\ worker' = worker /\ gaps' = gaps
  BY DEF UpdateInv, UpdateTypes, U!LoadFile
<1> QED BY <1>8, <1>10, <1>11, <1>12, <1>13, PagesChange

(* What a page asks for does not matter to what it shows.                    *)
SameView(p, q) ==
  /\ p.doc = q.doc /\ p.mixed = q.mixed /\ p.controlled = q.controlled
  /\ p.overtaken = q.overtaken /\ p.target = q.target

LEMMA AsksStep ==
  ASSUME UpdateInv, site' = site, worker' = worker, gaps' = gaps, caches' = caches,
         jobs' \subseteq Revision, views' \in [Pages -> Shown],
         \A t \in Pages : SameView(views'[t], views[t])
  PROVE  UpdateInv'
<1>1. gaps = {} => \A t \in Pages : PageFollows(views'[t])
  BY DEF UpdateInv, SameView, PageFollows
<1>2. caches' \in [U!Revisions -> [U!Files -> Revision]]
  BY DEF UpdateInv, UpdateTypes
<1>3. SameShell
  BY DEF SameShell
<1> QED BY <1>1, <1>2, <1>3, PagesChange

LEMMA AsksTyped ==
  ASSUME UpdateInv, NEW t \in Pages, NEW p \in Shown, SameView(p, views[t]),
         views' = [views EXCEPT ![t] = p]
  PROVE  views' \in [Pages -> Shown] /\ \A u \in Pages : SameView(views'[u], views[u])
<1>1. views \in [Pages -> Shown]
  BY DEF UpdateInv, UpdateTypes
<1> QED BY <1>1 DEF SameView

LEMMA CacheVersionStep ==
  ASSUME UpdateInv, NEW t \in Pages, U!CacheVersion(t, site.rev)
  PROVE  UpdateInv'
<1>1. views[t] \in Shown /\ site.rev \in Revision /\ site.rev \in U!Revisions
  BY UpdateTyped DEF UpdateInv, Revision
<1>2. PICK p : p = [views[t] EXCEPT !.latest = site.rev, !.registered = TRUE]
  OBVIOUS
<1>3. p \in Shown /\ SameView(p, views[t])
  BY <1>1, <1>2 DEF Shown, SameView
<1>4. views' = [views EXCEPT ![t] = p]
  BY <1>1, <1>2 DEF U!CacheVersion, UpdateInv, UpdateTypes
<1>5. views' \in [Pages -> Shown] /\ \A u \in Pages : SameView(views'[u], views[u])
  BY <1>3, <1>4, AsksTyped
<1>6. jobs' \subseteq Revision
  BY <1>1 DEF U!CacheVersion, U!Ask, UpdateInv, UpdateTypes
<1> QED BY <1>5, <1>6, AsksStep DEF U!CacheVersion

LEMMA PrepareStep ==
  ASSUME UpdateInv, NEW t \in Pages, U!PrepareReload(t)
  PROVE  UpdateInv'
<1>1. views[t] \in Shown /\ views[t].latest \in Revision
  BY UpdateTyped DEF UpdateInv, Shown
<1>2. PICK p : p = [views[t] EXCEPT !.aim = views[t].latest, !.registered = TRUE]
  OBVIOUS
<1>3. p \in Shown /\ SameView(p, views[t])
  BY <1>1, <1>2 DEF Shown, SameView
<1>4. views' = [views EXCEPT ![t] = p]
  BY <1>1, <1>2 DEF U!PrepareReload, UpdateInv, UpdateTypes
<1>5. views' \in [Pages -> Shown] /\ \A u \in Pages : SameView(views'[u], views[u])
  BY <1>3, <1>4, AsksTyped
<1>6. jobs' \subseteq Revision
  BY <1>1 DEF U!PrepareReload, U!Ask, UpdateInv, UpdateTypes, Revision
<1> QED BY <1>5, <1>6, AsksStep DEF U!PrepareReload

LEMMA ReloadFailsStep ==
  ASSUME UpdateInv, NEW t \in Pages, U!ReloadFails(t)
  PROVE  UpdateInv'
<1>1. views[t] \in Shown
  BY UpdateTyped DEF UpdateInv
<1>2. PICK p : p = [views[t] EXCEPT !.aim = None]
  OBVIOUS
<1>3. p \in Shown /\ SameView(p, views[t])
  BY <1>1, <1>2 DEF Shown, SameView, Revision
<1>4. views' = [views EXCEPT ![t] = p]
  BY <1>1, <1>2 DEF U!ReloadFails, UpdateInv, UpdateTypes
<1>5. views' \in [Pages -> Shown] /\ \A u \in Pages : SameView(views'[u], views[u])
  BY <1>3, <1>4, AsksTyped
<1> QED BY <1>5, AsksStep DEF U!ReloadFails, UpdateInv, UpdateTypes

LEMMA JobFailsStep ==
  ASSUME UpdateInv, NEW r \in U!Revisions, U!JobFails(r)
  PROVE  UpdateInv'
<1>1. ASSUME NEW t \in Pages PROVE views'[t] \in Shown /\ SameView(views'[t], views[t])
  <2>1. views[t] \in Shown
    BY UpdateTyped DEF UpdateInv
  <2>2. PICK p : p = [views[t] EXCEPT !.registered = FALSE, !.aim = None]
    OBVIOUS
  <2>3. p \in Shown /\ SameView(p, views[t])
    BY <2>1, <2>2 DEF Shown, SameView, Revision
  <2>4. views'[t] = p \/ views'[t] = views[t]
    BY Zenon, <2>2 DEF U!JobFails
  <2> QED BY <2>1, <2>3, <2>4 DEF SameView
<1>2. views' \in [Pages -> Shown]
  BY Zenon, <1>1 DEF U!JobFails
<1>3. jobs' \subseteq Revision
  BY Zenon DEF U!JobFails, UpdateInv, UpdateTypes
<1> QED BY Zenon, <1>1, <1>2, <1>3, AsksStep DEF U!JobFails

LEMMA CloseStep ==
  ASSUME UpdateInv, NEW t \in Pages, U!Close(t)
  PROVE  UpdateInv'
<1>1. U!NoPage \in Shown /\ PageFollows(U!NoPage)
  BY DEF U!NoPage, Shown, Revision, PageFollows
<1>2. views' \in [Pages -> Shown]
  BY <1>1 DEF U!Close, UpdateInv, UpdateTypes
<1>3. gaps = {} => \A u \in Pages : PageFollows(views'[u])
  BY <1>1 DEF U!Close, UpdateInv, UpdateTypes
<1>4. SameShell
  BY DEF SameShell, U!Close
<1> QED BY <1>2, <1>3, <1>4, PagesChange DEF U!Close, UpdateInv, UpdateTypes

LEMMA UpdateStep == UpdateInv /\ U!Next => UpdateInv'
BY DeployStep, RunJobStep, JobFailsStep, UpdateCheckStep, InstallFailsStep, ActivateStep,
   ActivatedStep, InstallAssetStep, OpenStep, CloseStep, PrepareStep, ReloadStep,
   ReloadFailsStep, CacheVersionStep, FileStep DEF U!Next

UpdateClient == active = "update" => UpdateInv

(* The files a worker serves are of one revision, all of them, and a page    *)
(* that reloaded for an update shows the announced one, outside the events   *)
(* that sw.js does not provide for.                                          *)
THEOREM ShellIsWholeHolds == ClientSpec => []ShellIsWhole
<1>1. ClientInit => UpdateClient
  BY UpdateStart DEF ClientInit, UpdateClient
<1>2. UpdateClient /\ [ClientNext]_vars => UpdateClient'
  <2> SUFFICES ASSUME UpdateClient, [ClientNext]_vars, active' = "update" PROVE UpdateInv'
    BY DEF UpdateClient
  <2>1. active = "update" /\ UpdateInv
    BY DEF UpdateClient, ClientNext, vars
  <2>2. CASE U!Next
    BY <2>1, <2>2, UpdateStep
  <2>3. CASE UNCHANGED updateVars
    BY <2>1, <2>3 DEF updateVars, UpdateInv, UpdateTypes, InstallFetched, U!Whole, PageFollows
  <2> QED BY <2>1, <2>2, <2>3 DEF ClientNext, vars
<1>3. UpdateClient => ShellIsWhole
  BY UpdateTyped DEF UpdateClient, UpdateInv, ShellIsWhole, U!ShellIsWhole, PageFollows
<1> QED BY <1>1, <1>2, <1>3, PTL DEF ClientSpec

(***************************************************************************)
(* Preferences                                                             *)
(***************************************************************************)
Value == Values \cup {Default}
Maps  == UNION {[D -> Value] : D \in SUBSET S!Settings}

Document == [rev : Nat, val : [S!Settings -> Value]]

PatchType ==
  [rev : Nat, want : Maps, was : Maps, sent : BOOLEAN, result : {None, "applied", "conflict"},
   at : Nat, seen : Nat, skipped : BOOLEAN]

DeviceType ==
  [rev : Nat, val : [S!Settings -> Value], saving : Seq(PatchType), queue : Seq(PatchType),
   loads : SUBSET [document : Document, checked : BOOLEAN],
   ack : {None} \cup [step : {"remove"}] \cup [step : {"resolve", "show"}, document : Document],
   upto : Nat, skipped : BOOLEAN, choice : [S!Settings -> Value \cup {None}]]

(* A patch speaks of whole fields.                                           *)
WholeFields(D) == \A s \in D : \E f \in S!Fields : s \in f /\ f \subseteq D

PatchesFit(x) ==
  /\ \A i \in DOMAIN x.saving : WholeFields(DOMAIN x.saving[i].want) /\ x.saving[i].result = None
  /\ \A i \in DOMAIN x.queue : /\ WholeFields(DOMAIN x.queue[i].want)
                               /\ x.queue[i].result # None => x.queue[i].sent

(* The patch whose answer is being dealt with is the first of the queue, and *)
(* the server will not look at it again.                                     *)
Answers(x) == x.ack # None /\ x.ack.step \in {"remove", "resolve"}
AckFits(x) == Answers(x) => x.queue # <<>> /\ x.queue[1].result # None

(* What backs a choice: a patch not yet in the queue, or one in the queue    *)
(* that is not about to be removed. Of the patches not yet in the queue the  *)
(* last one on a setting has the choice, so that joining an older patch      *)
(* never hides it.                                                           *)
Carries(p, v, s) == s \in DOMAIN p.want /\ p.want[s] = v /\ p.result # "applied"
Removing(x) == x.ack = [step |-> "remove"]

Backed(x, s) ==
  \/ \E i \in DOMAIN x.saving : Carries(x.saving[i], x.choice[s], s)
  \/ \E i \in DOMAIN x.queue : (Removing(x) => i # 1) /\ Carries(x.queue[i], x.choice[s], s)

LastSaving(x, s) ==
  \A i \in DOMAIN x.saving :
    /\ s \in DOMAIN x.saving[i].want
    /\ \A j \in DOMAIN x.saving : i < j => s \notin DOMAIN x.saving[j].want
    => x.saving[i].want[s] = x.choice[s]

Chosen(x) == \A s \in S!Settings : x.choice[s] # None => Backed(x, s) /\ LastSaving(x, s)

DeviceInv(x) == x \in DeviceType /\ PatchesFit(x) /\ AckFits(x) /\ Chosen(x)

(* What another device wrote after the last change the user of d saw came    *)
(* after the revision as well that the browser of d takes for its own,       *)
(* unless an acknowledgement has taken it past such a change; and a revision *)
(* that was given to a patch of d is of no other device.                     *)
Knows(d, upto, rev, skipped) ==
  /\ rev <= document.rev
  /\ skipped \/ \A s \in S!Settings : author[s].by # d /\ author[s].at > upto => author[s].at > rev

PatchKnown(d, p) ==
  /\ Knows(d, p.seen, p.rev, p.skipped)
  /\ p.result = "applied" =>
       /\ p.at <= document.rev
       /\ \A s \in S!Settings : author[s].by # d => author[s].at # p.at

PatchesKnown(d, patches) == \A i \in DOMAIN patches : PatchKnown(d, patches[i])

LoadsKnown(loads) == \A l \in loads : l.document.rev <= document.rev
AnswerKnown(ack) == ack # None /\ ack.step \in {"resolve", "show"} => ack.document.rev <= document.rev

DeviceKnown(d, x) ==
  /\ Knows(d, x.upto, x.rev, x.skipped)
  /\ PatchesKnown(d, x.saving) /\ PatchesKnown(d, x.queue)
  /\ LoadsKnown(x.loads) /\ AnswerKnown(x.ack)

AuthorsFit ==
  /\ document \in Document
  /\ \A s \in S!Settings : author[s].at \in Nat /\ author[s].at <= document.rev

PreferencesInv ==
  /\ AuthorsFit /\ \A b \in blind : b.skipped
  /\ DOMAIN device = Devices
  /\ \A d \in Devices : DeviceInv(device[d]) /\ DeviceKnown(d, device[d])

(* A non-empty set of naturals has a least element.                          *)
LEMMA LeastNat ==
  ASSUME NEW X, X \subseteq Nat, X # {}
  PROVE  \E x \in X : \A y \in X : x <= y
<1> DEFINE R == OpToRel(<, Nat)
<1>1. IsWellFoundedOn(R, Nat)
  BY Zenon, NatLessThanWellFounded
<1>2. \A x, y \in X : <<y, x>> \in R <=> y < x
  BY DEF OpToRel
<1> HIDE DEF R
<1>3. PICK x \in X : \A y \in X : ~(<<y, x>> \in R)
  BY <1>1, WFMin
<1>4. \A y \in X : ~(y < x)
  BY <1>2, <1>3
<1> QED BY <1>4

(* Maps of settings to values.                                               *)
LEMMA MapType ==
  ASSUME NEW m
  PROVE  m \in Maps <=> /\ DOMAIN m \subseteq S!Settings
                        /\ m = [s \in DOMAIN m |-> m[s]]
                        /\ \A s \in DOMAIN m : m[s] \in Value
<1>1. ASSUME m \in Maps
      PROVE  /\ DOMAIN m \subseteq S!Settings /\ m = [s \in DOMAIN m |-> m[s]]
             /\ \A s \in DOMAIN m : m[s] \in Value
  <2>1. PICK D \in SUBSET S!Settings : m \in [D -> Value]
    BY <1>1 DEF Maps
  <2> QED BY <2>1
<1>2. ASSUME DOMAIN m \subseteq S!Settings, m = [s \in DOMAIN m |-> m[s]],
             \A s \in DOMAIN m : m[s] \in Value
      PROVE  m \in Maps
  <2>1. m \in [DOMAIN m -> Value]
    BY <1>2
  <2> QED BY <1>2, <2>1 DEF Maps
<1> QED BY <1>1, <1>2

LEMMA OverType ==
  ASSUME NEW over \in Maps, NEW under \in Maps
  PROVE  /\ S!Over(over, under) \in Maps
         /\ DOMAIN S!Over(over, under) = DOMAIN over \cup DOMAIN under
         /\ \A s \in DOMAIN over : S!Over(over, under)[s] = over[s]
         /\ \A s \in DOMAIN under \ DOMAIN over : S!Over(over, under)[s] = under[s]
<1> DEFINE m == S!Over(over, under)
<1>1. m = [s \in DOMAIN over \cup DOMAIN under |-> IF s \in DOMAIN over THEN over[s] ELSE under[s]]
  BY DEF S!Over
<1>2. DOMAIN m = DOMAIN over \cup DOMAIN under
  BY <1>1
<1>3. /\ \A s \in DOMAIN over : m[s] = over[s]
      /\ \A s \in DOMAIN under \ DOMAIN over : m[s] = under[s]
  BY <1>1
<1>4. m = [s \in DOMAIN m |-> m[s]]
  BY <1>1
<1> HIDE DEF m
<1>5. m \in Maps
  BY <1>2, <1>3, <1>4, MapType
<1> QED BY <1>2, <1>3, <1>5 DEF m

LEMMA OnType ==
  ASSUME NEW m \in [S!Settings -> Value], NEW X \in SUBSET S!Settings
  PROVE  /\ S!On(X, m) \in Maps /\ DOMAIN S!On(X, m) = X
         /\ \A s \in X : S!On(X, m)[s] = m[s]
<1>1. S!On(X, m) \in [X -> Value] /\ \A s \in X : S!On(X, m)[s] = m[s]
  BY DEF S!On
<1> QED BY <1>1 DEF Maps

(* Whole fields.                                                             *)
LEMMA TouchedFields ==
  ASSUME NEW X \in SUBSET S!Settings
  PROVE  /\ X \subseteq S!Touched(X) /\ S!Touched(X) \subseteq S!Settings
         /\ WholeFields(S!Touched(X))
         /\ \A D \in SUBSET S!Settings : WholeFields(D) /\ X \subseteq D => S!Touched(X) \subseteq D
<1>1. \A f \in S!Fields : f \subseteq S!Settings
  BY DEF S!Fields, S!Settings
<1>2. \A s \in S!Settings : \E f \in S!Fields : s \in f
  BY DEF S!Fields, S!Settings
<1>3. \A s \in S!Touched(X) : \E f \in S!Fields : s \in f /\ f \subseteq S!Touched(X)
  BY DEF S!Touched
<1>4. \A f, g \in S!Fields : f \cap g # {} => f = g
  BY ClientAssumption DEF S!Fields
<1>5. X \subseteq S!Touched(X) /\ S!Touched(X) \subseteq S!Settings
  BY <1>1, <1>2 DEF S!Touched
<1>6. ASSUME NEW D \in SUBSET S!Settings, WholeFields(D), X \subseteq D, NEW s \in S!Touched(X)
      PROVE  s \in D
  <2>1. PICK f \in S!Fields : f \cap X # {} /\ s \in f
    BY DEF S!Touched
  <2>2. PICK t : t \in f /\ t \in X
    BY <2>1
  <2>3. PICK g \in S!Fields : t \in g /\ g \subseteq D
    BY <1>6, <2>2 DEF WholeFields
  <2>4. f = g
    BY <1>4, <2>2, <2>3
  <2> QED BY <2>1, <2>3, <2>4
<1> QED BY <1>3, <1>5, <1>6 DEF WholeFields

LEMMA WholeUnion ==
  ASSUME NEW D, NEW E, WholeFields(D), WholeFields(E)
  PROVE  WholeFields(D \cup E)
BY DEF WholeFields

(* A step of one device.                                                     *)
LEMMA DeviceChange ==
  ASSUME PreferencesInv, NEW d \in Devices, NEW y, device' = [device EXCEPT ![d] = y],
         DeviceInv(y), DeviceKnown(d, y),
         document' = document, author' = author, blind' = blind
  PROVE  PreferencesInv'
<1>1. AuthorsFit' /\ \A b \in blind' : b.skipped
  BY DEF PreferencesInv, AuthorsFit
<1>2. DOMAIN device' = Devices
  BY DEF PreferencesInv
<1>3. ASSUME NEW e \in Devices PROVE (DeviceInv(device[e]) /\ DeviceKnown(e, device[e]))'
  <2>1. PICK x : x = device'[e]
    OBVIOUS
  <2>2. DeviceInv(x) /\ DeviceKnown(e, x)
    BY <2>1 DEF PreferencesInv
  <2> QED BY <2>1, <2>2 DEF DeviceKnown, Knows, PatchesKnown, PatchKnown, LoadsKnown, AnswerKnown
<1> QED BY <1>1, <1>2, <1>3 DEF PreferencesInv

(* A patch with the history of one that fits, fits.                          *)
SameHistory(p, q) ==
  /\ p.rev = q.rev /\ p.seen = q.seen /\ p.skipped = q.skipped
  /\ p.result = q.result /\ p.at = q.at

LEMMA HistoryKept ==
  ASSUME NEW d, NEW p, NEW q, SameHistory(p, q), PatchKnown(d, q)
  PROVE  PatchKnown(d, p)
BY DEF SameHistory, PatchKnown

LEMMA NoneIsNoResult == None # "applied" /\ None # "conflict"
BY ClientAssumption

LEMMA NoneIsNoStep == None # [step |-> "remove"]
BY ClientAssumption

LEMMA FullMap ==
  ASSUME NEW m
  PROVE  m \in [S!Settings -> Value] <=> m \in Maps /\ DOMAIN m = S!Settings
BY MapType

LEMMA DeviceFields ==
  ASSUME NEW x \in DeviceType
  PROVE  /\ x.rev \in Nat /\ x.val \in [S!Settings -> Value]
         /\ x.saving \in Seq(PatchType) /\ x.queue \in Seq(PatchType)
         /\ x.upto \in Nat /\ x.choice \in [S!Settings -> Value \cup {None}]
         /\ x.skipped \in BOOLEAN
BY DEF DeviceType

(* At first a browser knows every change up to its revision, or has skipped  *)
(* some.                                                                     *)
LEMMA FirstDevice ==
  ASSUME NEW d, NEW rev \in Nat, rev <= document.rev, NEW val \in [S!Settings -> Value],
         NEW upto \in Nat, NEW x, x = S!Resting(rev, val, upto)
  PROVE  DeviceInv(x) /\ DeviceKnown(d, x)
<1>1. PICK c \in [S!Settings -> Value \cup {None}] : c = [s \in S!Settings |-> None]
  OBVIOUS
<1>2. PICK o \in Seq(PatchType) : o = <<>>
  <2>1. <<>> \in Seq(PatchType)
    OBVIOUS
  <2> QED BY Zenon, <2>1
<1>2a. PICK skipped \in BOOLEAN : skipped = (upto # rev)
  OBVIOUS
<1>3. x = [rev |-> rev, val |-> val, saving |-> o, queue |-> o, loads |-> {}, ack |-> None,
           upto |-> upto, skipped |-> skipped, choice |-> c]
  BY Zenon, <1>1, <1>2, <1>2a DEF S!Resting
<1>4. x \in DeviceType
  BY <1>3 DEF DeviceType
<1>5. /\ x.saving = o /\ x.queue = o /\ x.loads = {} /\ x.ack = None
      /\ x.rev = rev /\ x.upto = upto /\ x.choice = c /\ x.skipped = skipped
  BY <1>3
<1>6. /\ \A i : i \notin DOMAIN o
      /\ \A s \in S!Settings : c[s] = None
  BY <1>1, <1>2
<1>7. DeviceInv(x)
  <2>1. PatchesFit(x) /\ AckFits(x)
    BY <1>5, <1>6 DEF PatchesFit, AckFits, Answers
  <2>2. Chosen(x)
    BY <1>5, <1>6 DEF Chosen
  <2> QED BY <1>4, <2>1, <2>2 DEF DeviceInv
<1>8. DeviceKnown(d, x)
  <2>1. Knows(d, x.upto, x.rev, x.skipped)
    BY <1>2a, <1>5 DEF Knows
  <2>2. /\ PatchesKnown(d, x.saving) /\ PatchesKnown(d, x.queue)
        /\ LoadsKnown(x.loads) /\ AnswerKnown(x.ack)
    BY <1>5, <1>6 DEF PatchesKnown, LoadsKnown, AnswerKnown
  <2> QED BY <2>1, <2>2 DEF DeviceKnown
<1> QED BY <1>7, <1>8

LEMMA PreferencesStart == S!Init => PreferencesInv
<1> SUFFICES ASSUME S!Init PROVE PreferencesInv
  OBVIOUS
<1>1. S!Untouched \in [S!Settings -> Value]
  BY DEF Value, S!Untouched
<1>2. CASE /\ document = [rev |-> 1, val |-> S!Untouched]
           /\ device = [d \in Devices |-> S!Resting(1, S!Untouched, 1)]
           /\ author = [s \in S!Settings |-> [by |-> None, at |-> 1]]
  <2>1. AuthorsFit
    BY <1>1, <1>2 DEF AuthorsFit, Document
  <2>2. ASSUME NEW d \in Devices PROVE DeviceInv(device[d]) /\ DeviceKnown(d, device[d])
    <3>1. device[d] = S!Resting(1, S!Untouched, 1)
      BY <1>2
    <3>2. 1 \in Nat /\ 1 <= document.rev
      BY <1>2
    <3> QED BY <1>1, <3>1, <3>2, FirstDevice
  <2> QED BY <1>2, <2>1, <2>2 DEF PreferencesInv, S!Init
<1>3. ASSUME NEW d \in Devices, NEW e \in Devices, NEW p \in Plain, NEW q \in Nested,
             NEW v \in Values, NEW w \in Values, d # e, S!Skipped(d, p, v, e, q, w)
      PROVE  PreferencesInv
  <2>1. PICK shown : shown = S!Over([s \in {q} |-> w], S!Untouched)
    OBVIOUS
  <2>2. PICK chosen : chosen = [s \in {p} |-> v]
    OBVIOUS
  <2>3. PICK all : all = S!Over(chosen, shown)
    OBVIOUS
  <2>4. PICK own : own = S!Over(chosen, S!Untouched)
    OBVIOUS
  <2>5. /\ shown \in [S!Settings -> Value] /\ own \in [S!Settings -> Value]
        /\ all \in [S!Settings -> Value]
    <3>1. ASSUME NEW x \in S!Settings, NEW o \in Values, NEW m, m = [s \in {x} |-> o],
                 NEW under \in [S!Settings -> Value]
          PROVE  S!Over(m, under) \in [S!Settings -> Value]
      <4>1. m \in Maps /\ DOMAIN m = {x}
        <5>1. m \in [{x} -> Value]
          BY <3>1 DEF Value
        <5> QED BY <3>1, <5>1 DEF Maps
      <4>2. under \in Maps /\ DOMAIN under = S!Settings
        BY FullMap
      <4>3. S!Over(m, under) \in Maps /\ DOMAIN S!Over(m, under) = DOMAIN m \cup DOMAIN under
        BY <4>1, <4>2, OverType
      <4>4. DOMAIN S!Over(m, under) = S!Settings
        BY <4>1, <4>2, <4>3
      <4> QED BY <4>3, <4>4, FullMap
    <3>2. p \in S!Settings /\ q \in S!Settings
      BY DEF S!Settings
    <3>3. shown \in [S!Settings -> Value] /\ own \in [S!Settings -> Value]
      BY <1>1, <2>1, <2>2, <2>4, <3>1, <3>2
    <3> QED BY <2>2, <2>3, <3>1, <3>2, <3>3
  <2>6. document = [rev |-> 3, val |-> all]
    BY <1>3, <2>1, <2>2, <2>3 DEF S!Skipped
  <2>7. AuthorsFit
    <3>1. author = [s \in S!Settings |-> CASE s = p -> [by |-> d, at |-> 2]
                                           [] s = q -> [by |-> e, at |-> 3]
                                           [] OTHER -> [by |-> None, at |-> 1]]
      BY <1>3 DEF S!Skipped
    <3>2. ASSUME NEW s \in S!Settings PROVE author[s].at \in {1, 2, 3}
      BY <3>1
    <3>3. document \in Document /\ document.rev = 3
      BY <2>5, <2>6 DEF Document
    <3> QED BY <3>2, <3>3 DEF AuthorsFit
  <2>8. device = [x \in Devices |->
           CASE x = d -> S!Resting(2, own, 2)
             [] x = e -> S!Resting(3, shown, 1)
             [] OTHER -> S!Resting(1, S!Untouched, 1)]
    BY <1>3, <2>1, <2>2, <2>4 DEF S!Skipped
  <2>9. ASSUME NEW x \in Devices PROVE DeviceInv(device[x]) /\ DeviceKnown(x, device[x])
    <3>0. 1 \in Nat /\ 2 \in Nat /\ 3 \in Nat /\ 1 <= document.rev /\ 2 <= document.rev
          /\ 3 <= document.rev
      BY <2>6
    <3>1. CASE x = d
      <4>1. device[x] = S!Resting(2, own, 2)
        BY Zenon, <1>3, <2>8, <3>1
      <4> QED BY <2>5, <3>0, <4>1, FirstDevice
    <3>2. CASE x # d /\ x = e
      <4>1. device[x] = S!Resting(3, shown, 1)
        BY Zenon, <1>3, <2>8, <3>2
      <4> QED BY <2>5, <3>0, <4>1, FirstDevice
    <3>3. CASE x # d /\ x # e
      <4>1. device[x] = S!Resting(1, S!Untouched, 1)
        BY Zenon, <2>8, <3>3
      <4> QED BY <1>1, <3>0, <4>1, FirstDevice
    <3> QED BY <3>1, <3>2, <3>3
  <2>10. DOMAIN device = Devices /\ blind = {}
    BY <2>8 DEF S!Init
  <2> QED BY <2>7, <2>9, <2>10 DEF PreferencesInv
<1> QED BY Zenon, <1>2, <1>3 DEF S!Init

(* The device of a step is as the invariant says.                            *)
LEMMA DeviceHolds ==
  ASSUME PreferencesInv, NEW d \in Devices
  PROVE  /\ DeviceInv(device[d]) /\ device[d] \in DeviceType /\ DeviceKnown(d, device[d])
         /\ document \in Document /\ document.rev \in Nat /\ document.val \in [S!Settings -> Value]
         /\ DOMAIN device = Devices
BY DEF PreferencesInv, DeviceInv, AuthorsFit, Document

LEMMA PatchFields ==
  ASSUME NEW rev \in Nat, NEW want \in Maps, NEW was \in Maps, NEW seen \in Nat,
         NEW skipped \in BOOLEAN, NEW p, p = S!Patch(rev, want, was, seen, skipped)
  PROVE  /\ p \in PatchType /\ p.want = want /\ p.was = was /\ p.result = None /\ ~p.sent
         /\ p.rev = rev /\ p.seen = seen /\ p.skipped = skipped
BY DEF S!Patch, PatchType

(* The user changes some settings: the new patch has them all, and what was  *)
(* chosen before is still what the browser shows or is given up.             *)
LEMMA PersistStep ==
  ASSUME PreferencesInv, NEW d \in Devices, NEW new \in Maps, S!Persist(d, new)
  PROVE  PreferencesInv'
<1> DEFINE me      == device[d]
           touched == S!Touched(DOMAIN new)
           want    == S!On(touched, S!Over(new, me.val))
           was     == S!On(touched, me.val)
           choice  == [s \in S!Settings |->
                         IF s \in DOMAIN new THEN new[s]
                         ELSE IF s \in touched /\ me.val[s] # me.choice[s] THEN None
                         ELSE me.choice[s]]
<1>1. DeviceInv(me) /\ me \in DeviceType /\ DOMAIN device = Devices
  BY DeviceHolds
<1>2. PICK val : val = S!Over(new, me.val)
  OBVIOUS
<1>3. DOMAIN new \subseteq S!Settings /\ DOMAIN new \subseteq touched /\ touched \subseteq S!Settings
      /\ WholeFields(touched)
  BY TouchedFields, MapType
<1>4. /\ val \in [S!Settings -> Value]
      /\ \A s \in S!Settings : val[s] = IF s \in DOMAIN new THEN new[s] ELSE me.val[s]
  <2>1. me.val \in Maps /\ DOMAIN me.val = S!Settings
    BY <1>1, FullMap, DeviceFields
  <2>2. val \in Maps /\ DOMAIN val = S!Settings
    <3> HIDE DEF me
    <3>1. val \in Maps /\ DOMAIN val = DOMAIN new \cup DOMAIN me.val
      BY <1>2, <2>1, OverType
    <3> QED BY <1>3, <2>1, <3>1
  <2>3. /\ \A s \in DOMAIN new : val[s] = new[s]
        /\ \A s \in S!Settings \ DOMAIN new : val[s] = me.val[s]
    BY <1>2, <2>1, OverType
  <2> QED BY <2>2, <2>3, FullMap
<1>5. PICK p : p = S!Patch(me.rev, want, was, me.upto, me.skipped)
  OBVIOUS
<1>6. /\ want \in Maps /\ DOMAIN want = touched /\ \A s \in touched : want[s] = val[s]
      /\ was \in Maps
  BY <1>1, <1>2, <1>3, <1>4, OnType, DeviceFields
<1>7. /\ p \in PatchType /\ p.want = want /\ p.result = None
      /\ p.rev = me.rev /\ p.seen = me.upto /\ p.skipped = me.skipped
  <2> HIDE DEF want, was, me
  <2> QED BY <1>1, <1>5, <1>6, PatchFields, DeviceFields
<1>8. PICK c : c = choice
  OBVIOUS
<1>9. /\ c \in [S!Settings -> Value \cup {None}]
      /\ \A s \in S!Settings : c[s] = IF s \in DOMAIN new THEN new[s]
                                    ELSE IF s \in touched /\ me.val[s] # me.choice[s] THEN None
                                    ELSE me.choice[s]
  <2>1. \A s \in S!Settings : me.choice[s] \in Value \cup {None}
    BY <1>1, DeviceFields
  <2>2. \A s \in DOMAIN new : new[s] \in Value
    BY MapType
  <2> HIDE DEF me, touched
  <2> QED BY <1>8, <2>1, <2>2
<1>10. PICK sv : sv = Append(me.saving, p)
  OBVIOUS
<1>10a. PICK y : y = [me EXCEPT !.val = val, !.saving = sv, !.choice = c]
  OBVIOUS
<1>11. device' = [device EXCEPT ![d] = y]
  <2>1. device' = [device EXCEPT ![d].val = S!Over(new, @),
                     ![d].saving = Append(@, S!Patch(me.rev, want, was, me.upto, me.skipped)),
                     ![d].choice = choice]
    BY DEF S!Persist
  <2> HIDE DEF want, was, choice
  <2>2. device' = [device EXCEPT ![d].val = val, ![d].saving = Append(@, p), ![d].choice = c]
    BY <1>1, <1>2, <1>5, <1>8, <2>1
  <2> QED BY <1>1, <1>10, <1>10a, <2>2
<1> HIDE DEF want, was, choice, me, touched
<1>12. /\ y \in DeviceType /\ y.saving = Append(me.saving, p) /\ y.queue = me.queue
       /\ y.ack = me.ack /\ y.choice = c
       /\ y.rev = me.rev /\ y.upto = me.upto /\ y.skipped = me.skipped /\ y.loads = me.loads
  <2>1. sv \in Seq(PatchType)
    BY <1>1, <1>7, <1>10, DeviceFields
  <2>2. y \in DeviceType
    BY <1>1, <1>4, <1>9, <1>10a, <2>1 DEF DeviceType
  <2> QED BY <1>1, <1>10, <1>10a, <2>2 DEF DeviceType
<1>13. /\ me.saving \in Seq(PatchType) /\ me.queue \in Seq(PatchType)
       /\ DOMAIN y.saving = 1 .. Len(me.saving) + 1 /\ DOMAIN me.saving = 1 .. Len(me.saving)
       /\ Len(me.saving) \in Nat
       /\ \A i \in 1 .. Len(me.saving) : y.saving[i] = me.saving[i]
       /\ y.saving[Len(me.saving) + 1] = p
  BY <1>1, <1>7, <1>12, DeviceFields
<1>14. PatchesFit(y)
  BY <1>1, <1>3, <1>6, <1>7, <1>12, <1>13 DEF PatchesFit, DeviceInv
<1>15. AckFits(y)
  BY <1>1, <1>12 DEF AckFits, Answers, DeviceInv
<1>16. ASSUME NEW s \in S!Settings, y.choice[s] # None PROVE Backed(y, s) /\ LastSaving(y, s)
  <2>1. CASE s \in touched
    <3>1. val[s] = c[s]
      BY <1>4, <1>9, <1>12, <1>16, <2>1
    <3>2. Carries(p, c[s], s)
      BY <1>6, <1>7, <2>1, <3>1, NoneIsNoResult DEF Carries
    <3>3. LastSaving(y, s)
      <4> SUFFICES ASSUME NEW i \in DOMAIN y.saving,
                          \A j \in DOMAIN y.saving : i < j => s \notin DOMAIN y.saving[j].want
                   PROVE  y.saving[i].want[s] = y.choice[s]
        BY DEF LastSaving
      <4>1. i = Len(me.saving) + 1
        BY <1>6, <1>7, <1>13, <2>1
      <4> QED BY <1>12, <1>13, <3>2, <4>1 DEF Carries
    <3> QED BY <1>12, <1>13, <3>2, <3>3 DEF Backed
  <2>2. CASE s \notin touched
    <3>1. c[s] = me.choice[s]
      BY <1>3, <1>9, <2>2
    <3>2. Backed(me, s) /\ LastSaving(me, s)
      BY <1>1, <1>12, <1>16, <3>1 DEF DeviceInv, Chosen
    <3>3. LastSaving(y, s)
      <4> SUFFICES ASSUME NEW i \in DOMAIN y.saving, s \in DOMAIN y.saving[i].want,
                          \A j \in DOMAIN y.saving : i < j => s \notin DOMAIN y.saving[j].want
                   PROVE  y.saving[i].want[s] = y.choice[s]
        BY DEF LastSaving
      <4>1. i \in DOMAIN me.saving
        BY <1>6, <1>7, <1>13, <2>2
      <4>2. \A j \in DOMAIN me.saving : i < j => s \notin DOMAIN me.saving[j].want
        BY <1>13
      <4> QED BY <1>12, <1>13, <3>1, <3>2, <4>1, <4>2 DEF LastSaving
    <3>4. Backed(y, s)
      BY <1>12, <1>13, <3>1, <3>2 DEF Backed, Removing
    <3> QED BY <3>3, <3>4
  <2> QED BY <2>1, <2>2
<1>17. DeviceInv(y)
  BY <1>12, <1>14, <1>15, <1>16 DEF DeviceInv, Chosen
<1>18. DeviceKnown(d, y)
  <2>1. DeviceKnown(d, me)
    BY DeviceHolds DEF me
  <2>2. PatchKnown(d, p)
    BY <1>7, <2>1, NoneIsNoResult DEF PatchKnown, DeviceKnown
  <2>3. PatchesKnown(d, y.saving)
    BY <1>13, <2>1, <2>2 DEF PatchesKnown, DeviceKnown
  <2> QED BY <1>12, <2>1, <2>3 DEF DeviceKnown
<1> QED BY <1>11, <1>17, <1>18, DeviceChange DEF S!Persist

(* A step that takes no patch away, and settles the choices of those that    *)
(* no longer back them.                                                      *)
SamePatch(p, q) == p.want = q.want /\ (p.result # None => p.sent)

StillBacked(me, y, s) ==
  /\ y.choice[s] = me.choice[s]
  /\ \A i \in DOMAIN me.queue :
       Carries(me.queue[i], me.choice[s], s) /\ (Removing(me) => i # 1) =>
         (Removing(y) => i # 1) /\ y.queue[i].result # "applied"

LEMMA QueueMarked ==
  ASSUME NEW me, DeviceInv(me), NEW y \in DeviceType, y.saving = me.saving,
         DOMAIN y.queue = DOMAIN me.queue,
         \A i \in DOMAIN me.queue : SamePatch(y.queue[i], me.queue[i]),
         AckFits(y),
         \A s \in S!Settings : y.choice[s] # None => StillBacked(me, y, s)
  PROVE  DeviceInv(y)
<1>1. PatchesFit(y)
  <2>1. PatchesFit(me)
    BY DEF DeviceInv
  <2>2. ASSUME NEW i \in DOMAIN y.saving
        PROVE  WholeFields(DOMAIN y.saving[i].want) /\ y.saving[i].result = None
    BY <2>1 DEF PatchesFit
  <2>3. ASSUME NEW i \in DOMAIN y.queue
        PROVE  /\ WholeFields(DOMAIN y.queue[i].want)
               /\ y.queue[i].result # None => y.queue[i].sent
    <3>1. i \in DOMAIN me.queue
      BY <2>3
    <3>2. SamePatch(y.queue[i], me.queue[i])
      BY <3>1
    <3>3. WholeFields(DOMAIN me.queue[i].want)
      BY <2>1, <3>1 DEF PatchesFit
    <3> QED BY <3>2, <3>3 DEF SamePatch
  <2> QED BY <2>2, <2>3 DEF PatchesFit
<1>2. ASSUME NEW s \in S!Settings, y.choice[s] # None PROVE Backed(y, s) /\ LastSaving(y, s)
  <2>0. StillBacked(me, y, s)
    BY <1>2
  <2>1. Backed(me, s) /\ LastSaving(me, s) /\ y.choice[s] = me.choice[s]
    BY <1>2, <2>0 DEF DeviceInv, Chosen, StillBacked
  <2>2. LastSaving(y, s)
    BY <2>1 DEF LastSaving
  <2>3. CASE \E i \in DOMAIN me.saving : Carries(me.saving[i], me.choice[s], s)
    <3>1. PICK i \in DOMAIN y.saving : Carries(y.saving[i], y.choice[s], s)
      BY <2>1, <2>3
    <3> QED BY <2>2, <3>1 DEF Backed
  <2>4. CASE \E i \in DOMAIN me.queue : (Removing(me) => i # 1) /\ Carries(me.queue[i], me.choice[s], s)
    <3>1. PICK i \in DOMAIN me.queue : (Removing(me) => i # 1) /\ Carries(me.queue[i], me.choice[s], s)
      BY <2>4
    <3>2. (Removing(y) => i # 1) /\ y.queue[i].result # "applied" /\ y.queue[i].want = me.queue[i].want
      <4>1. SamePatch(y.queue[i], me.queue[i]) /\ i \in DOMAIN y.queue
        BY <3>1
      <4> QED BY <2>0, <3>1, <4>1 DEF StillBacked, SamePatch
    <3>3. Carries(y.queue[i], y.choice[s], s)
      BY <2>1, <3>1, <3>2 DEF Carries
    <3>4. i \in DOMAIN y.queue
      BY <3>1
    <3> QED BY <2>2, <3>2, <3>3, <3>4 DEF Backed
  <2> QED BY <2>1, <2>2, <2>3, <2>4 DEF Backed
<1> QED BY <1>1, <1>2 DEF DeviceInv, Chosen

(* A step that leaves patches and choices alone.                             *)
LEMMA Quiet ==
  ASSUME NEW me, DeviceInv(me), NEW y \in DeviceType, y.saving = me.saving, y.queue = me.queue,
         y.choice = me.choice, Removing(y) => Removing(me), AckFits(y)
  PROVE  DeviceInv(y)
<1>1. \A i \in DOMAIN me.queue : me.queue[i].result # None => me.queue[i].sent
  BY DEF DeviceInv, PatchesFit
<1>2. \A i \in DOMAIN me.queue : \A s :
        Carries(me.queue[i], me.choice[s], s) => me.queue[i].result # "applied"
  BY DEF Carries
<1> QED BY <1>1, <1>2, QueueMarked DEF SamePatch, StillBacked

LEMMA ClaimStep ==
  ASSUME PreferencesInv, NEW d \in Devices, S!Claim(d)
  PROVE  PreferencesInv'
<1> DEFINE me == device[d]
<1>1. DeviceInv(me) /\ me \in DeviceType /\ DOMAIN device = Devices /\ me.queue \in Seq(PatchType)
  BY DeviceHolds, DeviceFields
<1>2. PICK q : q = [i \in DOMAIN me.queue |-> [me.queue[i] EXCEPT !.sent = TRUE]]
  OBVIOUS
<1>3. PICK y : y = [me EXCEPT !.queue = q]
  OBVIOUS
<1>4. device' = [device EXCEPT ![d] = y]
  BY <1>1, <1>2, <1>3 DEF S!Claim
<1> HIDE DEF me
<1>5. \A i \in DOMAIN me.queue : me.queue[i] \in PatchType
  BY <1>1
<1>6. \A i \in DOMAIN me.queue : /\ q[i] \in PatchType /\ q[i].sent
                               /\ q[i].want = me.queue[i].want /\ q[i].result = me.queue[i].result
                               /\ SameHistory(q[i], me.queue[i])
  BY <1>2, <1>5 DEF PatchType, SameHistory
<1>7. q \in Seq(PatchType) /\ DOMAIN q = DOMAIN me.queue
  <2>1. Len(me.queue) \in Nat /\ DOMAIN me.queue = 1 .. Len(me.queue)
    BY <1>1
  <2>2. q \in [1 .. Len(me.queue) -> PatchType]
    BY <1>2, <1>6, <2>1
  <2> QED BY <2>1, <2>2
<1>8. /\ y \in DeviceType /\ y.saving = me.saving /\ y.queue = q
      /\ y.ack = me.ack /\ y.choice = me.choice
      /\ y.rev = me.rev /\ y.upto = me.upto /\ y.skipped = me.skipped /\ y.loads = me.loads
  BY <1>1, <1>3, <1>7 DEF DeviceType
<1>9. AckFits(y)
  <2>1. me.queue # <<>> => 1 \in DOMAIN me.queue /\ q # <<>>
    BY <1>1, <1>7
  <2> QED BY <1>1, <1>6, <1>8, <2>1 DEF AckFits, Answers, DeviceInv
<1>10. DeviceInv(y)
  BY <1>1, <1>6, <1>7, <1>8, <1>9, QueueMarked DEF SamePatch, StillBacked, Carries, Removing
<1>11. DeviceKnown(d, y)
  <2>1. DeviceKnown(d, me)
    BY DeviceHolds DEF me
  <2>2. PatchesKnown(d, q)
    BY <1>6, <1>7, <2>1, HistoryKept DEF PatchesKnown, DeviceKnown
  <2> QED BY <1>8, <2>1, <2>2 DEF DeviceKnown
<1> QED BY <1>4, <1>10, <1>11, DeviceChange DEF S!Claim

(* The server's answer to a patch that is due.                               *)
LEMMA AnsweredQueue ==
  ASSUME NEW me \in DeviceType, DeviceInv(me), NEW i \in DOMAIN me.queue, S!Due(me.queue, i),
         NEW r \in {"applied", "conflict"}, NEW p \in PatchType,
         p.result = r, p.want = me.queue[i].want, p.sent = me.queue[i].sent,
         NEW q, q = [me.queue EXCEPT ![i] = p]
  PROVE  /\ q \in Seq(PatchType) /\ DOMAIN q = DOMAIN me.queue
         /\ \A j \in DOMAIN me.queue : q[j] = IF j = i THEN p ELSE me.queue[j]
         /\ \A j \in DOMAIN me.queue : /\ q[j].want = me.queue[j].want
                                       /\ q[j].result # None => q[j].sent
         /\ \A y \in DeviceType : y.queue = q /\ y.ack = me.ack => AckFits(y)
<1>1. me.queue \in Seq(PatchType)
  BY DeviceFields
<1>2. q \in Seq(PatchType) /\ DOMAIN q = DOMAIN me.queue
      /\ \A j \in DOMAIN me.queue : q[j] = IF j = i THEN p ELSE me.queue[j]
  BY <1>1
<1>3. me.queue[i].sent /\ me.queue[i].result = None
  BY DEF S!Due
<1>4. \A j \in DOMAIN me.queue : q[j].want = me.queue[j].want /\ (q[j].result # None => q[j].sent)
  BY <1>2, <1>3 DEF DeviceInv, PatchesFit
<1>5. ASSUME NEW y \in DeviceType, y.queue = q, y.ack = me.ack, Answers(y)
      PROVE  y.queue # <<>> /\ y.queue[1].result # None
  <2>1. me.queue # <<>> /\ me.queue[1].result # None
    BY <1>5 DEF DeviceInv, AckFits, Answers
  <2>2. 1 \in DOMAIN me.queue /\ i # 1
    BY <1>1, <1>3, <2>1
  <2>3. q[1] = me.queue[1] /\ q # <<>>
    BY <1>2, <2>2
  <2> QED BY <1>5, <2>1, <2>3
<1> QED BY <1>2, <1>4, <1>5 DEF AckFits

LEMMA RefuseStep ==
  ASSUME PreferencesInv, NEW d \in Devices, S!Refuse(d)
  PROVE  PreferencesInv'
<1> DEFINE me == device[d]
<1>1. DeviceInv(me) /\ me \in DeviceType /\ DOMAIN device = Devices /\ me.queue \in Seq(PatchType)
  BY DeviceHolds, DeviceFields
<1>2. PICK i \in DOMAIN me.queue : /\ S!Due(me.queue, i)
                                  /\ device' = [device EXCEPT ![d].queue[i].result = "conflict"]
  BY DEF S!Refuse
<1> HIDE DEF me
<1>3. PICK p : p = [me.queue[i] EXCEPT !.result = "conflict"]
  OBVIOUS
<1>4. me.queue[i] \in PatchType
  BY <1>1
<1>5. /\ p \in PatchType /\ p.result = "conflict"
      /\ p.want = me.queue[i].want /\ p.sent = me.queue[i].sent
      /\ p.rev = me.queue[i].rev /\ p.seen = me.queue[i].seen /\ p.skipped = me.queue[i].skipped
  BY <1>3, <1>4 DEF PatchType
<1>6. PICK q : q = [me.queue EXCEPT ![i] = p]
  OBVIOUS
<1>7. PICK y : y = [me EXCEPT !.queue = q]
  OBVIOUS
<1>8. device' = [device EXCEPT ![d] = y]
  BY <1>1, <1>2, <1>3, <1>6, <1>7 DEF me
<1>9. /\ q \in Seq(PatchType) /\ DOMAIN q = DOMAIN me.queue
      /\ \A j \in DOMAIN me.queue : q[j] = IF j = i THEN p ELSE me.queue[j]
      /\ \A j \in DOMAIN me.queue : q[j].want = me.queue[j].want /\ (q[j].result # None => q[j].sent)
      /\ \A z \in DeviceType : z.queue = q /\ z.ack = me.ack => AckFits(z)
  BY <1>1, <1>2, <1>5, <1>6, AnsweredQueue
<1>10. /\ y \in DeviceType /\ y.saving = me.saving /\ y.queue = q
       /\ y.ack = me.ack /\ y.choice = me.choice
       /\ y.rev = me.rev /\ y.upto = me.upto /\ y.skipped = me.skipped /\ y.loads = me.loads
  BY <1>1, <1>7, <1>9 DEF DeviceType
<1>11. \A j \in DOMAIN me.queue : \A s :
         Carries(me.queue[j], me.choice[s], s) => q[j].result # "applied"
  BY <1>5, <1>9 DEF Carries
<1>12. AckFits(y)
  BY <1>9, <1>10
<1>13. DeviceInv(y)
  BY <1>1, <1>9, <1>10, <1>11, <1>12, QueueMarked DEF SamePatch, StillBacked, Removing
<1>14. DeviceKnown(d, y)
  <2>1. DeviceKnown(d, me)
    BY DeviceHolds DEF me
  <2>2. PatchKnown(d, p)
    BY <1>5, <2>1 DEF PatchKnown, DeviceKnown, PatchesKnown
  <2>3. PatchesKnown(d, q)
    BY <1>9, <2>1, <2>2 DEF PatchesKnown, DeviceKnown
  <2> QED BY <1>10, <2>1, <2>3 DEF DeviceKnown
<1> QED BY <1>8, <1>13, <1>14, DeviceChange DEF S!Refuse

(* A choice that the server's value settles.                                 *)
LEMMA Opened ==
  ASSUME NEW x \in DeviceType, NEW settled, NEW c, c = S!Open(x, settled)
  PROVE  /\ c \in [S!Settings -> Value \cup {None}]
         /\ \A s \in S!Settings : c[s] = IF s \in settled THEN None ELSE x.choice[s]
<1>1. \A s \in S!Settings : x.choice[s] \in Value \cup {None}
  BY DeviceFields
<1> QED BY <1>1 DEF S!Open

(* A patch that applies speaks of whole fields: a setting it changes had the *)
(* value it was based on, unless the document is the one it was made for,    *)
(* and then no other device has written what its user did not see.           *)
LEMMA NothingBlind ==
  ASSUME AuthorsFit, NEW d, NEW p \in PatchType, WholeFields(DOMAIN p.want), PatchKnown(d, p),
         p.rev = document.rev \/ ~S!Conflicting(p),
         NEW s \in DOMAIN p.want, p.want[s] # document.val[s], document.val[s] # p.was[s],
         author[s].by # d, author[s].at > p.seen
  PROVE  p.skipped
<1> SUFFICES ASSUME ~p.skipped PROVE FALSE
  OBVIOUS
<1>1. s \in S!Settings /\ p.rev \in Nat /\ p.seen \in Nat /\ document.rev \in Nat
  BY MapType DEF PatchType, AuthorsFit, Document
<1>2. author[s].at \in Nat /\ author[s].at <= document.rev
  BY <1>1 DEF AuthorsFit
<1>3. p.rev # document.rev
  <2>1. author[s].at > p.rev
    BY <1>1 DEF PatchKnown, Knows
  <2> QED BY <1>1, <1>2, <2>1
<1>4. PICK f \in S!Fields : s \in f /\ f \subseteq DOMAIN p.want
  BY DEF WholeFields
<1>5. \/ S!On(f, document.val) = S!On(f, p.was)
      \/ S!On(f, document.val) = S!On(f, p.want)
  BY <1>3, <1>4 DEF S!Conflicting
<1>6. \A m : S!On(f, m)[s] = m[s]
  BY <1>4 DEF S!On
<1>7. document.val[s] = p.was[s] \/ document.val[s] = p.want[s]
  BY <1>5, <1>6
<1> QED BY <1>7

LEMMA ApplyStep ==
  ASSUME PreferencesInv, NEW d \in Devices, S!Apply(d)
  PROVE  PreferencesInv'
<1> DEFINE me == device[d]
<1>1. DeviceInv(me) /\ me \in DeviceType /\ DOMAIN device = Devices /\ me.queue \in Seq(PatchType)
  BY DeviceHolds, DeviceFields
<1>2. PICK i \in DOMAIN me.queue :
        LET patch == me.queue[i]
            changed == {s \in DOMAIN patch.want : patch.want[s] # document.val[s]}
        IN /\ S!Due(me.queue, i)
           /\ patch.rev = document.rev \/ ~S!Conflicting(patch)
           /\ document' = [rev |-> document.rev + 1, val |-> S!Over(patch.want, document.val)]
           /\ author' = [s \in S!Settings |-> IF s \in changed THEN [by |-> d, at |-> document'.rev]
                                             ELSE author[s]]
           /\ blind' = blind \cup {[skipped |-> patch.skipped] : s \in
                {s \in changed : /\ document.val[s] # patch.was[s]
                                 /\ author[s].by # d /\ author[s].at > patch.seen}}
           /\ device' = [device EXCEPT ![d].queue[i] = [patch EXCEPT !.result = "applied",
                                                                     !.at = document'.rev],
                                       ![d].upto = IF @ = document.rev THEN document'.rev ELSE @,
                                       ![d].choice = S!Open(me, S!Carried(me, patch))]
  BY ZenonT(60) DEF S!Apply
<1> HIDE DEF me
<1>3. PICK patch : patch = me.queue[i]
  OBVIOUS
<1>4. patch \in PatchType /\ WholeFields(DOMAIN patch.want) /\ patch.want \in Maps
  <2>1. patch \in PatchType
    BY <1>1, <1>3
  <2>2. WholeFields(DOMAIN patch.want)
    BY <1>1, <1>3 DEF DeviceInv, PatchesFit
  <2> QED BY <2>1, <2>2 DEF PatchType
<1>5. ASSUME NEW b \in blind' PROVE b.skipped
  <2>1. AuthorsFit /\ \A o \in blind : o.skipped
    BY DEF PreferencesInv
  <2>2. PatchKnown(d, patch)
    BY <1>3, DeviceHolds DEF DeviceKnown, PatchesKnown, me
  <2>3. ASSUME b \notin blind PROVE b.skipped
    <3>1. PICK s \in DOMAIN patch.want :
            /\ b = [skipped |-> patch.skipped] /\ patch.want[s] # document.val[s]
            /\ document.val[s] # patch.was[s]
            /\ author[s].by # d /\ author[s].at > patch.seen
      BY <1>2, <1>3, <1>5, <2>3
    <3>2. patch.rev = document.rev \/ ~S!Conflicting(patch)
      BY <1>2, <1>3
    <3>3. patch.skipped
      BY <1>4, <2>1, <2>2, <3>1, <3>2, NothingBlind
    <3> QED BY <3>1, <3>3
  <2> QED BY <2>1, <2>3
<1>6. document.rev \in Nat /\ document.val \in [S!Settings -> Value] /\ document'.rev = document.rev + 1
  BY <1>2, DeviceHolds
<1>7. AuthorsFit'
  <2>1. document' \in Document
    <3>1. S!Over(patch.want, document.val) \in [S!Settings -> Value]
      <4>1. document.val \in Maps /\ DOMAIN document.val = S!Settings
        BY <1>6, FullMap
      <4>2. /\ S!Over(patch.want, document.val) \in Maps
            /\ DOMAIN S!Over(patch.want, document.val) = DOMAIN patch.want \cup DOMAIN document.val
        BY <1>4, <4>1, OverType
      <4>3. DOMAIN patch.want \subseteq S!Settings
        BY <1>4, MapType
      <4>4. DOMAIN S!Over(patch.want, document.val) = S!Settings
        BY <4>1, <4>2, <4>3
      <4> QED BY <4>2, <4>4, FullMap
    <3> QED BY <1>2, <1>3, <1>6, <3>1 DEF Document
  <2>2. ASSUME NEW s \in S!Settings PROVE author'[s].at \in Nat /\ author'[s].at <= document'.rev
    <3>1. author'[s] = [by |-> d, at |-> document'.rev] \/ author'[s] = author[s]
      BY <1>2
    <3>2. author[s].at \in Nat /\ author[s].at <= document.rev
      BY DEF PreferencesInv, AuthorsFit
    <3> QED BY <1>6, <3>1, <3>2
  <2> QED BY <2>1, <2>2 DEF AuthorsFit
<1>8. PICK p : p = [patch EXCEPT !.result = "applied", !.at = document'.rev]
  OBVIOUS
<1>9. /\ p \in PatchType /\ p.result = "applied"
      /\ p.want = me.queue[i].want /\ p.sent = me.queue[i].sent
      /\ p.rev = me.queue[i].rev /\ p.seen = me.queue[i].seen /\ p.skipped = me.queue[i].skipped
      /\ p.at = document.rev + 1
  <2>1. PICK n \in Nat : n = document'.rev
    BY <1>6
  <2>2. p = [patch EXCEPT !.result = "applied", !.at = n]
    BY <1>8, <2>1
  <2>3. /\ p \in PatchType /\ p.result = "applied" /\ p.want = patch.want /\ p.sent = patch.sent
        /\ p.rev = patch.rev /\ p.seen = patch.seen /\ p.skipped = patch.skipped /\ p.at = n
    BY <1>4, <2>2 DEF PatchType
  <2> QED BY <1>3, <1>6, <2>1, <2>3
<1>10. PICK q : q = [me.queue EXCEPT ![i] = p]
  OBVIOUS
<1>11. PICK u : u = IF me.upto = document.rev THEN document'.rev ELSE me.upto
  OBVIOUS
<1>12. PICK c : c = S!Open(me, S!Carried(me, patch))
  OBVIOUS
<1>13. /\ c \in [S!Settings -> Value \cup {None}]
       /\ \A s \in S!Settings : c[s] = IF s \in S!Carried(me, patch) THEN None ELSE me.choice[s]
  BY <1>1, <1>12, Opened
<1>14. PICK y : y = [me EXCEPT !.queue = q, !.upto = u, !.choice = c]
  OBVIOUS
<1>15. device' = [device EXCEPT ![d] = y]
  <2>1. device' = [device EXCEPT ![d].queue[i] = p,
                                 ![d].upto = IF @ = document.rev THEN document'.rev ELSE @,
                                 ![d].choice = c]
    BY <1>2, <1>3, <1>8, <1>12
  <2>2. device' = [device EXCEPT ![d].queue[i] = p, ![d].upto = u, ![d].choice = c]
    BY <1>1, <1>11, <2>1 DEF me
  <2> QED BY <1>1, <1>10, <1>14, <2>2 DEF me
<1>16. /\ q \in Seq(PatchType) /\ DOMAIN q = DOMAIN me.queue
       /\ \A j \in DOMAIN me.queue : q[j] = IF j = i THEN p ELSE me.queue[j]
       /\ \A j \in DOMAIN me.queue : q[j].want = me.queue[j].want /\ (q[j].result # None => q[j].sent)
       /\ \A z \in DeviceType : z.queue = q /\ z.ack = me.ack => AckFits(z)
  <2>1. /\ p \in PatchType /\ p.result = "applied"
        /\ p.want = me.queue[i].want /\ p.sent = me.queue[i].sent
    BY <1>9
  <2>2. S!Due(me.queue, i)
    BY <1>2
  <2> QED BY <1>1, <1>10, <2>1, <2>2, AnsweredQueue
<1>17. /\ y \in DeviceType /\ y.saving = me.saving /\ y.queue = q
       /\ y.ack = me.ack /\ y.choice = c
       /\ y.rev = me.rev /\ y.upto = u /\ y.skipped = me.skipped /\ y.loads = me.loads
  <2>1. u \in Nat
    BY <1>1, <1>6, <1>11, DeviceFields
  <2> QED BY <1>1, <1>13, <1>14, <1>16, <2>1 DEF DeviceType
<1>18. ASSUME NEW s \in S!Settings, y.choice[s] # None PROVE StillBacked(me, y, s)
  <2>1. s \notin S!Carried(me, patch) /\ y.choice[s] = me.choice[s]
    BY <1>13, <1>17, <1>18
  <2>2. ~Carries(patch, me.choice[s], s)
    BY <2>1 DEF S!Carried, Carries
  <2>3. \A j \in DOMAIN me.queue : Carries(me.queue[j], me.choice[s], s) => q[j].result # "applied"
    BY <1>3, <1>16, <2>2 DEF Carries
  <2> QED BY <1>17, <2>1, <2>3 DEF StillBacked, Removing
<1>19. AckFits(y)
  BY <1>16, <1>17
<1>20. DeviceInv(y)
  BY <1>1, <1>16, <1>17, <1>18, <1>19, QueueMarked DEF SamePatch
<1>21. DeviceKnown(d, device[d])
  BY DeviceHolds
<1>22. PICK now : now = document'.rev /\ now = document.rev + 1 /\ now \in Nat
  BY <1>6
<1>23. PICK by : by = author'
  OBVIOUS
<1>24. \A s \in S!Settings :
         /\ author[s].at \in Nat /\ author[s].at <= document.rev
         /\ \/ by[s].by = d /\ by[s].at = now
            \/ by[s] = author[s]
  <2> SUFFICES ASSUME NEW s \in S!Settings
               PROVE  /\ author[s].at \in Nat /\ author[s].at <= document.rev
                      /\ \/ by[s].by = d /\ by[s].at = now
                         \/ by[s] = author[s]
    OBVIOUS
  <2>1. by[s] = [by |-> d, at |-> now] \/ by[s] = author[s]
    BY <1>2, <1>22, <1>23
  <2>2. author[s].at \in Nat /\ author[s].at <= document.rev
    BY DEF PreferencesInv, AuthorsFit
  <2> QED BY <2>1, <2>2
<1>25. ASSUME NEW e, NEW upto \in Nat, NEW rev \in Nat, NEW skipped \in BOOLEAN,
              Knows(e, upto, rev, skipped)
       PROVE  Knows(e, upto, rev, skipped)'
  <2>1. rev <= document.rev /\ rev <= now /\ rev < now
    BY <1>6, <1>22, <1>25 DEF Knows
  <2>2. ASSUME ~skipped, NEW s \in S!Settings, by[s].by # e, by[s].at > upto PROVE by[s].at > rev
    BY <1>22, <1>24, <1>25, <2>1, <2>2 DEF Knows
  <2> QED BY <1>22, <1>23, <2>1, <2>2 DEF Knows
<1>26. ASSUME NEW e, NEW z \in PatchType, PatchKnown(e, z) PROVE PatchKnown(e, z)'
  <2>1. z.seen \in Nat /\ z.rev \in Nat /\ z.skipped \in BOOLEAN /\ z.at \in Nat
    BY <1>26 DEF PatchType
  <2>2. Knows(e, z.seen, z.rev, z.skipped)'
    BY <1>25, <1>26, <2>1 DEF PatchKnown
  <2>3. ASSUME z.result = "applied"
        PROVE  z.at <= now /\ \A s \in S!Settings : by[s].by # e => by[s].at # z.at
    <3>1. z.at <= document.rev /\ \A s \in S!Settings : author[s].by # e => author[s].at # z.at
      BY <1>26, <2>3 DEF PatchKnown
    <3>2. z.at < now
      BY <1>6, <1>22, <2>1, <3>1
    <3> QED BY <1>22, <1>24, <2>1, <3>1, <3>2
  <2> QED BY <1>22, <1>23, <2>2, <2>3 DEF PatchKnown
<1>27. ASSUME NEW e, NEW x \in DeviceType, DeviceKnown(e, x) PROVE DeviceKnown(e, x)'
  <2>1. Knows(e, x.upto, x.rev, x.skipped)'
    BY <1>25, <1>27, DeviceFields DEF DeviceKnown
  <2>2. PatchesKnown(e, x.saving)' /\ PatchesKnown(e, x.queue)'
    <3>1. /\ \A j \in DOMAIN x.saving : x.saving[j] \in PatchType
          /\ \A j \in DOMAIN x.queue : x.queue[j] \in PatchType
      BY <1>27, DeviceFields
    <3> QED BY <1>26, <1>27, <3>1 DEF DeviceKnown, PatchesKnown
  <2>3. ASSUME NEW n \in Nat, n <= document.rev PROVE n <= now
    BY <1>6, <1>22, <2>3
  <2>4. LoadsKnown(x.loads)'
    <3>1. \A l \in x.loads : l.document.rev \in Nat
      BY <1>27 DEF DeviceType, Document
    <3> QED BY <1>22, <1>27, <2>3, <3>1 DEF DeviceKnown, LoadsKnown
  <2>5. AnswerKnown(x.ack)'
    <3>1. x.ack # None /\ x.ack.step \in {"resolve", "show"} => x.ack.document.rev \in Nat
      BY <1>27 DEF DeviceType, Document
    <3> QED BY <1>22, <1>27, <2>3, <3>1 DEF DeviceKnown, AnswerKnown
  <2> QED BY <2>1, <2>2, <2>4, <2>5 DEF DeviceKnown
<1>28. DeviceKnown(d, y)'
  <2>0. PICK o : o = me
    OBVIOUS
  <2>1. DeviceKnown(d, o)'
    <3>1. o \in DeviceType /\ DeviceKnown(d, o)
      BY <1>1, <1>21, <2>0 DEF me
    <3> QED BY <1>27, <3>1
  <2>2. o.upto \in Nat /\ o.rev \in Nat /\ o.skipped \in BOOLEAN
    BY <1>1, <2>0, DeviceFields
  <2>2a. /\ i \in DOMAIN o.queue /\ DOMAIN q = DOMAIN o.queue
         /\ p.rev = o.queue[i].rev /\ p.seen = o.queue[i].seen /\ p.skipped = o.queue[i].skipped
         /\ \A j \in DOMAIN o.queue : q[j] = IF j = i THEN p ELSE o.queue[j]
    BY <1>2, <1>9, <1>16, <2>0
  <2>2b. /\ y.saving = o.saving /\ y.queue = q /\ y.ack = o.ack
         /\ y.rev = o.rev /\ y.upto = u /\ y.skipped = o.skipped /\ y.loads = o.loads
    BY <1>17, <2>0
  <2>3. Knows(d, u, o.rev, o.skipped)'
    <3>1. CASE u = o.upto
      BY <2>1, <3>1 DEF DeviceKnown
    <3>2. CASE u # o.upto
      <4>1. u = now
        BY <1>11, <1>22, <2>0, <3>2
      <4>2. \A s \in S!Settings : ~(by[s].by # d /\ by[s].at > u)
        BY <1>6, <1>22, <1>24, <4>1
      <4>3. o.rev <= now
        <5>1. o.rev <= document'.rev
          BY <2>1 DEF DeviceKnown, Knows
        <5> QED BY <1>22, <5>1
      <4> QED BY <1>22, <1>23, <4>2, <4>3 DEF Knows
    <3> QED BY <3>1, <3>2
  <2>4. PatchKnown(d, p)'
    <3>1. Knows(d, p.seen, p.rev, p.skipped)'
      BY <2>1, <2>2a DEF DeviceKnown, PatchesKnown, PatchKnown
    <3>2. \A s \in S!Settings : by[s].by # d => by[s].at # p.at
      BY <1>6, <1>9, <1>24
    <3> QED BY <1>9, <1>22, <1>23, <3>1, <3>2 DEF PatchKnown
  <2>5. PatchesKnown(d, q)'
    BY <2>1, <2>2a, <2>4 DEF DeviceKnown, PatchesKnown
  <2> QED BY <2>1, <2>2b, <2>3, <2>5 DEF DeviceKnown
<1>29. ASSUME NEW e \in Devices PROVE (DeviceInv(device[e]) /\ DeviceKnown(e, device[e]))'
  <2>1. PICK x : x = device'[e]
    OBVIOUS
  <2>2. DeviceInv(x) /\ DeviceKnown(e, x)'
    <3>1. CASE e = d
      BY <1>1, <1>15, <1>20, <1>28, <2>1, <3>1
    <3>2. CASE e # d
      <4>1. x = device[e]
        BY <1>15, <2>1, <3>2
      <4>2. DeviceInv(x) /\ x \in DeviceType /\ DeviceKnown(e, x)
        BY <4>1, DeviceHolds
      <4> QED BY <1>27, <4>2
    <3> QED BY <3>1, <3>2
  <2> QED BY <2>1, <2>2
<1>30. DOMAIN device' = Devices
  BY <1>1, <1>15
<1> QED BY <1>5, <1>7, <1>29, <1>30 DEF PreferencesInv

(* The answer to the first patch: an applied one backs no choice any more,   *)
(* and what a refused one carried is given up when its result is forgotten.  *)
LEMMA AcknowledgeStep ==
  ASSUME PreferencesInv, NEW d \in Devices, S!Acknowledge(d)
  PROVE  PreferencesInv'
<1> DEFINE me == device[d]
<1>1. DeviceInv(me) /\ me \in DeviceType /\ DOMAIN device = Devices /\ me.queue \in Seq(PatchType)
  BY DeviceHolds, DeviceFields
<1>2. /\ me.queue # <<>> /\ me.ack = None /\ Head(me.queue).result = "applied"
      /\ device' = [device EXCEPT ![d].rev = Head(me.queue).at, ![d].ack = [step |-> "remove"],
                                  ![d].skipped = @ \/ Head(me.queue).at # me.rev + 1]
  BY DEF S!Acknowledge
<1> HIDE DEF me
<1>3. 1 \in DOMAIN me.queue /\ Head(me.queue) = me.queue[1] /\ me.queue[1] \in PatchType
  BY <1>1, <1>2
<1>4. PICK n \in Nat : n = Head(me.queue).at
  BY <1>3 DEF PatchType
<1>4a. PICK sk \in BOOLEAN : sk = (me.skipped \/ Head(me.queue).at # me.rev + 1)
  OBVIOUS
<1>5. PICK y : y = [me EXCEPT !.rev = n, !.ack = [step |-> "remove"], !.skipped = sk]
  OBVIOUS
<1>6. device' = [device EXCEPT ![d] = y]
  BY <1>1, <1>2, <1>4, <1>4a, <1>5 DEF me
<1>7. /\ y \in DeviceType /\ y.saving = me.saving /\ y.queue = me.queue
      /\ y.ack = [step |-> "remove"] /\ y.choice = me.choice
      /\ y.rev = n /\ y.upto = me.upto /\ y.skipped = sk /\ y.loads = me.loads
  BY <1>1, <1>5 DEF DeviceType
<1>8. AckFits(y)
  BY <1>2, <1>3, <1>7, NoneIsNoResult DEF AckFits
<1>9. ASSUME NEW s \in S!Settings PROVE StillBacked(me, y, s)
  BY <1>2, <1>3, <1>7 DEF StillBacked, Carries
<1>10. \A i \in DOMAIN me.queue : SamePatch(y.queue[i], me.queue[i])
  BY <1>1, <1>7 DEF SamePatch, DeviceInv, PatchesFit
<1>11. DeviceInv(y)
  BY <1>1, <1>7, <1>8, <1>9, <1>10, QueueMarked
<1>12. DeviceKnown(d, y)
  <2>1. DeviceKnown(d, me)
    BY DeviceHolds DEF me
  <2>2. n <= document.rev /\ \A s \in S!Settings : author[s].by # d => author[s].at # n
    BY <1>2, <1>3, <1>4, <2>1 DEF DeviceKnown, PatchesKnown, PatchKnown
  <2>3. ASSUME ~sk, NEW s \in S!Settings, author[s].by # d, author[s].at > me.upto
        PROVE  author[s].at > n
    <3>1. author[s].at > me.rev /\ author[s].at # n /\ author[s].at \in Nat /\ me.rev \in Nat
      BY <1>1, <1>4a, <2>1, <2>2, <2>3, DeviceFields
         DEF DeviceKnown, Knows, PreferencesInv, AuthorsFit
    <3>2. n = me.rev + 1
      BY <1>4, <1>4a, <2>3
    <3> QED BY <3>1, <3>2
  <2>4. Knows(d, y.upto, y.rev, y.skipped)
    BY <1>7, <2>2, <2>3 DEF Knows
  <2>5. AnswerKnown(y.ack)
    BY <1>7 DEF AnswerKnown
  <2> QED BY <1>7, <2>1, <2>4, <2>5 DEF DeviceKnown
<1> QED BY <1>6, <1>11, <1>12, DeviceChange DEF S!Acknowledge

LEMMA CompactedStep ==
  ASSUME PreferencesInv, NEW d \in Devices, S!AcknowledgeCompacted(d)
  PROVE  PreferencesInv'
<1> DEFINE me == device[d]
<1>1. DeviceInv(me) /\ me \in DeviceType /\ DOMAIN device = Devices /\ me.queue \in Seq(PatchType)
  BY DeviceHolds, DeviceFields
<1>2. /\ me.queue # <<>> /\ me.ack = None /\ Head(me.queue).result # None
      /\ device' = [device EXCEPT ![d].ack = [step |-> "remove"],
           ![d].choice = IF Head(me.queue).result = "conflict"
                         THEN S!Open(me, S!Carried(me, Head(me.queue))) ELSE @]
  BY DEF S!AcknowledgeCompacted
<1> HIDE DEF me
<1>3. 1 \in DOMAIN me.queue /\ Head(me.queue) = me.queue[1] /\ me.queue[1] \in PatchType
  BY <1>1, <1>2
<1>4. PICK o : o = S!Open(me, S!Carried(me, me.queue[1]))
  OBVIOUS
<1>5. /\ o \in [S!Settings -> Value \cup {None}]
      /\ \A s \in S!Settings : o[s] = IF s \in S!Carried(me, me.queue[1]) THEN None ELSE me.choice[s]
  BY <1>1, <1>4, Opened
<1>6. PICK c : c = IF me.queue[1].result = "conflict" THEN o ELSE me.choice
  OBVIOUS
<1>7. c \in [S!Settings -> Value \cup {None}]
  BY <1>1, <1>5, <1>6, DeviceFields
<1>8. PICK y : y = [me EXCEPT !.ack = [step |-> "remove"], !.choice = c]
  OBVIOUS
<1>9. device' = [device EXCEPT ![d] = y]
  BY <1>1, <1>2, <1>3, <1>4, <1>6, <1>8 DEF me
<1>10. /\ y \in DeviceType /\ y.saving = me.saving /\ y.queue = me.queue
       /\ y.ack = [step |-> "remove"] /\ y.choice = c
       /\ y.rev = me.rev /\ y.upto = me.upto /\ y.skipped = me.skipped /\ y.loads = me.loads
  BY <1>1, <1>7, <1>8 DEF DeviceType
<1>11. AckFits(y)
  BY <1>2, <1>3, <1>10 DEF AckFits
<1>12. ASSUME NEW s \in S!Settings, y.choice[s] # None PROVE StillBacked(me, y, s)
  <2>1. y.choice[s] = me.choice[s]
    BY <1>5, <1>6, <1>10, <1>12
  <2>2. ~Carries(me.queue[1], me.choice[s], s)
    <3>1. CASE me.queue[1].result = "conflict"
      BY <1>5, <1>6, <1>10, <1>12, <3>1 DEF Carries, S!Carried
    <3>2. CASE me.queue[1].result # "conflict"
      BY <1>2, <1>3, <3>2 DEF Carries, PatchType
    <3> QED BY <3>1, <3>2
  <2>3. \A i \in DOMAIN me.queue : Carries(me.queue[i], me.choice[s], s)
          => i # 1 /\ y.queue[i].result # "applied"
    BY <1>10, <2>2 DEF Carries
  <2> QED BY <2>1, <2>3 DEF StillBacked
<1>13. \A i \in DOMAIN me.queue : SamePatch(y.queue[i], me.queue[i])
  BY <1>1, <1>10 DEF SamePatch, DeviceInv, PatchesFit
<1>14. DeviceInv(y)
  BY <1>1, <1>10, <1>11, <1>12, <1>13, QueueMarked
<1>15. DeviceKnown(d, y)
  <2>1. DeviceKnown(d, me)
    BY DeviceHolds DEF me
  <2>2. AnswerKnown(y.ack)
    BY <1>10 DEF AnswerKnown
  <2> QED BY <1>10, <2>1, <2>2 DEF DeviceKnown
<1> QED BY <1>9, <1>14, <1>15, DeviceChange DEF S!AcknowledgeCompacted

LEMMA ReadStep ==
  ASSUME PreferencesInv, NEW d \in Devices, S!ReadDocument(d)
  PROVE  PreferencesInv'
<1> DEFINE me == device[d]
<1>1. /\ DeviceInv(me) /\ me \in DeviceType /\ DOMAIN device = Devices
      /\ me.queue \in Seq(PatchType) /\ document \in Document
  BY DeviceHolds, DeviceFields
<1>2. /\ me.queue # <<>> /\ Head(me.queue).result = "conflict"
      /\ device' = [device EXCEPT ![d].ack = [step |-> "resolve", document |-> document]]
  BY DEF S!ReadDocument
<1> HIDE DEF me
<1>3. PICK y : y = [me EXCEPT !.ack = [step |-> "resolve", document |-> document]]
  OBVIOUS
<1>4. device' = [device EXCEPT ![d] = y]
  BY <1>1, <1>2, <1>3 DEF me
<1>5. /\ y \in DeviceType /\ y.saving = me.saving /\ y.queue = me.queue
      /\ y.ack = [step |-> "resolve", document |-> document] /\ y.choice = me.choice
      /\ y.rev = me.rev /\ y.upto = me.upto /\ y.skipped = me.skipped /\ y.loads = me.loads
  BY <1>1, <1>3 DEF DeviceType
<1>6. AckFits(y)
  BY <1>1, <1>2, <1>5, NoneIsNoResult DEF AckFits
<1>7. ~Removing(y)
  BY <1>5 DEF Removing
<1>8. DeviceKnown(d, y)
  <2>1. DeviceKnown(d, me) /\ document.rev \in Nat
    BY DeviceHolds DEF me
  <2>2. AnswerKnown(y.ack)
    BY <1>5, <2>1 DEF AnswerKnown
  <2> QED BY <1>5, <2>1, <2>2 DEF DeviceKnown
<1>9. DeviceInv(y)
  BY <1>1, <1>5, <1>6, <1>7, Quiet
<1> QED BY <1>4, <1>8, <1>9, DeviceChange DEF S!ReadDocument

LEMMA ShowStep ==
  ASSUME PreferencesInv, NEW d \in Devices, S!Show(d)
  PROVE  PreferencesInv'
<1> DEFINE me == device[d]
<1>1. DeviceInv(me) /\ me \in DeviceType /\ DOMAIN device = Devices
  BY DeviceHolds
<1>2. PICK now \in Document :
        /\ now.rev <= document.rev
        /\ device' = [device EXCEPT ![d].rev = now.rev, ![d].val = now.val, ![d].upto = now.rev,
                                    ![d].skipped = FALSE, ![d].ack = None]
  <2>1. me.ack.document \in Document /\ me.ack.document.rev <= document.rev
    BY <1>1, DeviceHolds DEF S!Show, DeviceType, DeviceKnown, AnswerKnown
  <2> QED BY Zenon, <2>1 DEF S!Show
<1> HIDE DEF me
<1>3. PICK n \in Nat, v \in [S!Settings -> Value] : n = now.rev /\ v = now.val
  BY DEF Document
<1>4. PICK y : y = [me EXCEPT !.rev = n, !.val = v, !.upto = n, !.skipped = FALSE, !.ack = None]
  OBVIOUS
<1>5. device' = [device EXCEPT ![d] = y]
  BY <1>1, <1>2, <1>3, <1>4 DEF me
<1>6. /\ y \in DeviceType /\ y.saving = me.saving /\ y.queue = me.queue
      /\ y.ack = None /\ y.choice = me.choice
      /\ y.rev = n /\ y.upto = n /\ y.loads = me.loads
  BY <1>1, <1>4 DEF DeviceType
<1>7. AckFits(y) /\ ~Removing(y)
  BY <1>6, NoneIsNoStep DEF AckFits, Answers, Removing
<1>8. DeviceKnown(d, y)
  <2>1. DeviceKnown(d, me)
    BY DeviceHolds DEF me
  <2>2. Knows(d, y.upto, y.rev, y.skipped)
    BY <1>2, <1>3, <1>6 DEF Knows
  <2>3. AnswerKnown(y.ack)
    BY <1>6 DEF AnswerKnown
  <2> QED BY <1>6, <2>1, <2>2, <2>3 DEF DeviceKnown
<1>9. DeviceInv(y)
  BY <1>1, <1>6, <1>7, Quiet
<1> QED BY <1>5, <1>8, <1>9, DeviceChange DEF S!Show

(* Downloads touch neither patches nor choices.                              *)
LEMMA LoadsStep ==
  ASSUME PreferencesInv, NEW d \in Devices, S!Hint(d) \/ S!CheckPending(d) \/ S!Loaded(d)
  PROVE  PreferencesInv'
<1> DEFINE me == device[d]
<1>1. /\ DeviceInv(me) /\ me \in DeviceType /\ DOMAIN device = Devices /\ document \in Document
      /\ me.loads \subseteq [document : Document, checked : BOOLEAN]
  BY DeviceHolds DEF DeviceType
<1>2a. DeviceKnown(d, me) /\ document.rev \in Nat
  BY DeviceHolds
<1>2. ASSUME NEW y \in DeviceType, device' = [device EXCEPT ![d] = y], y.saving = me.saving,
             y.queue = me.queue, y.ack = me.ack, y.choice = me.choice,
             Knows(d, y.upto, y.rev, y.skipped), LoadsKnown(y.loads),
             document' = document, author' = author, blind' = blind
      PROVE  PreferencesInv'
  <2>1. AckFits(y) /\ (Removing(y) => Removing(me))
    BY <1>1, <1>2 DEF AckFits, Answers, Removing, DeviceInv
  <2>2. DeviceInv(y)
    BY <1>1, <1>2, <2>1, Quiet
  <2>3. DeviceKnown(d, y)
    BY <1>2, <1>2a DEF DeviceKnown
  <2> QED BY <1>2, <2>2, <2>3, DeviceChange
<1>3. ASSUME NEW l \in SUBSET [document : Document, checked : BOOLEAN], LoadsKnown(l), NEW y,
             y = [me EXCEPT !.loads = l]
      PROVE  /\ y \in DeviceType /\ y.saving = me.saving
             /\ y.queue = me.queue /\ y.ack = me.ack /\ y.choice = me.choice
             /\ Knows(d, y.upto, y.rev, y.skipped) /\ LoadsKnown(y.loads)
  <2>1. /\ y \in DeviceType /\ y.saving = me.saving
        /\ y.queue = me.queue /\ y.ack = me.ack /\ y.choice = me.choice
        /\ y.rev = me.rev /\ y.upto = me.upto /\ y.skipped = me.skipped /\ y.loads = l
    BY <1>1, <1>3 DEF DeviceType
  <2> QED BY <1>2a, <1>3, <2>1 DEF DeviceKnown
<1>4. CASE S!Hint(d)
  <2>1. PICK l : l = me.loads \cup {[document |-> document, checked |-> FALSE]}
    OBVIOUS
  <2>2. device' = [device EXCEPT ![d] = [me EXCEPT !.loads = l]]
    BY <1>1, <1>4, <2>1 DEF S!Hint, S!Load
  <2>3. l \in SUBSET [document : Document, checked : BOOLEAN]
    <3> HIDE DEF me
    <3>1. [document |-> document, checked |-> FALSE] \in [document : Document, checked : BOOLEAN]
      BY <1>1
    <3> QED BY <1>1, <2>1, <3>1
  <2>4. LoadsKnown(l)
    BY <1>2a, <2>1 DEF LoadsKnown, DeviceKnown
  <2> HIDE DEF me
  <2> QED BY <1>2, <1>3, <1>4, <2>2, <2>3, <2>4 DEF S!Hint
<1>5. CASE S!CheckPending(d)
  <2>1. PICK load \in me.loads : device' = [device EXCEPT ![d].loads =
         (@ \ {load}) \cup IF me.queue = <<>> THEN {[load EXCEPT !.checked = TRUE]} ELSE {}]
    BY <1>5 DEF S!CheckPending
  <2>2. PICK l : l = (me.loads \ {load}) \cup
                       IF me.queue = <<>> THEN {[load EXCEPT !.checked = TRUE]} ELSE {}
    OBVIOUS
  <2>3. device' = [device EXCEPT ![d] = [me EXCEPT !.loads = l]]
    BY <1>1, <2>1, <2>2
  <2>4. l \in SUBSET [document : Document, checked : BOOLEAN]
    BY <1>1, <2>2
  <2>5. LoadsKnown(l)
    <3>1. load \in [document : Document, checked : BOOLEAN]
      BY <1>1, <2>1
    <3>2. PICK m : m = [load EXCEPT !.checked = TRUE]
      OBVIOUS
    <3>3. m.document = load.document
      BY <3>1, <3>2
    <3>4. \A k \in l : k \in me.loads \/ k = m
      BY <2>2, <3>2
    <3> HIDE DEF me
    <3> QED BY <1>2a, <2>1, <3>3, <3>4 DEF LoadsKnown, DeviceKnown
  <2> HIDE DEF me
  <2> QED BY <1>2, <1>3, <1>5, <2>3, <2>4, <2>5 DEF S!CheckPending
<1>6. CASE S!Loaded(d)
  <2>1. PICK load \in me.loads :
          device' = [device EXCEPT ![d].loads = @ \ {load}, ![d].rev = load.document.rev,
                                   ![d].val = load.document.val, ![d].upto = load.document.rev,
                                   ![d].skipped = FALSE]
    BY Zenon, <1>6 DEF S!Loaded
  <2>2. PICK n \in Nat, v \in [S!Settings -> Value] : n = load.document.rev /\ v = load.document.val
    BY <1>1 DEF Document
  <2>3. PICK l \in SUBSET [document : Document, checked : BOOLEAN] : l = me.loads \ {load}
    BY <1>1
  <2>4. PICK y : y = [me EXCEPT !.loads = l, !.rev = n, !.val = v, !.upto = n, !.skipped = FALSE]
    OBVIOUS
  <2>5. device' = [device EXCEPT ![d] = y]
    BY <1>1, <2>1, <2>2, <2>3, <2>4
  <2>6. /\ y \in DeviceType /\ y.saving = me.saving
        /\ y.queue = me.queue /\ y.ack = me.ack /\ y.choice = me.choice
        /\ y.rev = n /\ y.upto = n /\ y.loads = l
    <3> HIDE DEF me
    <3> QED BY <1>1, <2>4 DEF DeviceType
  <2>7. n <= document.rev /\ LoadsKnown(l)
    <3> HIDE DEF me
    <3> QED BY <1>2a, <2>1, <2>2, <2>3 DEF LoadsKnown, DeviceKnown
  <2>8. Knows(d, y.upto, y.rev, y.skipped) /\ LoadsKnown(y.loads)
    <3> HIDE DEF me
    <3> QED BY <2>6, <2>7 DEF Knows
  <2> HIDE DEF me
  <2> QED BY Zenon, <1>2, <1>6, <2>5, <2>6, <2>8 DEF S!Loaded
<1> QED BY <1>4, <1>5, <1>6

(* Waits is what backs a choice when no patch is about to be removed.        *)
LEMMA WaitsBacked ==
  ASSUME NEW x, NEW s
  PROVE  S!Waits(x, S!Range(x.saving) \cup S!Range(x.queue), s)
           <=> \/ \E i \in DOMAIN x.saving : Carries(x.saving[i], x.choice[s], s)
               \/ \E i \in DOMAIN x.queue : Carries(x.queue[i], x.choice[s], s)
BY DEF S!Waits, S!Range, Carries

LEMMA PageReloadStep ==
  ASSUME PreferencesInv, NEW d \in Devices, S!Reload(d)
  PROVE  PreferencesInv'
<1> DEFINE me   == device[d]
           gone == {s \in S!Settings : ~S!Waits(me, S!Range(me.queue), s)}
<1>1. /\ DeviceInv(me) /\ me \in DeviceType /\ DOMAIN device = Devices /\ document \in Document
      /\ me.queue \in Seq(PatchType)
  BY DeviceHolds, DeviceFields
<1>2. PICK c : c = S!Open(me, gone)
  OBVIOUS
<1>3. PICK l : l = {[document |-> document, checked |-> FALSE]}
  OBVIOUS
<1>4. PICK y : y = [me EXCEPT !.saving = <<>>, !.loads = l, !.ack = None, !.choice = c]
  OBVIOUS
<1>5. device' = [device EXCEPT ![d] = y]
  <2>1. PICK z : z = [me EXCEPT !.saving = <<>>, !.loads = {}, !.ack = None, !.choice = c]
    OBVIOUS
  <2>2. z.loads = {} /\ S!Load(z) = [z EXCEPT !.loads = @ \cup l]
    <3> HIDE DEF me
    <3> QED BY <1>1, <1>3, <2>1 DEF S!Load, DeviceType
  <2>3. S!Load(z) = y
    <3> HIDE DEF me
    <3>1. {} \cup l = l
      OBVIOUS
    <3>2. S!Load(z) = [z EXCEPT !.loads = l]
      BY <2>2, <3>1
    <3> QED BY <1>1, <1>4, <2>1, <3>2 DEF DeviceType
  <2>4. device' = [device EXCEPT ![d] = S!Load(z)]
    BY <1>2, <2>1 DEF S!Reload
  <2> QED BY <2>3, <2>4
<1> HIDE DEF me, gone
<1>6. /\ c \in [S!Settings -> Value \cup {None}]
      /\ \A s \in S!Settings : c[s] = IF s \in gone THEN None ELSE me.choice[s]
  BY <1>1, <1>2, Opened
<1>7. /\ y \in DeviceType /\ y.saving = <<>> /\ y.queue = me.queue
      /\ y.ack = None /\ y.choice = c
      /\ y.rev = me.rev /\ y.upto = me.upto /\ y.skipped = me.skipped /\ y.loads = l
  <2>1. l \in SUBSET [document : Document, checked : BOOLEAN]
    BY <1>1, <1>3
  <2>2. <<>> \in Seq(PatchType)
    OBVIOUS
  <2> QED BY <1>1, <1>4, <1>6, <2>1, <2>2 DEF DeviceType
<1>8. AckFits(y) /\ ~Removing(y)
  BY <1>7, NoneIsNoStep DEF AckFits, Answers, Removing
<1>9. PatchesFit(y)
  BY <1>1, <1>7 DEF DeviceInv, PatchesFit
<1>10. ASSUME NEW s \in S!Settings, y.choice[s] # None PROVE Backed(y, s) /\ LastSaving(y, s)
  <2>1. s \notin gone /\ y.choice[s] = me.choice[s]
    BY <1>6, <1>7, <1>10
  <2>2. S!Waits(me, S!Range(me.queue), s)
    BY <2>1 DEF gone
  <2>3. \E i \in DOMAIN me.queue : Carries(me.queue[i], me.choice[s], s)
    BY <2>2 DEF S!Waits, S!Range, Carries
  <2> QED BY <1>7, <1>8, <2>1, <2>3 DEF Backed, LastSaving
<1>11. DeviceInv(y)
  BY <1>7, <1>8, <1>9, <1>10 DEF DeviceInv, Chosen
<1>12. DeviceKnown(d, y)
  <2>1. DeviceKnown(d, me) /\ document.rev \in Nat
    BY DeviceHolds DEF me
  <2>2. LoadsKnown(y.loads) /\ AnswerKnown(y.ack) /\ PatchesKnown(d, y.saving)
    BY <1>3, <1>7, <2>1 DEF LoadsKnown, AnswerKnown, PatchesKnown
  <2> QED BY <1>7, <2>1, <2>2 DEF DeviceKnown
<1> QED BY Zenon, <1>5, <1>11, <1>12, DeviceChange DEF S!Reload

(* The answered patch leaves the queue: none of its choices rested on it.    *)
LEMMA RemoveStep ==
  ASSUME PreferencesInv, NEW d \in Devices, S!RemovePatch(d)
  PROVE  PreferencesInv'
<1> DEFINE me == device[d]
<1>1. DeviceInv(me) /\ me \in DeviceType /\ DOMAIN device = Devices /\ me.queue \in Seq(PatchType)
  BY DeviceHolds, DeviceFields
<1>2. /\ Removing(me)
      /\ device' = [device EXCEPT ![d].ack = None, ![d].queue = Tail(@)]
  BY DEF S!RemovePatch, Removing
<1> HIDE DEF me
<1>3. me.queue # <<>>
  BY <1>1, <1>2, NoneIsNoStep DEF Removing, DeviceInv, AckFits, Answers
<1>4. PICK q : q = Tail(me.queue)
  OBVIOUS
<1>5. /\ q \in Seq(PatchType) /\ Len(me.queue) \in Nat /\ Len(q) = Len(me.queue) - 1
      /\ \A i \in 1 .. Len(q) : q[i] = me.queue[i + 1]
      /\ DOMAIN q = 1 .. Len(q) /\ DOMAIN me.queue = 1 .. Len(me.queue)
  BY <1>1, <1>3, <1>4
<1>6. PICK y : y = [me EXCEPT !.ack = None, !.queue = q]
  OBVIOUS
<1>7. device' = [device EXCEPT ![d] = y]
  BY <1>1, <1>2, <1>4, <1>6 DEF me
<1>8. /\ y \in DeviceType /\ y.saving = me.saving /\ y.queue = q
      /\ y.ack = None /\ y.choice = me.choice
      /\ y.rev = me.rev /\ y.upto = me.upto /\ y.skipped = me.skipped /\ y.loads = me.loads
  BY <1>1, <1>5, <1>6 DEF DeviceType
<1>9. AckFits(y) /\ ~Removing(y)
  BY <1>8, NoneIsNoStep DEF AckFits, Answers, Removing
<1>10. PatchesFit(y)
  <2>1. \A i \in DOMAIN q : i + 1 \in DOMAIN me.queue
    BY <1>5
  <2> QED BY <1>1, <1>5, <1>8, <2>1 DEF DeviceInv, PatchesFit
<1>11. ASSUME NEW s \in S!Settings, y.choice[s] # None PROVE Backed(y, s) /\ LastSaving(y, s)
  <2>1. Backed(me, s) /\ LastSaving(me, s)
    BY <1>1, <1>8, <1>11 DEF DeviceInv, Chosen
  <2>2. LastSaving(y, s)
    BY <1>8, <2>1 DEF LastSaving
  <2>3. CASE \E i \in DOMAIN me.saving : Carries(me.saving[i], me.choice[s], s)
    BY <1>8, <2>2, <2>3 DEF Backed
  <2>4. ASSUME NEW i \in DOMAIN me.queue, i # 1, Carries(me.queue[i], me.choice[s], s)
        PROVE  Backed(y, s)
    <3>1. i - 1 \in DOMAIN q /\ q[i - 1] = me.queue[i]
      BY <1>5, <2>4
    <3> QED BY <1>8, <1>9, <2>4, <3>1 DEF Backed
  <2> QED BY <1>2, <2>1, <2>2, <2>3, <2>4 DEF Backed
<1>12. DeviceInv(y)
  BY <1>8, <1>9, <1>10, <1>11 DEF DeviceInv, Chosen
<1>13. DeviceKnown(d, y)
  <2>1. DeviceKnown(d, me)
    BY DeviceHolds DEF me
  <2>2. \A i \in DOMAIN q : i + 1 \in DOMAIN me.queue /\ q[i] = me.queue[i + 1]
    BY <1>5
  <2>3. PatchesKnown(d, q) /\ AnswerKnown(y.ack)
    BY <1>8, <2>1, <2>2 DEF DeviceKnown, PatchesKnown, AnswerKnown
  <2> QED BY <1>8, <2>1, <2>3 DEF DeviceKnown
<1> QED BY <1>7, <1>12, <1>13, DeviceChange DEF S!RemovePatch

(* Queueing a patch: it is the last of the queue, alone or together with the *)
(* one that was, and every other one stays as it is.                         *)
Fits(q) ==
  \A i \in DOMAIN q : WholeFields(DOMAIN q[i].want) /\ (q[i].result # None => q[i].sent)

LEMMA MergedPatch ==
  ASSUME NEW old \in PatchType, NEW new \in PatchType, NEW p, p = S!MergeQueued(old, new)
  PROVE  /\ p \in PatchType /\ p.result = old.result /\ p.sent = old.sent /\ SameHistory(p, old)
         /\ DOMAIN p.want = DOMAIN new.want \cup DOMAIN old.want
         /\ \A s \in DOMAIN new.want : p.want[s] = new.want[s]
         /\ \A s \in DOMAIN old.want \ DOMAIN new.want : p.want[s] = old.want[s]
<1>1. /\ old.want \in Maps /\ new.want \in Maps /\ old.was \in Maps /\ new.was \in Maps
  BY DEF PatchType
<1>2. PICK w \in Maps : w = S!Over(new.want, old.want)
  BY <1>1, OverType
<1>3. PICK b \in Maps : b = S!Over(old.was, new.was)
  BY <1>1, OverType
<1>4. p = [old EXCEPT !.want = w, !.was = b]
  BY <1>2, <1>3 DEF S!MergeQueued, PatchType
<1>5. p \in PatchType /\ p.want = w /\ p.result = old.result /\ p.sent = old.sent
      /\ SameHistory(p, old)
  BY <1>4 DEF PatchType, SameHistory
<1>6. /\ DOMAIN w = DOMAIN new.want \cup DOMAIN old.want
      /\ \A s \in DOMAIN new.want : w[s] = new.want[s]
      /\ \A s \in DOMAIN old.want \ DOMAIN new.want : w[s] = old.want[s]
  <2>1. PICK ow \in Maps, nw \in Maps : ow = old.want /\ nw = new.want
    BY <1>1
  <2>2. w = S!Over(nw, ow)
    BY <1>2, <2>1
  <2>3. /\ DOMAIN w = DOMAIN nw \cup DOMAIN ow
        /\ \A s \in DOMAIN nw : w[s] = nw[s]
        /\ \A s \in DOMAIN ow \ DOMAIN nw : w[s] = ow[s]
    BY ZenonT(60), <2>2, OverType
  <2> QED BY <2>1, <2>3
<1> QED BY <1>5, <1>6

Keeps(p, q, D) == \A v, s : Carries(q, v, s) /\ s \notin D => Carries(p, v, s)

QueuedAs(q, new, r) ==
  /\ r \in Seq(PatchType) /\ r # <<>> /\ Fits(r) /\ DOMAIN q \subseteq DOMAIN r
  /\ \A i \in DOMAIN q :
       /\ q[i].sent => r[i] = q[i]
       /\ Keeps(r[i], q[i], DOMAIN new.want)
  /\ \A i \in DOMAIN r : SameHistory(r[i], new) \/ (i \in DOMAIN q /\ SameHistory(r[i], q[i]))
  /\ \E i \in DOMAIN r :
       /\ i \in DOMAIN q => ~q[i].sent
       /\ \A s \in DOMAIN new.want : Carries(r[i], new.want[s], s)

LEMMA QueuedFacts ==
  ASSUME NEW q \in Seq(PatchType), Fits(q), NEW new \in PatchType, new.result = None,
         WholeFields(DOMAIN new.want), NEW r, r = S!Queued(q, new)
  PROVE  QueuedAs(q, new, r)
<1>1. Len(q) \in Nat /\ DOMAIN q = 1 .. Len(q) /\ \A i \in 1 .. Len(q) : q[i] \in PatchType
  OBVIOUS
<1>2. CASE q # <<>> /\ ~S!Last(q).sent
  <2>1. PICK n : n = Len(q)
    OBVIOUS
  <2>2. n \in DOMAIN q /\ S!Last(q) = q[n] /\ ~q[n].sent /\ q[n] \in PatchType
    BY <1>1, <1>2, <2>1 DEF S!Last
  <2>3. PICK p : p = S!MergeQueued(q[n], new)
    OBVIOUS
  <2>4. r = [q EXCEPT ![n] = p]
    BY <1>2, <2>1, <2>3 DEF S!Queued
  <2>5. /\ p \in PatchType /\ p.result = q[n].result /\ p.sent = q[n].sent /\ SameHistory(p, q[n])
        /\ DOMAIN p.want = DOMAIN new.want \cup DOMAIN q[n].want
        /\ \A s \in DOMAIN new.want : p.want[s] = new.want[s]
        /\ \A s \in DOMAIN q[n].want \ DOMAIN new.want : p.want[s] = q[n].want[s]
    BY <2>2, <2>3, MergedPatch
  <2>6. /\ r \in Seq(PatchType) /\ DOMAIN r = DOMAIN q
        /\ \A i \in DOMAIN q : r[i] = IF i = n THEN p ELSE q[i]
    BY <2>2, <2>4, <2>5
  <2>7. p.result = None
    BY <2>2, <2>5 DEF Fits
  <2>8. WholeFields(DOMAIN p.want)
    BY <2>2, <2>5, WholeUnion DEF Fits
  <2>9. Fits(r)
    BY <2>6, <2>7, <2>8 DEF Fits
  <2>10. ASSUME NEW i \in DOMAIN q
         PROVE  /\ q[i].sent => r[i] = q[i]
                /\ Keeps(r[i], q[i], DOMAIN new.want)
    <3>1. CASE i # n
      BY <2>6, <3>1 DEF Keeps
    <3>2. CASE i = n
      BY <2>2, <2>5, <2>6, <3>2 DEF Carries, Keeps
    <3> QED BY <3>1, <3>2
  <2>11. \A s \in DOMAIN new.want : Carries(r[n], new.want[s], s)
    BY <2>2, <2>5, <2>6, <2>7, NoneIsNoResult DEF Carries
  <2>12. r # <<>>
    BY <2>2, <2>6
  <2>13. \A i \in DOMAIN r : i \in DOMAIN q /\ SameHistory(r[i], q[i])
    BY <2>5, <2>6 DEF SameHistory
  <2> QED BY <2>2, <2>6, <2>9, <2>10, <2>11, <2>12, <2>13 DEF QueuedAs
<1>3. CASE ~(q # <<>> /\ ~S!Last(q).sent)
  <2>1. r = Append(q, new)
    BY <1>3 DEF S!Queued
  <2>2. PICK n : n = Len(q) + 1
    OBVIOUS
  <2>3. /\ r \in Seq(PatchType) /\ DOMAIN r = 1 .. n /\ n \in DOMAIN r /\ n \notin DOMAIN q
        /\ r[n] = new /\ \A i \in DOMAIN q : i \in DOMAIN r /\ r[i] = q[i]
    BY <1>1, <2>1, <2>2
  <2>4. \A i \in DOMAIN r : i = n \/ i \in DOMAIN q
    BY <1>1, <2>2, <2>3
  <2>5. Fits(r)
    BY <2>3, <2>4 DEF Fits
  <2>6. \A s \in DOMAIN new.want : Carries(r[n], new.want[s], s)
    BY <2>3, NoneIsNoResult DEF Carries
  <2>7. r # <<>>
    BY <2>3
  <2>8. \A i \in DOMAIN r : SameHistory(r[i], new) \/ (i \in DOMAIN q /\ SameHistory(r[i], q[i]))
    BY <2>3, <2>4 DEF SameHistory
  <2> QED BY <2>3, <2>5, <2>6, <2>7, <2>8 DEF Keeps, QueuedAs
<1> QED BY <1>2, <1>3

LEMMA QueueSaveStep ==
  ASSUME PreferencesInv, NEW d \in Devices, S!QueueSave(d)
  PROVE  PreferencesInv'
<1> DEFINE me == device[d]
<1>1. /\ DeviceInv(me) /\ me \in DeviceType /\ DOMAIN device = Devices
      /\ me.queue \in Seq(PatchType) /\ me.saving \in Seq(PatchType)
  BY DeviceHolds, DeviceFields
<1>2. /\ me.saving # <<>>
      /\ device' = [device EXCEPT ![d].queue = S!Queued(@, Head(me.saving)),
                                  ![d].saving = Tail(@)]
  BY DEF S!QueueSave
<1> HIDE DEF me
<1>3. PICK new : new = me.saving[1]
  OBVIOUS
<1>4. /\ new = Head(me.saving) /\ new \in PatchType /\ 1 \in DOMAIN me.saving
  BY <1>1, <1>2, <1>3
<1>5. WholeFields(DOMAIN new.want) /\ new.result = None /\ Fits(me.queue)
  BY <1>1, <1>3, <1>4 DEF DeviceInv, PatchesFit, Fits
<1>6. PICK r : r = S!Queued(me.queue, new)
  OBVIOUS
<1>7. /\ r \in Seq(PatchType) /\ r # <<>> /\ Fits(r) /\ DOMAIN me.queue \subseteq DOMAIN r
      /\ \A i \in DOMAIN me.queue :
           /\ me.queue[i].sent => r[i] = me.queue[i]
           /\ Keeps(r[i], me.queue[i], DOMAIN new.want)
      /\ \A i \in DOMAIN r : \/ SameHistory(r[i], new)
                             \/ i \in DOMAIN me.queue /\ SameHistory(r[i], me.queue[i])
      /\ \E k \in DOMAIN r : /\ k \in DOMAIN me.queue => ~me.queue[k].sent
                            /\ \A s \in DOMAIN new.want : Carries(r[k], new.want[s], s)
  <2>1. PICK q : q = me.queue
    OBVIOUS
  <2>2. q \in Seq(PatchType) /\ Fits(q) /\ r = S!Queued(q, new)
    BY <1>1, <1>5, <1>6, <2>1
  <2>3. QueuedAs(q, new, r)
    BY <1>4, <1>5, <2>2, QueuedFacts
  <2> QED BY <2>1, <2>3 DEF QueuedAs
<1>8. PICK k \in DOMAIN r : /\ k \in DOMAIN me.queue => ~me.queue[k].sent
                            /\ \A s \in DOMAIN new.want : Carries(r[k], new.want[s], s)
  BY <1>7
<1>9. PICK t : t = Tail(me.saving)
  OBVIOUS
<1>10. /\ t \in Seq(PatchType) /\ Len(me.saving) \in Nat /\ Len(t) = Len(me.saving) - 1
       /\ \A i \in 1 .. Len(t) : t[i] = me.saving[i + 1]
       /\ DOMAIN t = 1 .. Len(t) /\ DOMAIN me.saving = 1 .. Len(me.saving)
  BY <1>1, <1>2, <1>9
<1>11. PICK y : y = [me EXCEPT !.queue = r, !.saving = t]
  OBVIOUS
<1>12. device' = [device EXCEPT ![d] = y]
  BY <1>1, <1>2, <1>4, <1>6, <1>9, <1>11 DEF me
<1>13. /\ y \in DeviceType /\ y.saving = t /\ y.queue = r
       /\ y.ack = me.ack /\ y.choice = me.choice
       /\ y.rev = me.rev /\ y.upto = me.upto /\ y.skipped = me.skipped /\ y.loads = me.loads
  BY <1>1, <1>7, <1>10, <1>11 DEF DeviceType
<1>14. \A i \in DOMAIN t : i + 1 \in DOMAIN me.saving /\ t[i] = me.saving[i + 1]
  BY <1>10
<1>15. PatchesFit(y)
  BY <1>1, <1>7, <1>13, <1>14 DEF DeviceInv, PatchesFit, Fits
<1>16. ASSUME Answers(me)
       PROVE  1 \in DOMAIN me.queue /\ me.queue[1].sent /\ r[1] = me.queue[1] /\ r[1].result # None
  <2>1. me.queue # <<>> /\ me.queue[1].result # None
    BY <1>1, <1>16 DEF DeviceInv, AckFits
  <2>2. 1 \in DOMAIN me.queue
    BY <1>1, <2>1
  <2> QED BY <1>5, <1>7, <2>1, <2>2 DEF Fits
<1>17. AckFits(y)
  BY <1>7, <1>13, <1>16 DEF AckFits, Answers
<1>18. Removing(me) => k # 1
  BY <1>8, <1>16, NoneIsNoStep DEF Removing, Answers
<1>19. ASSUME NEW s \in S!Settings, y.choice[s] # None PROVE Backed(y, s) /\ LastSaving(y, s)
  <2>1. Backed(me, s) /\ LastSaving(me, s)
    BY <1>1, <1>13, <1>19 DEF DeviceInv, Chosen
  <2>2. LastSaving(y, s)
    <3> SUFFICES ASSUME NEW i \in DOMAIN t, s \in DOMAIN t[i].want,
                        \A j \in DOMAIN t : i < j => s \notin DOMAIN t[j].want
                 PROVE  t[i].want[s] = me.choice[s]
      BY <1>13 DEF LastSaving
    <3>1. ASSUME NEW j \in DOMAIN me.saving, i + 1 < j PROVE s \notin DOMAIN me.saving[j].want
      <4>1. j - 1 \in DOMAIN t /\ i < j - 1 /\ t[j - 1] = me.saving[j]
        BY <1>10, <3>1
      <4> QED BY <4>1
    <3> QED BY <1>14, <2>1, <3>1 DEF LastSaving
  <2>3. CASE \E i \in DOMAIN t : s \in DOMAIN t[i].want
    <3>1. \E i \in DOMAIN t : s \in DOMAIN t[i].want
                            /\ \A j \in DOMAIN t : i < j => s \notin DOMAIN t[j].want
      <4> DEFINE Ahead == {Len(t) - i : i \in {j \in DOMAIN t : s \in DOMAIN t[j].want}}
      <4>1. Ahead \subseteq Nat /\ Ahead # {}
        BY <1>10, <2>3
      <4>2. PICK n \in Ahead : \A m \in Ahead : n <= m
        <5> HIDE DEF Ahead
        <5> QED BY <4>1, LeastNat
      <4>3. PICK i \in DOMAIN t : n = Len(t) - i /\ s \in DOMAIN t[i].want
        BY <4>2
      <4>4. ASSUME NEW j \in DOMAIN t, i < j, s \in DOMAIN t[j].want PROVE FALSE
        <5>1. Len(t) - j \in Ahead
          BY <4>4
        <5>2. n <= Len(t) - j
          BY <4>2, <5>1
        <5> QED BY <1>10, <4>3, <4>4, <5>2
      <4> QED BY <4>3, <4>4
    <3>2. PICK i \in DOMAIN t : s \in DOMAIN t[i].want /\ t[i].want[s] = me.choice[s]
      BY <1>13, <2>2, <3>1 DEF LastSaving
    <3>3. t[i].result = None
      BY <1>1, <1>14, <3>2 DEF DeviceInv, PatchesFit
    <3>4. Carries(t[i], me.choice[s], s)
      BY <3>2, <3>3, NoneIsNoResult DEF Carries
    <3> QED BY <1>13, <2>2, <3>4 DEF Backed
  <2>4. CASE ~\E i \in DOMAIN t : s \in DOMAIN t[i].want
    <3>1. \A j \in DOMAIN me.saving : 1 < j => s \notin DOMAIN me.saving[j].want
      <4> TAKE j \in DOMAIN me.saving
      <4> HAVE 1 < j
      <4>1. j - 1 \in DOMAIN t /\ t[j - 1] = me.saving[j]
        BY <1>10
      <4> QED BY <2>4, <4>1
    <3>2. CASE s \in DOMAIN new.want
      <4>1. new.want[s] = me.choice[s]
        BY <1>3, <1>4, <2>1, <3>1, <3>2 DEF LastSaving
      <4>2. Carries(r[k], me.choice[s], s)
        BY <1>8, <3>2, <4>1
      <4> QED BY <1>13, <1>18, <2>2, <4>2 DEF Backed, Removing
    <3>3. CASE s \notin DOMAIN new.want
      <4>1. \A i \in DOMAIN me.saving : i = 1 \/ 1 < i
        BY <1>10
      <4>2. ~\E i \in DOMAIN me.saving : Carries(me.saving[i], me.choice[s], s)
        BY <1>3, <3>1, <3>3, <4>1 DEF Carries
      <4>3. PICK i \in DOMAIN me.queue : (Removing(me) => i # 1) /\ Carries(me.queue[i], me.choice[s], s)
        BY <2>1, <4>2 DEF Backed
      <4>4. i \in DOMAIN r /\ Carries(r[i], me.choice[s], s)
        BY <1>7, <3>3, <4>3 DEF Keeps
      <4> QED BY <1>13, <2>2, <4>3, <4>4 DEF Backed, Removing
    <3> QED BY <3>2, <3>3
  <2> QED BY <2>3, <2>4
<1>20. DeviceInv(y)
  BY <1>13, <1>15, <1>17, <1>19 DEF DeviceInv, Chosen
<1>21. DeviceKnown(d, y)
  <2>1. DeviceKnown(d, me)
    BY DeviceHolds DEF me
  <2>2. PatchKnown(d, new)
    BY <1>3, <1>4, <2>1 DEF DeviceKnown, PatchesKnown
  <2>3. PatchesKnown(d, t)
    BY <1>14, <2>1 DEF DeviceKnown, PatchesKnown
  <2>4. ASSUME NEW i \in DOMAIN r PROVE PatchKnown(d, r[i])
    <3>1. CASE SameHistory(r[i], new)
      BY <2>2, <3>1, HistoryKept
    <3>2. CASE i \in DOMAIN me.queue /\ SameHistory(r[i], me.queue[i])
      BY <2>1, <3>2, HistoryKept DEF DeviceKnown, PatchesKnown
    <3> QED BY <1>7, <3>1, <3>2
  <2>5. PatchesKnown(d, r)
    BY <2>4 DEF PatchesKnown
  <2> QED BY <1>13, <2>1, <2>3, <2>5 DEF DeviceKnown
<1> QED BY <1>12, <1>20, <1>21, DeviceChange DEF S!QueueSave

(* A refused patch: what agrees with the document is queued again, so that a *)
(* choice still waits, or disagrees with the document, or gave way to it.    *)
LEMMA ResolveStep ==
  ASSUME PreferencesInv, NEW d \in Devices, S!Resolve(d)
  PROVE  PreferencesInv'
<1> DEFINE me      == device[d]
           now     == me.ack.document
           patch   == Head(me.queue)
           kept    == S!Agreeing(patch, now.val)
           next    == [s \in S!Settings |-> IF s \in kept THEN patch.want[s] ELSE now.val[s]]
           touched == S!Touched(kept)
           again   == S!Patch(now.rev, S!On(touched, next), S!On(touched, now.val), now.rev, FALSE)
           r       == IF kept = {} THEN Tail(me.queue) ELSE S!Queued(Tail(me.queue), again)
           settled == {s \in DOMAIN patch.want :
                         /\ ~S!Waits(me, S!Range(me.saving) \cup S!Range(r), s)
                         /\ \/ now.val[s] # patch.was[s] \/ now.val[s] = me.choice[s]
                            \/ s \in DOMAIN again.want /\ next[s] # me.choice[s]}
           shown   == [rev |-> now.rev, val |-> next]
           t       == Tail(me.queue)
<1>1. /\ DeviceInv(me) /\ me \in DeviceType /\ DOMAIN device = Devices
      /\ me.queue \in Seq(PatchType)
  BY DeviceHolds, DeviceFields
<1>2. /\ me.ack # None /\ me.ack.step = "resolve"
      /\ device' = [device EXCEPT ![d].queue = r, ![d].choice = S!Open(me, settled),
                                  ![d].ack = [step |-> "show", document |-> shown]]
  BY Zenon DEF S!Resolve
<1>3. \A s \in DOMAIN patch.want :
        /\ s \in kept => s \in DOMAIN patch.want
        /\ now.val[s] = patch.was[s] /\ patch.was[s] # patch.want[s] => s \in kept
  BY DEF S!Agreeing
<1>4. kept \subseteq DOMAIN patch.want
  BY DEF S!Agreeing
<1>5. kept = {} => r = t
  OBVIOUS
<1>6. kept # {} => r = S!Queued(t, again)
  OBVIOUS
<1>7. ASSUME NEW s \in S!Settings
      PROVE  next[s] = IF s \in kept THEN patch.want[s] ELSE now.val[s]
  OBVIOUS
<1>8. ASSUME NEW s \in DOMAIN patch.want, s \notin settled,
             \/ now.val[s] # patch.was[s] \/ now.val[s] = me.choice[s]
             \/ s \in DOMAIN again.want /\ next[s] # me.choice[s]
      PROVE  S!Waits(me, S!Range(me.saving) \cup S!Range(r), s)
  <2> HIDE DEF me, now, patch, kept, next, again, r
  <2> QED BY <1>8
<1> HIDE DEF me
<1>9. now \in Document /\ now.rev \in Nat /\ now.val \in [S!Settings -> Value]
  <2>1. now \in Document
    BY Zenon, <1>1, <1>2 DEF DeviceType
  <2> HIDE DEF now
  <2> QED BY <2>1 DEF Document
<1>10. 1 \in DOMAIN me.queue /\ patch = me.queue[1] /\ patch \in PatchType
       /\ WholeFields(DOMAIN patch.want)
  <2>1. me.queue # <<>>
    BY Zenon, <1>1, <1>2 DEF DeviceInv, AckFits, Answers
  <2>2. 1 \in DOMAIN me.queue /\ patch = me.queue[1] /\ patch \in PatchType
    BY <1>1, <2>1
  <2> QED BY <1>1, <2>2 DEF DeviceInv, PatchesFit
<1>11. /\ t \in Seq(PatchType) /\ \A i \in DOMAIN me.queue : i # 1 => i - 1 \in DOMAIN t
                                                        /\ t[i - 1] = me.queue[i]
       /\ \A i \in DOMAIN t : i + 1 \in DOMAIN me.queue /\ t[i] = me.queue[i + 1]
  <2>1. me.queue # <<>> /\ Len(me.queue) \in Nat /\ DOMAIN me.queue = 1 .. Len(me.queue)
    BY <1>1, <1>10
  <2>2. /\ t \in Seq(PatchType) /\ Len(t) = Len(me.queue) - 1 /\ DOMAIN t = 1 .. Len(t)
        /\ \A i \in 1 .. Len(t) : t[i] = me.queue[i + 1]
    BY <1>1, <2>1
  <2> HIDE DEF t
  <2> QED BY <2>1, <2>2
<1> HIDE DEF now, patch, t
<1>12. Fits(t)
  BY <1>1, <1>11 DEF DeviceInv, PatchesFit, Fits
<1>13. DOMAIN patch.want \subseteq S!Settings /\ patch.want \in Maps
       /\ \A s \in DOMAIN patch.want : patch.want[s] \in Value
  <2>1. patch.want \in Maps
    BY <1>10 DEF PatchType
  <2> QED BY <2>1, MapType
<1> HIDE DEF kept
<1>14. next \in [S!Settings -> Value]
  BY <1>4, <1>9, <1>13
<1>15. /\ kept \subseteq touched /\ touched \subseteq S!Settings /\ WholeFields(touched)
       /\ touched \subseteq DOMAIN patch.want
  BY <1>4, <1>10, <1>13, TouchedFields
<1>16. touched # {} => kept # {}
  BY DEF S!Touched
<1> HIDE DEF next, touched
<1>17. PICK w \in Maps : w = S!On(touched, next) /\ DOMAIN w = touched
                         /\ \A s \in touched : w[s] = next[s]
  BY <1>14, <1>15, OnType
<1>18. PICK b \in Maps : b = S!On(touched, now.val)
  BY <1>9, <1>15, OnType
<1>19. /\ again \in PatchType /\ again.want = w /\ again.result = None
       /\ again.rev = now.rev /\ again.seen = now.rev
  <2>1. again = S!Patch(now.rev, w, b, now.rev, FALSE)
    BY <1>17, <1>18
  <2> HIDE DEF again
  <2>2. PICK n \in Nat : n = now.rev
    BY <1>9
  <2>3. PICK a : a = again
    OBVIOUS
  <2>4. a = S!Patch(n, w, b, n, FALSE)
    BY <2>1, <2>2, <2>3
  <2>5. PICK no \in BOOLEAN : no = FALSE
    OBVIOUS
  <2>6. a = S!Patch(n, w, b, n, no)
    BY <2>4, <2>5
  <2>7. a \in PatchType /\ a.want = w /\ a.result = None /\ a.rev = n /\ a.seen = n
    BY <2>6, PatchFields
  <2> QED BY <2>2, <2>3, <2>7
<1> HIDE DEF again, r
<1>20. /\ r \in Seq(PatchType) /\ Fits(r)
       /\ \A i \in DOMAIN t : i \in DOMAIN r /\ Keeps(r[i], t[i], touched)
       /\ \A i \in DOMAIN r : \/ SameHistory(r[i], again)
                              \/ i \in DOMAIN t /\ SameHistory(r[i], t[i])
       /\ kept # {} => \E k \in DOMAIN r : \A s \in touched : Carries(r[k], next[s], s)
  <2>1. CASE kept = {}
    BY <1>5, <1>11, <1>12, <2>1 DEF Keeps, SameHistory
  <2>2. CASE kept # {}
    <3>1. QueuedAs(t, again, r)
      BY <1>6, <1>11, <1>12, <1>15, <1>17, <1>19, <2>2, QueuedFacts
    <3> QED BY <1>17, <1>19, <3>1 DEF QueuedAs
  <2> QED BY <2>1, <2>2
<1>21. PICK c : c = S!Open(me, settled)
  OBVIOUS
<1>22. /\ c \in [S!Settings -> Value \cup {None}]
       /\ \A s \in S!Settings : c[s] = IF s \in settled THEN None ELSE me.choice[s]
  <2> HIDE DEF settled
  <2> QED BY <1>1, <1>21, Opened
<1> HIDE DEF settled
<1>23. PICK k : k = [step |-> "show", document |-> shown]
  OBVIOUS
<1>24. /\ k \in [step : {"resolve", "show"}, document : Document] /\ k.step = "show"
       /\ k.document.rev = now.rev
  BY <1>9, <1>14, <1>23 DEF Document
<1>25. k # [step |-> "remove"]
  BY <1>24
<1> HIDE DEF shown
<1>26. PICK y : y = [me EXCEPT !.queue = r, !.choice = c, !.ack = k]
  OBVIOUS
<1>27. device' = [device EXCEPT ![d] = y]
  BY <1>1, <1>2, <1>21, <1>23, <1>26 DEF me
<1>28. /\ y \in DeviceType /\ y.saving = me.saving /\ y.queue = r
       /\ y.ack = k /\ y.choice = c
       /\ y.rev = me.rev /\ y.upto = me.upto /\ y.skipped = me.skipped /\ y.loads = me.loads
  BY <1>1, <1>20, <1>22, <1>24, <1>26 DEF DeviceType
<1>29. AckFits(y) /\ ~Removing(y)
  BY <1>24, <1>25, <1>28 DEF AckFits, Answers, Removing
<1>30. PatchesFit(y)
  BY <1>1, <1>20, <1>28 DEF DeviceInv, PatchesFit, Fits
<1>31. ASSUME NEW s \in S!Settings, y.choice[s] # None PROVE Backed(y, s) /\ LastSaving(y, s)
  <2>1. s \notin settled /\ y.choice[s] = me.choice[s]
    BY <1>22, <1>28, <1>31
  <2>2. Backed(me, s) /\ LastSaving(me, s)
    BY <1>1, <1>31, <2>1 DEF DeviceInv, Chosen
  <2>3. LastSaving(y, s)
    BY <1>28, <2>1, <2>2 DEF LastSaving
  <2>4. ASSUME S!Waits(me, S!Range(me.saving) \cup S!Range(r), s) PROVE Backed(y, s)
    <3>1. \/ \E i \in DOMAIN me.saving : Carries(me.saving[i], me.choice[s], s)
          \/ \E i \in DOMAIN r : Carries(r[i], me.choice[s], s)
      BY <2>4 DEF S!Waits, S!Range, Carries
    <3> QED BY <1>28, <1>29, <2>1, <3>1 DEF Backed
  <2>5. ASSUME NEW i \in DOMAIN r, Carries(r[i], me.choice[s], s) PROVE Backed(y, s)
    BY <1>28, <1>29, <2>1, <2>5 DEF Backed
  <2>6. ASSUME s \in touched PROVE Backed(y, s)
    <3>1. CASE next[s] = me.choice[s]
      BY <1>16, <1>20, <2>5, <2>6, <3>1
    <3>2. CASE next[s] # me.choice[s]
      BY <1>8, <1>15, <1>17, <1>19, <2>1, <2>4, <2>6, <3>2
    <3> QED BY <3>1, <3>2
  <2>7. CASE \E i \in DOMAIN me.saving : Carries(me.saving[i], me.choice[s], s)
    BY <1>28, <2>1, <2>3, <2>7 DEF Backed
  <2>8. ASSUME NEW i \in DOMAIN me.queue, i # 1, Carries(me.queue[i], me.choice[s], s)
        PROVE  Backed(y, s)
    <3>1. CASE s \in touched
      BY <2>6, <3>1
    <3>2. CASE s \notin touched
      <4>1. i - 1 \in DOMAIN t /\ Carries(t[i - 1], me.choice[s], s)
        BY <1>11, <2>8
      <4> QED BY <1>20, <2>5, <3>2, <4>1 DEF Keeps
    <3> QED BY <3>1, <3>2
  <2>9. ASSUME Carries(me.queue[1], me.choice[s], s) PROVE Backed(y, s)
    <3>1. s \in DOMAIN patch.want /\ patch.want[s] = me.choice[s]
      BY <1>10, <2>9 DEF Carries
    <3>2. CASE now.val[s] # patch.was[s] \/ now.val[s] = me.choice[s]
      BY <1>8, <2>1, <2>4, <3>1, <3>2
    <3>3. CASE ~(now.val[s] # patch.was[s] \/ now.val[s] = me.choice[s])
      <4>1. s \in kept
        BY <1>3, <3>1, <3>3
      <4> QED BY <1>15, <2>6, <4>1
    <3> QED BY <3>2, <3>3
  <2> QED BY <2>2, <2>3, <2>7, <2>8, <2>9 DEF Backed
<1>32. DeviceInv(y)
  BY <1>28, <1>29, <1>30, <1>31 DEF DeviceInv, Chosen
<1>33. DeviceKnown(d, y)
  <2>1. DeviceKnown(d, me)
    BY DeviceHolds DEF me
  <2>2. now.rev <= document.rev
    BY <1>2, <2>1 DEF DeviceKnown, AnswerKnown, now
  <2>3. PatchKnown(d, again)
    <3>1. Knows(d, again.seen, again.rev, again.skipped)
      BY <1>19, <2>2 DEF Knows
    <3> QED BY <1>19, <3>1, NoneIsNoResult DEF PatchKnown
  <2>4. PatchesKnown(d, t)
    BY <1>11, <2>1 DEF DeviceKnown, PatchesKnown
  <2>5. ASSUME NEW i \in DOMAIN r PROVE PatchKnown(d, r[i])
    <3>1. CASE SameHistory(r[i], again)
      BY <2>3, <3>1, HistoryKept
    <3>2. CASE i \in DOMAIN t /\ SameHistory(r[i], t[i])
      BY <2>4, <3>2, HistoryKept DEF PatchesKnown
    <3> QED BY <1>20, <3>1, <3>2
  <2>6. PatchesKnown(d, r)
    BY <2>5 DEF PatchesKnown
  <2>7. AnswerKnown(k)
    BY <1>24, <2>2 DEF AnswerKnown
  <2> QED BY <1>28, <2>1, <2>6, <2>7 DEF DeviceKnown
<1> QED BY Zenon, <1>27, <1>32, <1>33, DeviceChange DEF S!Resolve

LEMMA PreferencesStep == PreferencesInv /\ S!Next => PreferencesInv'
<1> SUFFICES ASSUME PreferencesInv, S!Next PROVE PreferencesInv'
  OBVIOUS
<1>1. ASSUME NEW s \in S!Settings, NEW v \in Values PROVE [t \in {s} |-> v] \in Maps
  <2>1. [t \in {s} |-> v] \in [{s} -> Value]
    BY DEF Value
  <2> QED BY <2>1 DEF Maps
<1>2. [s \in S!Settings |-> Default] \in Maps
  <2>1. [s \in S!Settings |-> Default] \in [S!Settings -> Value]
    BY DEF Value
  <2> QED BY <2>1 DEF Maps
<1>3. PICK d \in Devices :
        \/ \E s \in S!Settings, v \in Values : S!Persist(d, [t \in {s} |-> v])
        \/ S!RestoreDefaults(d) \/ S!QueueSave(d) \/ S!Claim(d) \/ S!Refuse(d) \/ S!Apply(d)
        \/ S!Acknowledge(d) \/ S!AcknowledgeCompacted(d) \/ S!RemovePatch(d)
        \/ S!ReadDocument(d) \/ S!Resolve(d) \/ S!Show(d)
        \/ S!Hint(d) \/ S!CheckPending(d) \/ S!Loaded(d) \/ S!Reload(d)
  BY DEF S!Next
<1>4. CASE \E s \in S!Settings, v \in Values : S!Persist(d, [t \in {s} |-> v])
  BY <1>1, <1>4, PersistStep
<1>5. CASE S!RestoreDefaults(d)
  BY <1>2, <1>5, PersistStep DEF S!RestoreDefaults
<1> QED BY <1>3, <1>4, <1>5, QueueSaveStep, ClaimStep, RefuseStep, ApplyStep, AcknowledgeStep,
           CompactedStep, RemoveStep, ReadStep, ResolveStep, ShowStep, LoadsStep, PageReloadStep

PreferencesClient == active = "preferences" => PreferencesInv

LEMMA PreferencesHold == ClientSpec => []PreferencesClient
<1>1. ClientInit => PreferencesClient
  BY PreferencesStart DEF ClientInit, PreferencesClient
<1>2. PreferencesClient /\ [ClientNext]_vars => PreferencesClient'
  <2> SUFFICES ASSUME PreferencesClient, [ClientNext]_vars, active' = "preferences"
               PROVE  PreferencesInv'
    BY DEF PreferencesClient
  <2>1. active = "preferences" /\ PreferencesInv
    BY DEF PreferencesClient, ClientNext, vars
  <2>2. CASE S!Next
    BY <2>1, <2>2, PreferencesStep
  <2>3. CASE UNCHANGED preferenceVars
    BY <2>1, <2>3 DEF preferenceVars, PreferencesInv, AuthorsFit, DeviceKnown, Knows,
                      PatchesKnown, PatchKnown, LoadsKnown, AnswerKnown
  <2> QED BY <2>1, <2>2, <2>3 DEF ClientNext, vars
<1> QED BY <1>1, <1>2, PTL DEF ClientSpec

(* A patch replaces what another device chose, and its user never saw, only  *)
(* if it was made after an acknowledgement took the browser past a change    *)
(* (sync_ops.go:291): of any other patch the server compares whole fields    *)
(* with what it was based on (PatchConflicts), and neither the merge of      *)
(* waiting patches, the resolution of a refused one, a download nor a        *)
(* restart gives a patch a revision ahead of what its user saw.              *)
THEOREM NoBlindOverwriteHolds == ClientSpec => []NoBlindOverwrite
<1>1. PreferencesClient => NoBlindOverwrite
  BY DEF PreferencesClient, PreferencesInv, NoBlindOverwrite, S!NoBlindOverwrite
<1> QED BY <1>1, PreferencesHold, PTL

(* What a user chose last is in a patch that waits, or was settled: queueing *)
(* a patch, its answers and the resolution of a refused one                  *)
(* (sync/preference-conflicts.js) never lose it.                             *)
THEOREM ChoicesAccountedHolds == ClientSpec => []ChoicesAccounted
<1>1. PreferencesClient => ChoicesAccounted
  <2>1. ASSUME PreferencesInv PROVE S!ChoicesAccounted
    <3> SUFFICES ASSUME NEW d \in Devices, NEW s \in S!Settings, device[d].choice[s] # None
                 PROVE  S!Waits(device[d], S!Range(device[d].saving)
                                             \cup S!Range(device[d].queue), s)
      BY DEF S!ChoicesAccounted
    <3>1. Backed(device[d], s)
      BY <2>1 DEF PreferencesInv, DeviceInv, Chosen
    <3> QED BY <3>1, WaitsBacked DEF Backed
  <2> QED BY <2>1 DEF PreferencesClient, ChoicesAccounted
<1> QED BY <1>1, PreferencesHold, PTL

(***************************************************************************)
(* Preview                                                                 *)
(*                                                                         *)
(* The preview at rest shows the editor's text, and an edit made on it     *)
(* hits what it shows, for every number of items, edits, answers, timers   *)
(* and batches, in the composition of MCClient.                            *)
(*                                                                         *)
(* The two properties speak of a page at rest and of the moment of an      *)
(* edit. What makes them hold is an account of the page at every moment:   *)
(* which text its elements and their ranges are of (PageFits), what may    *)
(* still be under way beside what (RequestFits), that a visible page of    *)
(* another text has something under way that will bring the text or look   *)
(* again (Follows), that an armed drag keeps the page it was armed on      *)
(* (DragFits), and that the recorded edits follow each other and end at    *)
(* the text (HistoryFits).                                                 *)
(***************************************************************************)

Element == [item : Item, entry : Nat]

PageType ==
  [dom : Seq(Element), source : Text \cup {None}, meta : Text \cup {None}, cut : BOOLEAN,
   busy : BOOLEAN, known : Text \cup {None}, live : BOOLEAN, job : {None} \cup Slices,
   dead : BOOLEAN, request : {None} \cup Asked, apply : {None} \cup Got,
   part : {None} \cup [text : Text, how : Hows, fresh : BOOLEAN],
   due : SUBSET {"delay", "stray", "frame"}, flaws : SUBSET {"cut short", "left inert", "adopted", "box only"}]

EditorType == [text : Text, dirty : BOOLEAN, panel : P!Panels]

Ticking == [at : Nat \ {0}, removed : BOOLEAN, inserted : BOOLEAN, before : Text]
Moving  == [at : {0}, removed : Text, inserted : Text, before : Text]
EditType == [history : Seq(Ticking \cup Moving), drag : {None} \cup Dragged, wrong : BOOLEAN]

Current(x) == x # None /\ x.fresh

(* A rendering in batches is not finished.                                   *)
PartFits(p) == Current(p.part) => Len(p.dom) < Len(p.part.text)

(* The elements on the page are those of a text, or the first of them.       *)
Holds(dom, text) == \A i \in DOMAIN dom : i \in DOMAIN text /\ dom[i].item = text[i]

PageFits(p) ==
  /\ p.source # None /\ ~p.cut => Holds(p.dom, p.source) /\ Len(p.dom) = Len(p.source)
  /\ p.cut => ~p.live /\ p.known = None /\ p.job = None
  /\ p.source # None /\ p.known = p.source => \A i \in DOMAIN p.dom : p.dom[i].entry = i
  /\ p.job # None /\ p.source # None =>
       /\ p.source = p.job.text /\ p.live
       /\ \A i \in DOMAIN p.dom : i < p.job.next => p.dom[i].entry = i
  /\ Current(p.part) => (p.source = None \/ p.cut) /\ Holds(p.dom, p.part.text)

(* A request overtakes what was answered before; a rendering of its text     *)
(* would have cancelled it.                                                  *)
RequestFits(p) ==
  /\ p.request # None /\ ~p.dead =>
       ~Current(p.apply) /\ ~Current(p.part) /\ p.source # p.request.text
  /\ Current(p.apply) => (p.dead <=> p.apply.how = "fallback")
  /\ Current(p.apply) /\ ~p.dead => p.apply.text # None

(* What is under way for this text                                           *)
Answered(p, text) == Current(p.apply) /\ (p.apply.how = "fallback" \/ p.apply.text = text)

Coming(p, text) ==
  \/ p.request # None /\ p.request.text = text
  \/ Answered(p, text)
  \/ Current(p.part) /\ p.part.text = text
  \/ p.due # {}

(* A visible page shows the text, and takes edits, or will; and if it is     *)
(* marked busy something is under way that will end that.                    *)
Follows(p, text) ==
  /\ \/ p.source = text /\ ~p.cut
     \/ text = <<>> /\ p.dom = <<>>
     \/ Coming(p, text)
  /\ p.source = text /\ text # <<>> =>
       p.known = text \/ (p.job # None /\ p.job.text = text) \/ Coming(p, text)
  /\ p.busy => \/ p.request # None \/ p.part # None \/ p.due # {}
               \/ (Answered(p, text) /\ p.source # text)

(* While a drag is armed the page is of the text, and stays so.              *)
Named(text, at, name) == at \in DOMAIN text /\ text[at].name = name

Aligned(dom, text) ==
  \A i \in DOMAIN dom : dom[i].entry \in {0, i} /\ Named(text, i, dom[i].item.name)

DragFits(drag, p, text) ==
  drag # None =>
    /\ Named(text, drag.from, drag.name)
    /\ drag.target # None => drag.armed /\ Named(text, drag.target.to, drag.target.name)
    /\ drag.armed => p.source = text /\ Aligned(p.dom, text)

(* The edits that can be undone follow each other and end at the text.       *)
Result(h) == IF h.at = 0 THEN h.inserted ELSE [h.before EXCEPT ![h.at].done = h.inserted]

Stands(h, text) ==
  /\ Result(h) = text
  /\ IF h.at = 0 THEN h.removed = h.before
     ELSE h.at \in DOMAIN h.before /\ h.before[h.at].done = h.removed

HistoryFits(history, text) ==
  \A i \in DOMAIN history :
    Stands(history[i], IF i = Len(history) THEN text ELSE history[i + 1].before)

PreviewTypes ==
  /\ preview \in PageType /\ editor \in EditorType /\ edit \in EditType /\ PartFits(preview)

PageSound(p) == PageFits(p) /\ RequestFits(p)

PreviewSound(p, e, x) ==
  /\ PageSound(p)
  /\ P!Shows(e.panel) => Follows(p, e.text)
  /\ DragFits(x.drag, p, e.text)
  /\ HistoryFits(x.history, e.text)
  /\ ~x.wrong

PreviewInv == PreviewTypes /\ (preview.flaws = {} => PreviewSound(preview, editor, edit))

LEMMA PreviewNone ==
  /\ None \notin Text
  /\ \A x \in Asked \cup Got \cup Slices : x # None
  /\ \A x \in Dragged \cup Target : x # None
BY ClientAssumption

(* What the small functions do to the page.                                  *)
CancelledAs(p, r) ==
  /\ r \in PageType /\ r.request = None /\ r.apply = None /\ r.part = None /\ r.job = None
  /\ r.busy = FALSE /\ r.due = p.due \ {"delay"}
  /\ r.dom = p.dom /\ r.source = p.source /\ r.meta = p.meta /\ r.cut = p.cut
  /\ r.known = p.known /\ r.live = p.live /\ r.dead = p.dead /\ r.flaws = p.flaws

LEMMA CancelledPage ==
  ASSUME NEW p \in PageType, NEW r, r = P!CancelPending(p)
  PROVE  CancelledAs(p, r)
<1>1. PICK due \in SUBSET {"delay", "stray", "frame"} : due = p.due \ {"delay"}
  BY Zenon DEF PageType
<1>2. r = [p EXCEPT !.request = None, !.apply = None, !.part = None, !.job = None,
                    !.busy = FALSE, !.due = due]
  BY <1>1 DEF P!CancelPending
<1> QED BY <1>1, <1>2, ZenonT(60) DEF PageType, CancelledAs

OutdatedAs(p, r) ==
  /\ r \in PageType /\ ~Current(r.apply) /\ ~Current(r.part)
  /\ r.dom = p.dom /\ r.source = p.source /\ r.meta = p.meta /\ r.cut = p.cut
  /\ r.busy = p.busy /\ r.known = p.known /\ r.live = p.live /\ r.job = p.job
  /\ r.dead = p.dead /\ r.request = p.request /\ r.due = p.due /\ r.flaws = p.flaws

LEMMA OutdatedPage ==
  ASSUME NEW p \in PageType, NEW r, r = P!Outdated(p)
  PROVE  OutdatedAs(p, r)
<1>1. PICK a \in {None} \cup Got :
        /\ a = IF p.apply = None THEN None ELSE [p.apply EXCEPT !.fresh = FALSE]
        /\ ~Current(a)
  <2>1. CASE p.apply = None
    BY <2>1 DEF Current
  <2>2. CASE p.apply # None
    <3>1. PICK b \in Got : b = p.apply
      BY Zenon, <2>2 DEF PageType
    <3>2. [b EXCEPT !.fresh = FALSE] \in Got /\ ~[b EXCEPT !.fresh = FALSE].fresh
      BY DEF Got
    <3> QED BY <2>2, <3>1, <3>2 DEF Current
  <2> QED BY <2>1, <2>2
<1>2. PICK c \in {None} \cup [text : Text, how : Hows, fresh : BOOLEAN] :
        /\ c = IF p.part = None THEN None ELSE [p.part EXCEPT !.fresh = FALSE]
        /\ ~Current(c)
  <2>1. CASE p.part = None
    BY <2>1 DEF Current
  <2>2. CASE p.part # None
    <3>1. PICK b \in [text : Text, how : Hows, fresh : BOOLEAN] : b = p.part
      BY Zenon, <2>2 DEF PageType
    <3>2. /\ [b EXCEPT !.fresh = FALSE] \in [text : Text, how : Hows, fresh : BOOLEAN]
          /\ ~[b EXCEPT !.fresh = FALSE].fresh
      OBVIOUS
    <3> QED BY <2>2, <3>1, <3>2 DEF Current
  <2> QED BY <2>1, <2>2
<1>3. r = [p EXCEPT !.apply = a, !.part = c]
  BY Zenon, <1>1, <1>2 DEF P!Outdated, PageType
<1> QED BY <1>1, <1>2, <1>3, ZenonT(60) DEF PageType, OutdatedAs

InvalidatedAs(p, r) ==
  /\ r \in PageType /\ r.source = None /\ r.cut = FALSE
  /\ r.dom = p.dom /\ r.meta = p.meta /\ r.busy = p.busy /\ r.known = p.known
  /\ r.live = p.live /\ r.job = p.job /\ r.dead = p.dead /\ r.request = p.request
  /\ r.apply = p.apply /\ r.part = p.part /\ r.due = p.due /\ r.flaws = p.flaws

LEMMA InvalidatedPage ==
  ASSUME NEW p \in PageType, NEW r, r = P!Invalidated(p)
  PROVE  InvalidatedAs(p, r)
BY Zenon DEF P!Invalidated, PageType, InvalidatedAs

CachedAs(p, r, text, deferred) ==
  /\ r \in PageType /\ r.live = TRUE
  /\ DOMAIN r.dom = DOMAIN p.dom /\ Len(r.dom) = Len(p.dom)
  /\ \A i \in DOMAIN p.dom : /\ r.dom[i].item = p.dom[i].item
                             /\ r.dom[i].entry \in {i, p.dom[i].entry}
  /\ IF text = <<>> \/ deferred
     THEN r.known = None /\ (text # <<>> => r.job # None /\ r.job.next = 1)
     ELSE r.known = text /\ \A i \in DOMAIN p.dom : r.dom[i].entry = i
  /\ r.job # None => r.job.text = text /\ r.job.next = 1
  /\ r.source = p.source /\ r.meta = p.meta /\ r.cut = p.cut
  /\ r.busy = p.busy /\ r.dead = p.dead /\ r.request = p.request
  /\ r.apply = p.apply /\ r.part = p.part /\ r.due = p.due /\ r.flaws = p.flaws

LEMMA CachedPage ==
  ASSUME NEW p \in PageType, NEW text \in Text, NEW deferred \in BOOLEAN,
         NEW r, r = P!CacheBlocks(p, text, deferred)
  PROVE  CachedAs(p, r, text, deferred)
<1>1. CASE text = <<>> \/ deferred
  <2>1. PICK j \in {None} \cup Slices :
          /\ j = IF text = <<>> THEN None ELSE [text |-> text, next |-> 1]
          /\ j # None => j.text = text /\ j.next = 1
          /\ text # <<>> => j # None
    <3>1. [text |-> text, next |-> 1] \in Slices
      BY DEF Slices
    <3> QED BY <3>1, PreviewNone
  <2>2. r = [p EXCEPT !.live = TRUE, !.known = None, !.job = j]
    BY <1>1, <2>1 DEF P!CacheBlocks
  <2> QED BY <1>1, <2>1, <2>2, ZenonT(60) DEF PageType, CachedAs
<1>2. CASE ~(text = <<>> \/ deferred)
  <2>1. p.dom \in Seq(Element)
    BY Zenon DEF PageType
  <2>2. PICK d : d = [i \in DOMAIN p.dom |-> [p.dom[i] EXCEPT !.entry = i]]
    OBVIOUS
  <2>3. \A i \in DOMAIN p.dom : /\ d[i] \in Element
                                /\ d[i].item = p.dom[i].item /\ d[i].entry = i
    <3>1. \A i \in DOMAIN p.dom : i \in Nat /\ p.dom[i] \in Element
      BY <2>1
    <3> QED BY <2>2, <3>1 DEF Element
  <2>4. d \in Seq(Element) /\ DOMAIN d = DOMAIN p.dom /\ Len(d) = Len(p.dom)
    <3>1. DOMAIN p.dom = 1 .. Len(p.dom) /\ Len(p.dom) \in Nat
      BY <2>1
    <3>2. d \in [1 .. Len(p.dom) -> Element]
      BY <2>2, <2>3, <3>1
    <3> QED BY <3>1, <3>2
  <2>5. r = [p EXCEPT !.live = TRUE, !.known = text, !.job = None, !.dom = d]
    BY Zenon, <1>2, <2>2 DEF P!CacheBlocks, PageType
  <2>6. /\ r \in PageType /\ r.live = TRUE /\ r.known = text /\ r.job = None /\ r.dom = d
        /\ r.source = p.source /\ r.meta = p.meta /\ r.cut = p.cut
        /\ r.busy = p.busy /\ r.dead = p.dead /\ r.request = p.request
        /\ r.apply = p.apply /\ r.part = p.part /\ r.due = p.due /\ r.flaws = p.flaws
    BY <2>4, <2>5, ZenonT(60) DEF PageType
  <2> QED BY <1>2, <2>3, <2>4, <2>6 DEF CachedAs
<1> QED BY <1>1, <1>2

RenderedAs(p, r, text) ==
  /\ r \in PageType /\ r.source = text /\ r.cut = FALSE
  /\ r.dom = p.dom /\ r.busy = p.busy /\ r.dead = p.dead /\ r.request = p.request
  /\ r.apply = p.apply /\ r.part = p.part /\ r.due = p.due /\ r.flaws = p.flaws

LEMMA RenderedPage ==
  ASSUME NEW p \in PageType, NEW text \in Text, NEW how, NEW r, r = P!Rendered(p, text, how)
  PROVE  RenderedAs(p, r, text)
<1>1. PICK meta \in Text \cup {None} : meta = IF P!Safe(how) THEN text ELSE None
  OBVIOUS
<1>2. r = [p EXCEPT !.source = text, !.cut = FALSE, !.meta = meta]
  BY <1>1 DEF P!Rendered
<1> QED BY <1>1, <1>2, ZenonT(60) DEF PageType, RenderedAs

(* The items that two texts begin and end with.                              *)
LEMMA SharedItems ==
  ASSUME NEW old \in Text, NEW new \in Text, NEW k, k = P!Shared(old, new)
  PROVE  /\ k \in 0 .. Len(old) /\ k <= Len(new)
         /\ \A i \in 1 .. k : old[i] = new[i]
<1>1. PICK m \in Nat, n \in Nat : m = Len(old) /\ n = Len(new)
  BY DEF Text
<1> DEFINE Common(j) == j \in 0 .. m /\ j <= n /\ \A i \in 1 .. j : old[i] = new[i]
           Rest      == {m - j : j \in {l \in 0 .. m : Common(l)}}
<1>2. \E j : Common(j) /\ (j < m /\ j < n => old[j + 1] # new[j + 1])
  <2>1. 0 \in 0 .. m /\ Common(0)
    OBVIOUS
  <2>2. Rest \subseteq Nat /\ Rest # {}
    BY <2>1
  <2>3. PICK x \in Rest : \A y \in Rest : x <= y
    <3> HIDE DEF Rest
    <3> QED BY <2>2, LeastNat
  <2>4. PICK j \in 0 .. m : x = m - j /\ Common(j)
    BY <2>3
  <2>5. ASSUME j < m, j < n, old[j + 1] = new[j + 1] PROVE FALSE
    <3>1. Common(j + 1) /\ j + 1 \in 0 .. m
      BY <2>4, <2>5
    <3>2. m - (j + 1) \in Rest
      BY <3>1
    <3>3. x <= m - (j + 1)
      BY <2>3, <3>2
    <3> QED BY <2>4, <3>3
  <2> QED BY <2>4, <2>5
<1> DEFINE Longest(j) == /\ j <= Len(new) /\ \A i \in 1 .. j : old[i] = new[i]
                         /\ j < Len(old) /\ j < Len(new) => old[j + 1] # new[j + 1]
<1>3. k = CHOOSE j \in 0 .. Len(old) : Longest(j)
  BY DEF P!Shared
<1>4. \E j \in 0 .. Len(old) : Longest(j)
  BY <1>1, <1>2
<1>5. k \in 0 .. Len(old) /\ Longest(k)
  <2> HIDE DEF Longest
  <2> QED BY <1>3, <1>4
<1> QED BY <1>5

LEMMA SharedTailItems ==
  ASSUME NEW old \in Text, NEW new \in Text, NEW f \in 0 .. Len(old), f <= Len(new),
         NEW k, k = P!SharedTail(old, new, f)
  PROVE  /\ k \in 0 .. (Len(old) - f) /\ k <= Len(new) - f
         /\ \A i \in 0 .. (k - 1) : old[Len(old) - i] = new[Len(new) - i]
<1>1. PICK m \in Nat, n \in Nat : m = Len(old) /\ n = Len(new)
  BY DEF Text
<1> DEFINE Common(j) == /\ j \in 0 .. (m - f) /\ j <= n - f
                        /\ \A i \in 0 .. (j - 1) : old[m - i] = new[n - i]
           Rest      == {m - f - j : j \in {l \in 0 .. (m - f) : Common(l)}}
<1>2. \E j : Common(j) /\ (j < m - f /\ j < n - f => old[m - j] # new[n - j])
  <2>1. 0 \in 0 .. (m - f) /\ Common(0)
    BY <1>1
  <2>2. Rest \subseteq Nat /\ Rest # {}
    <3>1. \A j \in 0 .. (m - f) : m - f - j \in Nat
      BY <1>1
    <3>2. Rest \subseteq Nat
      BY <3>1
    <3>3. m - f - 0 \in Rest
      BY <2>1
    <3> QED BY <3>2, <3>3
  <2>3. PICK x \in Rest : \A y \in Rest : x <= y
    <3> HIDE DEF Rest
    <3> QED BY <2>2, LeastNat
  <2>4. PICK j \in 0 .. (m - f) : x = m - f - j /\ Common(j)
    BY <2>3
  <2>5. ASSUME j < m - f, j < n - f, old[m - j] = new[n - j] PROVE FALSE
    <3>1. Common(j + 1) /\ j + 1 \in 0 .. (m - f)
      <4>1. j + 1 \in 0 .. (m - f) /\ j + 1 <= n - f
        BY <1>1, <2>4, <2>5
      <4>2. \A i \in 0 .. (j + 1 - 1) : i = j \/ i \in 0 .. (j - 1)
        BY <1>1, <2>4
      <4>3. ASSUME NEW i \in 0 .. (j + 1 - 1) PROVE old[m - i] = new[n - i]
        <5>1. CASE i = j
          BY <2>5, <5>1
        <5>2. CASE i \in 0 .. (j - 1)
          BY <2>4, <5>2
        <5> QED BY <4>2, <5>1, <5>2
      <4> QED BY <4>1, <4>3
    <3>2. m - f - (j + 1) \in Rest
      BY <3>1
    <3>3. x <= m - f - (j + 1)
      BY <2>3, <3>2
    <3> QED BY <1>1, <2>4, <3>3
  <2> QED BY <2>4, <2>5
<1> DEFINE Longest(j) ==
             /\ j <= Len(new) - f
             /\ \A i \in 0 .. (j - 1) : old[Len(old) - i] = new[Len(new) - i]
             /\ j < Len(old) - f /\ j < Len(new) - f
                  => old[Len(old) - j] # new[Len(new) - j]
<1>3. k = CHOOSE j \in 0 .. (Len(old) - f) : Longest(j)
  BY DEF P!SharedTail
<1>4. \E j \in 0 .. (Len(old) - f) : Longest(j)
  BY <1>1, <1>2
<1>5. k \in 0 .. (Len(old) - f) /\ Longest(k)
  <2> HIDE DEF Longest
  <2> QED BY <1>3, <1>4
<1> QED BY <1>5

(* Patching the blocks of a page that shows the whole of another text.       *)
LEMMA PatchedBlocks ==
  ASSUME NEW p \in PageType, NEW text \in Text, P!CanPatch(p, TRUE),
         NEW d, d = P!PatchBlocks(p, text)
  PROVE  /\ d \in Seq(Element) /\ DOMAIN d = DOMAIN text /\ Len(d) = Len(text)
         /\ Holds(p.dom, p.meta) => Holds(d, text)
         /\ p.meta = text /\ Aligned(p.dom, text) => Aligned(d, text)
<1>1. PICK meta : meta = p.meta
  OBVIOUS
<1>2. meta \in Text /\ Len(p.dom) = Len(meta) /\ p.dom \in Seq(Element)
  BY Zenon, <1>1 DEF P!CanPatch, PageType
<1>3. PICK dom : dom = p.dom
  OBVIOUS
<1>4. PICK f : f = P!Shared(meta, text)
  OBVIOUS
<1>5. /\ f \in 0 .. Len(meta) /\ f <= Len(text)
      /\ \A i \in 1 .. f : meta[i] = text[i]
  BY <1>2, <1>4, SharedItems
<1>6. PICK g : g = P!SharedTail(meta, text, f)
  OBVIOUS
<1>7. /\ g \in 0 .. (Len(meta) - f) /\ g <= Len(text) - f
      /\ \A i \in 0 .. (g - 1) : meta[Len(meta) - i] = text[Len(text) - i]
  BY <1>2, <1>5, <1>6, SharedTailItems
<1>8. PICK m \in Nat, n \in Nat : m = Len(meta) /\ n = Len(text)
  BY <1>2 DEF Text
<1>9. d = [i \in DOMAIN text |->
             IF i <= f THEN dom[i]
             ELSE IF i > n - g THEN dom[i + (m - n)]
             ELSE [item |-> text[i], entry |-> IF m - n = 0 THEN dom[i].entry ELSE 0]]
  BY <1>1, <1>3, <1>4, <1>6, <1>8 DEF P!PatchBlocks
<1>10. /\ DOMAIN text = 1 .. n /\ DOMAIN meta = 1 .. m /\ DOMAIN dom = 1 .. m
       /\ \A i \in 1 .. n : text[i] \in Item
       /\ \A i \in 1 .. m : meta[i] \in Item /\ dom[i] \in Element
  BY <1>2, <1>3, <1>8 DEF Text
<1>11. ASSUME NEW i \in 1 .. n
       PROVE  \/ i \in 1 .. m /\ d[i] = dom[i] /\ meta[i] = text[i]
              \/ i + (m - n) \in 1 .. m /\ d[i] = dom[i + (m - n)]
                 /\ meta[i + (m - n)] = text[i]
              \/ d[i] = [item |-> text[i], entry |-> IF m - n = 0 THEN dom[i].entry ELSE 0]
  <2>1. CASE i <= f
    BY <1>5, <1>8, <1>9, <1>10, <2>1
  <2>2. CASE ~(i <= f) /\ i > n - g
    <3>1. n - i \in 0 .. (g - 1) /\ i + (m - n) \in 1 .. m
      BY <1>5, <1>7, <1>8, <2>2
    <3>2. meta[m - (n - i)] = text[n - (n - i)]
      BY <1>7, <1>8, <3>1
    <3>3. m - (n - i) = i + (m - n) /\ n - (n - i) = i
      BY <1>8
    <3> QED BY <1>9, <1>10, <2>2, <3>1, <3>2, <3>3
  <2>3. CASE ~(i <= f) /\ ~(i > n - g)
    BY <1>9, <1>10, <2>3
  <2> QED BY <2>1, <2>2, <2>3
<1>12. ASSUME NEW i \in 1 .. n PROVE d[i] \in Element
  <2>1. CASE d[i] = [item |-> text[i], entry |-> IF m - n = 0 THEN dom[i].entry ELSE 0]
    <3>1. (IF m - n = 0 THEN dom[i].entry ELSE 0) \in Nat
      BY <1>8, <1>10 DEF Element
    <3> QED BY <1>10, <2>1, <3>1 DEF Element
  <2> QED BY <1>10, <1>11, <2>1
<1>13. d \in Seq(Element) /\ DOMAIN d = DOMAIN text /\ Len(d) = Len(text)
  <2>1. d \in [1 .. n -> Element] /\ DOMAIN d = 1 .. n
    BY <1>9, <1>10, <1>12
  <2>2. d \in Seq(Element)
    BY <2>1
  <2>3. Len(d) = n
    BY <2>1, <2>2
  <2> QED BY <1>8, <1>10, <2>1, <2>2, <2>3
<1>14. ASSUME Holds(dom, meta) PROVE Holds(d, text)
  <2> SUFFICES ASSUME NEW i \in 1 .. n PROVE d[i].item = text[i]
    BY <1>10, <1>13 DEF Holds
  <2>1. \A j \in 1 .. m : dom[j].item = meta[j]
    BY <1>10, <1>14 DEF Holds
  <2>2. CASE d[i] = [item |-> text[i], entry |-> IF m - n = 0 THEN dom[i].entry ELSE 0]
    BY <2>2
  <2> QED BY <1>11, <2>1, <2>2
<1>15. ASSUME meta = text, Aligned(dom, text) PROVE Aligned(d, text)
  <2>1. m = n
    BY <1>8, <1>15
  <2> SUFFICES ASSUME NEW i \in 1 .. n
               PROVE  d[i].entry \in {0, i} /\ Named(text, i, d[i].item.name)
    BY <1>10, <1>13 DEF Aligned
  <2>2. dom[i].entry \in {0, i} /\ Named(text, i, dom[i].item.name)
    BY <1>10, <1>15, <2>1 DEF Aligned
  <2>3. CASE d[i] = dom[i]
    BY <2>2, <2>3
  <2>4. CASE d[i] = [item |-> text[i], entry |-> IF m - n = 0 THEN dom[i].entry ELSE 0]
    <3>1. d[i].item = text[i] /\ d[i].entry = dom[i].entry
      BY <2>1, <2>4
    <3> QED BY <1>10, <2>2, <3>1 DEF Named
  <2>5. i + (m - n) = i
    BY <2>1
  <2> QED BY <1>11, <2>3, <2>4, <2>5
<1> QED BY <1>1, <1>3, <1>13, <1>14, <1>15

(***************************************************************************)
(* A rendering starts, or is finished.                                     *)
(***************************************************************************)
(* What every function that renders keeps; it leaves no gap that a visible   *)
(* page could fall into.                                                     *)
Aligns(p, r, text) ==
  p.source = text /\ Aligned(p.dom, text) => r.source = text /\ Aligned(r.dom, text)

NoRequest(p) == p.request = None \/ p.dead

DoneAs(p, d, r, text) ==
  /\ r \in PageType /\ PartFits(r) /\ r.flaws = p.flaws /\ r.source = text
  /\ Aligned(d, text) => Aligned(r.dom, text)
  /\ NoRequest(p) /\ RequestFits(p) => RequestFits(r)
  /\ Holds(d, text) => PageFits(r)
  /\ Follows(r, text)

LEMMA RenderDone ==
  ASSUME NEW p \in PageType, NEW text \in Text, NEW how \in Hows, NEW deferred \in BOOLEAN,
         NEW d \in Seq(Element), DOMAIN d = DOMAIN text,
         NEW q, q = [p EXCEPT !.dom = d, !.part = None, !.busy = FALSE],
         NEW r, r = P!CacheBlocks(P!Rendered(q, text, how), text, deferred)
  PROVE  DoneAs(p, d, r, text)
<1>1. PICK z : z = P!Rendered(q, text, how)
  OBVIOUS
<1>2. r = P!CacheBlocks(z, text, deferred)
  BY <1>1
<1>3. q \in PageType /\ q.dom = d /\ q.part = None /\ q.busy = FALSE
      /\ q.request = p.request /\ q.apply = p.apply /\ q.dead = p.dead /\ q.flaws = p.flaws
  BY Zenon DEF PageType
<1>4. /\ z \in PageType /\ z.dom = d /\ z.part = None /\ z.busy = FALSE /\ z.source = text
      /\ z.cut = FALSE /\ z.request = p.request /\ z.apply = p.apply /\ z.dead = p.dead
      /\ z.flaws = p.flaws
  <2>1. q \in PageType
    BY <1>3
  <2>2. RenderedAs(q, z, text)
    BY <1>1, <2>1, RenderedPage
  <2> QED BY <1>3, <2>2 DEF RenderedAs
<1>5. CachedAs(z, r, text, deferred)
  BY <1>2, <1>4, CachedPage
<1>6. /\ r \in PageType /\ r.live = TRUE
      /\ DOMAIN r.dom = DOMAIN d /\ Len(r.dom) = Len(d)
      /\ \A i \in DOMAIN d : r.dom[i].item = d[i].item /\ r.dom[i].entry \in {i, d[i].entry}
      /\ IF text = <<>> \/ deferred
         THEN r.known = None /\ (text # <<>> => r.job # None /\ r.job.next = 1)
         ELSE r.known = text /\ \A i \in DOMAIN d : r.dom[i].entry = i
      /\ r.job # None => r.job.text = text /\ r.job.next = 1
      /\ r.source = text /\ r.cut = FALSE /\ r.busy = FALSE /\ r.dead = p.dead
      /\ r.request = p.request /\ r.apply = p.apply /\ r.part = None /\ r.flaws = p.flaws
  BY <1>4, <1>5 DEF CachedAs
<1>7. ~Current(r.part)
  BY <1>6 DEF Current
<1>8. PartFits(r)
  BY <1>7 DEF PartFits
<1>9. Aligned(d, text) => Aligned(r.dom, text)
  BY <1>6 DEF Aligned
<1>10. NoRequest(p) /\ RequestFits(p) => RequestFits(r)
  BY <1>6, <1>7 DEF RequestFits, NoRequest
<1>11. \A i \in DOMAIN d : i >= 1
  <2>1. DOMAIN d = 1 .. Len(d) /\ Len(d) \in Nat
    OBVIOUS
  <2> QED BY <2>1
<1>12. ASSUME Holds(d, text) PROVE PageFits(r)
  <2>1. Holds(r.dom, text) /\ Len(r.dom) = Len(text)
    <3>1. Len(d) = Len(text)
      BY DEF Text
    <3> QED BY <1>6, <1>12, <3>1 DEF Holds
  <2>2. r.known = r.source => \A i \in DOMAIN r.dom : r.dom[i].entry = i
    BY <1>6, PreviewNone
  <2>3. r.job # None => \A i \in DOMAIN r.dom : ~(i < r.job.next)
    BY <1>6, <1>11
  <2> QED BY <1>6, <1>7, <2>1, <2>2, <2>3 DEF PageFits
<1>13. Follows(r, text)
  BY <1>6 DEF Follows
<1> QED BY <1>6, <1>8, <1>9, <1>10, <1>12, <1>13 DEF DoneAs

StartedAs(p, r, text) ==
  /\ r \in PageType /\ PartFits(r) /\ r.flaws = p.flaws /\ r.source = p.source
  /\ Aligned(r.dom, text)
  /\ NoRequest(p) /\ RequestFits(p) => RequestFits(r)
  /\ PageFits(r) /\ Follows(r, text)

LEMMA RenderStarted ==
  ASSUME NEW p \in PageType, NEW text \in Text, text # <<>>, NEW how \in Hows,
         NEW r, r = P!RenderProgressively(p, text, how)
  PROVE  StartedAs(p, r, text)
<1>1. PICK part : part = [text |-> text, how |-> how, fresh |-> TRUE]
  OBVIOUS
<1>2. /\ part \in [text : Text, how : Hows, fresh : BOOLEAN] /\ part # None
      /\ part.text = text /\ part.fresh
  <2>1. part \in [text : Text, how : Hows, fresh : BOOLEAN] /\ part.text = text /\ part.fresh
    BY <1>1
  <2>2. part \in Got
    BY <2>1 DEF Got
  <2> QED BY <2>1, <2>2, PreviewNone
<1>3. PICK cut \in BOOLEAN : cut <=> p.source # None
  BY Zenon
<1>4. r = [p EXCEPT !.dom = <<>>, !.busy = TRUE, !.live = FALSE, !.known = None, !.job = None,
                    !.cut = (p.source # None), !.part = part]
  BY <1>1 DEF P!RenderProgressively
<1>5. r = [p EXCEPT !.dom = <<>>, !.busy = TRUE, !.live = FALSE, !.known = None, !.job = None,
                    !.cut = cut, !.part = part]
  <2>1. cut = (p.source # None)
    BY <1>3
  <2> QED BY <1>4, <2>1
<1>6. /\ r \in PageType /\ r.dom = <<>> /\ r.busy = TRUE /\ r.live = FALSE /\ r.known = None
      /\ r.job = None /\ r.cut = cut /\ r.part = part /\ r.source = p.source
      /\ r.request = p.request /\ r.apply = p.apply /\ r.dead = p.dead /\ r.flaws = p.flaws
  <2>1. <<>> \in Seq(Element)
    OBVIOUS
  <2> QED BY <1>2, <1>3, <1>5, <2>1, ZenonT(60) DEF PageType
<1>7. Current(r.part) /\ r.part.text = text
  BY <1>2, <1>6 DEF Current
<1>8. PartFits(r)
  <2>1. Len(text) \in Nat /\ Len(text) # 0
    BY DEF Text
  <2> QED BY <1>6, <1>7, <2>1 DEF PartFits
<1>9. NoRequest(p) /\ RequestFits(p) => RequestFits(r)
  BY <1>6 DEF RequestFits, NoRequest
<1>10. PageFits(r)
  BY <1>3, <1>6 DEF PageFits, Holds
<1>11. Follows(r, text)
  BY <1>2, <1>6, <1>7 DEF Follows, Coming
<1> QED BY <1>6, <1>8, <1>9, <1>10, <1>11 DEF Aligned, StartedAs

LEMMA WholePage ==
  ASSUME NEW text \in Text, NEW d, d = [i \in DOMAIN text |-> [item |-> text[i], entry |-> 0]]
  PROVE  d \in Seq(Element) /\ DOMAIN d = DOMAIN text /\ Holds(d, text) /\ Aligned(d, text)
<1>1. /\ DOMAIN text = 1 .. Len(text) /\ Len(text) \in Nat
      /\ \A i \in DOMAIN text : text[i] \in Item
  BY DEF Text
<1>2. \A i \in DOMAIN text : d[i] \in Element /\ d[i].item = text[i] /\ d[i].entry = 0
  BY <1>1 DEF Element
<1>3. d \in [1 .. Len(text) -> Element]
  BY <1>1, <1>2
<1> QED BY <1>1, <1>2, <1>3 DEF Holds, Aligned, Named

RenderAs(p, r, text, visible, current) ==
  /\ r \in PageType /\ PartFits(r) /\ r.flaws = p.flaws
  /\ NoRequest(p) /\ PageSound(p) => PageSound(r) /\ Aligns(p, r, text)
  /\ IF visible /\ current = text THEN Follows(r, text) ELSE r = p

LEMMA RenderPage ==
  ASSUME NEW p \in PageType, PartFits(p), NEW text \in Text \cup {None}, NEW how \in Hows,
         NEW visible \in BOOLEAN, NEW current \in Text,
         NEW r, r = P!Render(p, text, how, visible, current)
  PROVE  RenderAs(p, r, text, visible, current)
<1>1. CASE ~visible \/ current # text
  <2>1. r = p
    BY <1>1 DEF P!Render
  <2> QED BY <1>1, <2>1 DEF RenderAs, Aligns
<1>2. CASE visible /\ current = text /\ P!CanPatch(p, P!Safe(how))
  <2>1. text \in Text
    BY <1>2
  <2>2. PICK d : d = P!PatchBlocks(p, text)
    OBVIOUS
  <2>3. P!CanPatch(p, TRUE) /\ p.live /\ p.meta # None /\ p.meta = p.source
    BY <1>2 DEF P!CanPatch
  <2>4. /\ d \in Seq(Element) /\ DOMAIN d = DOMAIN text
        /\ Holds(p.dom, p.meta) => Holds(d, text)
        /\ p.meta = text /\ Aligned(p.dom, text) => Aligned(d, text)
    BY <2>1, <2>2, <2>3, PatchedBlocks
  <2>5. PICK q : q = [p EXCEPT !.dom = d, !.part = None, !.busy = FALSE]
    OBVIOUS
  <2>6. PICK deferred \in BOOLEAN : deferred = (how # "fallback")
    BY Zenon
  <2>7. r = P!CacheBlocks(P!Rendered(q, text, how), text, deferred)
    BY <1>2, <2>2, <2>5, <2>6 DEF P!Render
  <2>8. DoneAs(p, d, r, text)
    BY Zenon, <2>1, <2>4, <2>5, <2>7, RenderDone
  <2>9. PageFits(p) => Holds(d, text)
    BY <2>3, <2>4 DEF PageFits
  <2> QED BY <1>2, <2>3, <2>4, <2>8, <2>9 DEF DoneAs, RenderAs, PageSound, Aligns
<1>3. CASE visible /\ current = text /\ ~P!CanPatch(p, P!Safe(how)) /\ P!Batched(how, text)
  <2>1. text \in Text /\ text # <<>>
    BY <1>3 DEF P!Batched
  <2>2. r = P!RenderProgressively(p, text, how)
    BY <1>3 DEF P!Render
  <2>3. StartedAs(p, r, text)
    BY <2>1, <2>2, RenderStarted
  <2> QED BY <1>3, <2>3 DEF StartedAs, RenderAs, PageSound, Aligns
<1>4. CASE visible /\ current = text /\ ~P!CanPatch(p, P!Safe(how)) /\ ~P!Batched(how, text)
  <2>1. text \in Text
    BY <1>4
  <2>2. PICK d : d = [i \in DOMAIN text |-> [item |-> text[i], entry |-> 0]]
    OBVIOUS
  <2>3. d \in Seq(Element) /\ DOMAIN d = DOMAIN text /\ Holds(d, text) /\ Aligned(d, text)
    BY <2>1, <2>2, WholePage
  <2>4. PICK q : q = [p EXCEPT !.dom = d, !.part = None, !.busy = FALSE]
    OBVIOUS
  <2>5. PICK deferred \in BOOLEAN : deferred = (how # "fallback")
    BY Zenon
  <2>6. r = P!CacheBlocks(P!Rendered(q, text, how), text, deferred)
    BY <1>4, <2>2, <2>4, <2>5 DEF P!Render
  <2>7. DoneAs(p, d, r, text)
    BY Zenon, <2>1, <2>3, <2>4, <2>6, RenderDone
  <2> QED BY <1>4, <2>3, <2>7 DEF DoneAs, RenderAs, PageSound, Aligns
<1> QED BY <1>1, <1>2, <1>3, <1>4

(***************************************************************************)
(* A rendering is asked for.                                               *)
(***************************************************************************)
SameShown(p, r) ==
  /\ r.dom = p.dom /\ r.source = p.source /\ r.meta = p.meta /\ r.cut = p.cut
  /\ r.known = p.known /\ r.live = p.live /\ r.job = p.job /\ r.dead = p.dead
  /\ r.request = p.request /\ r.apply = p.apply /\ r.part = p.part

LEMMA SameFits ==
  ASSUME NEW p, NEW r, SameShown(p, r)
  PROVE  /\ PartFits(p) => PartFits(r)
         /\ PageSound(p) => PageSound(r)
         /\ \A text : Aligns(p, r, text)
BY DEF SameShown, PartFits, PageSound, PageFits, RequestFits, Aligns

TakenAs(p, r, text) ==
  /\ r \in PageType /\ SameShown(p, r) /\ r.busy = p.busy /\ r.due = p.due
  /\ r.flaws = {} =>
       p.flaws = {} /\ ~p.cut /\ (p.known = text \/ p.job # None \/ text = <<>>)

LEMMA TakenPage ==
  ASSUME NEW p \in PageType, NEW text, NEW r, r = P!TakenAsShown(p, text)
  PROVE  TakenAs(p, r, text)
<1>1. PICK flaws \in SUBSET {"cut short", "left inert", "adopted", "box only"} :
        flaws = p.flaws \cup (IF p.cut THEN {"cut short"} ELSE {})
                        \cup (IF p.known # text /\ p.job = None /\ text # <<>>
                              THEN {"left inert"} ELSE {})
  BY Zenon DEF PageType
<1>2. r = [p EXCEPT !.flaws = flaws]
  BY Zenon, <1>1 DEF P!TakenAsShown, PageType
<1>3. r \in PageType /\ SameShown(p, r) /\ r.busy = p.busy /\ r.due = p.due /\ r.flaws = flaws
  BY <1>2, ZenonT(60) DEF PageType, SameShown
<1> QED BY Zenon, <1>1, <1>3 DEF TakenAs

UpdatedAs(p, r, text, visible) ==
  /\ r \in PageType /\ PartFits(r)
  /\ r.flaws = {} => p.flaws = {}
  /\ PageSound(p) => PageSound(r) /\ Aligns(p, r, text)
  /\ visible => IF p.source = text THEN TakenAs(p, r, text) ELSE Follows(r, text)

LEMMA UpdatedPage ==
  ASSUME NEW p \in PageType, PartFits(p), NEW text \in Text, NEW visible \in BOOLEAN,
         NEW r, r = P!UpdatePreview(p, text, visible)
  PROVE  UpdatedAs(p, r, text, visible)
<1>1. CASE ~visible
  <2>1. r = p
    BY <1>1 DEF P!UpdatePreview
  <2> QED BY <1>1, <2>1 DEF UpdatedAs, Aligns
<1>2. CASE visible /\ text = p.source
  <2>1. TakenAs(p, r, text)
    BY <1>2, TakenPage DEF P!UpdatePreview
  <2> QED BY <1>2, <2>1, SameFits DEF TakenAs, UpdatedAs
<1>3. CASE visible /\ text # p.source
  <2>1. PICK q : q = P!CancelPending(p)
    OBVIOUS
  <2>2. CancelledAs(p, q)
    BY <2>1, CancelledPage
  <2>3. r = P!Render(q, text, "fallback", visible, text)
    BY <1>3, <2>1 DEF P!UpdatePreview
  <2>4. PartFits(q)
    BY <2>2 DEF CancelledAs, PartFits, Current
  <2>5. RenderAs(q, r, text, visible, text)
    BY <2>2, <2>3, <2>4, RenderPage DEF CancelledAs, Hows
  <2>6. NoRequest(q) /\ (PageSound(p) => PageSound(q))
    BY <2>2 DEF CancelledAs, NoRequest, PageSound, PageFits, RequestFits, Current
  <2>7. q.source = p.source /\ q.flaws = p.flaws
    BY <2>2 DEF CancelledAs
  <2> QED BY <1>3, <2>5, <2>6, <2>7 DEF RenderAs, UpdatedAs, Aligns
<1> QED BY <1>1, <1>2, <1>3

RequestedAs(p, r, text, visible) ==
  /\ r \in PageType /\ PartFits(r)
  /\ r.flaws = {} => p.flaws = {}
  /\ PageSound(p) => PageSound(r) /\ Aligns(p, r, text)
  /\ visible /\ r.flaws = {} /\ PageSound(p) => Follows(r, text)

LEMMA WorkerPage ==
  ASSUME NEW p \in PageType, PartFits(p), NEW text \in Text, p.source # text,
         NEW announce \in BOOLEAN, NEW r, r = P!WorkerRender(p, text, announce)
  PROVE  RequestedAs(p, r, text, TRUE)
<1>1. CASE p.dead
  <2>1. r = P!UpdatePreview(p, text, TRUE)
    BY <1>1 DEF P!WorkerRender
  <2>2. UpdatedAs(p, r, text, TRUE)
    BY <2>1, UpdatedPage
  <2> QED BY <2>2 DEF UpdatedAs, RequestedAs
<1>2. CASE ~p.dead
  <2>1. PICK b \in BOOLEAN : b = (p.busy \/ announce)
    BY Zenon
  <2>2. PICK q : q = [p EXCEPT !.busy = b]
    OBVIOUS
  <2>3. q = [p EXCEPT !.busy = @ \/ announce]
    BY Zenon, <2>1, <2>2 DEF PageType
  <2>4. q \in PageType /\ SameShown(p, q) /\ q.flaws = p.flaws /\ q.due = p.due
    BY Zenon, <2>2 DEF PageType, SameShown
  <2>5. PartFits(q) /\ (PageSound(p) => PageSound(q))
    BY <2>4, SameFits
  <2>6. CASE p.request # None /\ p.request.text = text
    <3>1. r = q
      BY <1>2, <2>3, <2>6 DEF P!WorkerRender
    <3>2. Follows(q, text)
      BY <2>4, <2>6 DEF SameShown, Follows, Coming
    <3> QED BY <2>4, <2>5, <3>1, <3>2 DEF SameShown, RequestedAs, Aligns
  <2>7. CASE ~(p.request # None /\ p.request.text = text)
    <3>1. PICK a : a = [text |-> text, at |-> IF announce THEN "frame" ELSE "worker"]
      OBVIOUS
    <3>2. a \in Asked /\ a # None /\ a.text = text
      <4>1. a \in Asked /\ a.text = text
        BY <3>1 DEF Asked
      <4> QED BY <4>1, PreviewNone
    <3>3. PICK z : z = P!Outdated(q)
      OBVIOUS
    <3>4. OutdatedAs(q, z)
      BY <2>4, <3>3, OutdatedPage
    <3>5. r = [z EXCEPT !.request = a]
      BY <1>2, <2>3, <2>7, <3>1, <3>3 DEF P!WorkerRender
    <3>6. /\ r \in PageType /\ r.request = a /\ r.flaws = p.flaws
          /\ r.dom = q.dom /\ r.source = q.source /\ r.cut = q.cut /\ r.known = q.known
          /\ r.live = q.live /\ r.job = q.job /\ r.dead = q.dead
          /\ ~Current(r.apply) /\ ~Current(r.part)
      <4>1. z \in PageType
        BY <3>4 DEF OutdatedAs
      <4>2. /\ r \in PageType /\ r.request = a /\ r.flaws = z.flaws
            /\ r.dom = z.dom /\ r.source = z.source /\ r.cut = z.cut /\ r.known = z.known
            /\ r.live = z.live /\ r.job = z.job /\ r.dead = z.dead
            /\ r.apply = z.apply /\ r.part = z.part
        BY <3>2, <3>5, <4>1, ZenonT(60) DEF PageType
      <4> QED BY <2>4, <3>4, <4>2 DEF OutdatedAs
    <3>7. PartFits(r) /\ Follows(r, text)
      BY <3>2, <3>6 DEF PartFits, Follows, Coming
    <3>8. PageSound(q) => PageSound(r)
      BY <2>4, <3>2, <3>6 DEF PageSound, PageFits, RequestFits, SameShown
    <3>9. r.source # text
      BY <2>4, <3>6 DEF SameShown
    <3> QED BY <2>5, <3>6, <3>7, <3>8, <3>9 DEF RequestedAs, Aligns
  <2> QED BY <2>6, <2>7
<1> QED BY <1>1, <1>2

LEMMA RequestedPage ==
  ASSUME NEW p \in PageType, PartFits(p), NEW text \in Text, NEW visible \in BOOLEAN,
         NEW announce \in BOOLEAN, NEW r, r = P!RequestPreviewRender(p, text, visible, announce)
  PROVE  RequestedAs(p, r, text, visible)
<1>1. PICK due \in SUBSET {"delay", "stray", "frame"} :
        due = IF "delay" \in p.due THEN (p.due \ {"delay"}) \cup {"stray"} ELSE p.due
  BY Zenon DEF PageType
<1>2. PICK q : q = [p EXCEPT !.due = due]
  OBVIOUS
<1>3. q \in PageType /\ SameShown(p, q) /\ q.flaws = p.flaws /\ q.busy = p.busy
  BY <1>1, <1>2, ZenonT(60) DEF PageType, SameShown
<1>4. q = IF "delay" \in p.due
          THEN [p EXCEPT !.due = (@ \ {"delay"}) \cup {"stray"}] ELSE p
  BY Zenon, <1>1, <1>2 DEF PageType
<1>5. PartFits(q) /\ (PageSound(p) => PageSound(q))
  BY <1>3, SameFits
<1>6. r = IF ~visible THEN q
          ELSE IF text = q.source THEN [P!TakenAsShown(q, text) EXCEPT !.busy = FALSE]
          ELSE P!WorkerRender(q, text, announce)
  BY <1>4 DEF P!RequestPreviewRender
<1>7. CASE ~visible
  BY <1>3, <1>5, <1>6, <1>7 DEF RequestedAs, SameShown, Aligns
<1>8. CASE visible /\ text = q.source
  <2>1. PICK z : z = P!TakenAsShown(q, text)
    OBVIOUS
  <2>2. TakenAs(q, z, text)
    BY <1>3, <2>1, TakenPage
  <2>3. r = [z EXCEPT !.busy = FALSE]
    BY <1>6, <1>8, <2>1
  <2>4. r \in PageType /\ SameShown(z, r) /\ r.flaws = z.flaws /\ r.busy = FALSE
    <3>1. z \in PageType
      BY <2>2 DEF TakenAs
    <3> QED BY <2>3, <3>1, ZenonT(60) DEF PageType, SameShown
  <2>5. SameShown(q, r)
    BY <2>2, <2>4 DEF TakenAs, SameShown
  <2>6. PartFits(r) /\ (PageSound(q) => PageSound(r))
    BY <1>5, <2>5, SameFits
  <2>7. r.flaws = {} => q.flaws = {} /\ ~q.cut /\ (q.known = text \/ q.job # None \/ text = <<>>)
    BY <2>2, <2>4 DEF TakenAs
  <2>8. ASSUME r.flaws = {}, PageSound(r) PROVE Follows(r, text)
    <3>1. r.source = text /\ ~r.cut /\ (r.known = text \/ r.job # None \/ text = <<>>)
      BY <1>8, <2>5, <2>7, <2>8 DEF SameShown
    <3>2. text # None
      BY PreviewNone
    <3>3. r.job # None => r.job.text = text
      BY <2>8, <3>1, <3>2 DEF PageSound, PageFits
    <3> QED BY <2>4, <3>1, <3>3 DEF Follows
  <2>9. r.dom = p.dom /\ r.source = p.source
    BY <1>3, <2>5 DEF SameShown
  <2> QED BY <1>3, <1>5, <2>4, <2>6, <2>7, <2>8, <2>9 DEF RequestedAs, Aligns
<1>9. CASE visible /\ text # q.source
  <2>1. RequestedAs(q, r, text, TRUE)
    BY <1>3, <1>5, <1>6, <1>9, WorkerPage
  <2> QED BY <1>3, <1>5, <1>9, <2>1 DEF RequestedAs, Aligns, SameShown
<1> QED BY <1>7, <1>8, <1>9

(***************************************************************************)
(* The steps of the worker and of the timers.                              *)
(***************************************************************************)
LEMMA PreviewFields ==
  ASSUME PreviewTypes
  PROVE  /\ preview \in PageType /\ PartFits(preview)
         /\ editor.text \in Text /\ P!Shows(editor.panel) \in BOOLEAN
         /\ edit.history \in Seq(Ticking \cup Moving)
BY DEF PreviewTypes, EditorType, EditType, P!Shows

SteppedAs(p, r, text, visible) ==
  /\ r \in PageType /\ PartFits(r)
  /\ r.flaws = {} => p.flaws = {}
  /\ PageSound(p) /\ (visible => Follows(p, text)) /\ r.flaws = {} =>
       PageSound(r) /\ (visible => Follows(r, text)) /\ Aligns(p, r, text)

LEMMA PageStep ==
  ASSUME PreviewInv, UNCHANGED <<editor, edit>>,
         SteppedAs(preview, preview', editor.text, P!Shows(editor.panel))
  PROVE  PreviewInv'
<1>1. PreviewTypes'
  BY DEF PreviewInv, PreviewTypes, SteppedAs
<1>2. ASSUME preview'.flaws = {} PROVE PreviewSound(preview', editor, edit)
  <2>1. /\ PageSound(preview') /\ (P!Shows(editor.panel) => Follows(preview', editor.text))
        /\ Aligns(preview, preview', editor.text) /\ PreviewSound(preview, editor, edit)
    BY <1>2 DEF PreviewInv, PreviewSound, SteppedAs
  <2>2. DragFits(edit.drag, preview', editor.text)
    BY <2>1 DEF PreviewSound, DragFits, Aligns
  <2> QED BY <2>1, <2>2 DEF PreviewSound
<1> QED BY <1>1, <1>2 DEF PreviewInv

LEMMA DelayStep ==
  ASSUME PreviewInv, NEW timer \in {"delay", "stray", "frame"}, P!Delay(timer)
  PROVE  PreviewInv'
<1>1. /\ preview \in PageType /\ PartFits(preview) /\ editor.text \in Text
      /\ P!Shows(editor.panel) \in BOOLEAN
  BY PreviewFields DEF PreviewInv
<1>2. PICK p : p = preview
  OBVIOUS
<1>3. PICK due \in SUBSET {"delay", "stray", "frame"} : due = p.due \ {timer}
  BY Zenon, <1>1, <1>2 DEF PageType
<1>4. PICK q : q = [p EXCEPT !.due = due]
  OBVIOUS
<1>5. q \in PageType /\ SameShown(p, q) /\ q.flaws = p.flaws
  BY <1>1, <1>2, <1>4, ZenonT(60) DEF PageType, SameShown
<1>6. PartFits(q) /\ (PageSound(p) => PageSound(q))
  BY <1>1, <1>2, <1>5, SameFits
<1>7. PICK v \in BOOLEAN, b \in BOOLEAN, text \in Text :
        v = P!Shows(editor.panel) /\ b = (timer = "frame") /\ text = editor.text
  BY <1>1 DEF P!Shows
<1>8. preview' = P!RequestPreviewRender(q, text, v, b)
  BY <1>2, <1>3, <1>4, <1>7 DEF P!Delay, P!Visible
<1>9. RequestedAs(q, preview', text, v)
  BY <1>5, <1>6, <1>8, RequestedPage
<1>10. SteppedAs(p, preview', text, v)
  BY <1>5, <1>6, <1>9 DEF RequestedAs, SteppedAs, Aligns, SameShown
<1> QED BY <1>2, <1>7, <1>10, PageStep DEF P!Delay

LEMMA PostStep ==
  ASSUME PreviewInv, P!Post
  PROVE  PreviewInv'
<1>1. PICK p \in PageType : p = preview /\ PartFits(p)
  BY PreviewFields DEF PreviewInv
<1>2. PICK text, v : text = editor.text /\ v = P!Shows(editor.panel)
  OBVIOUS
<1>3. PICK r : r = preview'
  OBVIOUS
<1>4. p.request # None /\ p.request \in Asked
  BY Zenon, <1>1 DEF P!Post, PageType
<1>5. CASE p.request.text # text \/ ~v
  <2>1. r = [p EXCEPT !.request = None, !.busy = FALSE]
    BY <1>1, <1>2, <1>3, <1>5 DEF P!Post, P!Visible
  <2>2. /\ r \in PageType /\ r.request = None /\ r.busy = FALSE /\ r.flaws = p.flaws
        /\ r.dom = p.dom /\ r.source = p.source /\ r.cut = p.cut /\ r.known = p.known
        /\ r.live = p.live /\ r.job = p.job /\ r.dead = p.dead
        /\ r.apply = p.apply /\ r.part = p.part /\ r.due = p.due
    BY Zenon, <2>1 DEF PageType
  <2>3. PartFits(r)
    BY <1>1, <2>2 DEF PartFits
  <2>4. PageSound(p) => PageSound(r)
    BY <2>2 DEF PageSound, PageFits, RequestFits
  <2>5. v /\ Follows(p, text) => Follows(r, text)
    BY <1>5, <2>2 DEF Follows, Coming, Answered
  <2>6. SteppedAs(p, r, text, v)
    BY <2>2, <2>3, <2>4, <2>5 DEF SteppedAs, Aligns
  <2> QED BY <1>1, <1>2, <1>3, <2>6, PageStep DEF P!Post
<1>6. CASE ~(p.request.text # text \/ ~v)
  <2>1. PICK a : a = [p.request EXCEPT !.at = "worker"]
    OBVIOUS
  <2>2. a \in Asked /\ a.text = p.request.text
    BY <1>4, <2>1 DEF Asked
  <2>3. a # None
    BY <2>2, PreviewNone
  <2>4. r = [p EXCEPT !.request = a]
    <3>1. r = [p EXCEPT !.request.at = "worker"]
      BY <1>1, <1>2, <1>3, <1>6 DEF P!Post, P!Visible
    <3> QED BY Zenon, <2>1, <3>1 DEF PageType
  <2>5. /\ r \in PageType /\ r.request = a /\ r.busy = p.busy /\ r.flaws = p.flaws
        /\ r.dom = p.dom /\ r.source = p.source /\ r.cut = p.cut /\ r.known = p.known
        /\ r.live = p.live /\ r.job = p.job /\ r.dead = p.dead
        /\ r.apply = p.apply /\ r.part = p.part /\ r.due = p.due
    BY Zenon, <2>2, <2>4 DEF PageType
  <2>6. PartFits(r)
    BY <1>1, <2>5 DEF PartFits
  <2>7. PageSound(p) => PageSound(r)
    BY <1>4, <2>2, <2>5 DEF PageSound, PageFits, RequestFits
  <2>8. v /\ Follows(p, text) => Follows(r, text)
    BY <2>2, <2>3, <2>5 DEF Follows, Coming, Answered
  <2>9. SteppedAs(p, r, text, v)
    BY <2>5, <2>6, <2>7, <2>8 DEF SteppedAs, Aligns
  <2> QED BY <1>1, <1>2, <1>3, <2>9, PageStep DEF P!Post
<1> QED BY <1>5, <1>6

LEMMA AnswerStep ==
  ASSUME PreviewInv, NEW how \in {"blocks", "long", "chunks", "html"}, P!Answer(how)
  PROVE  PreviewInv'
<1>1. PICK p \in PageType : p = preview /\ PartFits(p)
  BY PreviewFields DEF PreviewInv
<1>2. PICK text \in Text, v \in BOOLEAN : text = editor.text /\ v = P!Shows(editor.panel)
  BY PreviewFields DEF PreviewInv
<1>3. PICK r : r = preview'
  OBVIOUS
<1>4. p.request # None /\ p.request \in Asked /\ ~p.dead
  BY Zenon, <1>1 DEF P!Answer, PageType
<1>5. PICK asked \in Text : asked = p.request.text
  BY <1>4 DEF Asked
<1>6. PICK q : q = [p EXCEPT !.request = None]
  OBVIOUS
<1>7. q \in PageType
  BY Zenon, <1>6 DEF PageType
<1>8. r = IF asked # text \/ ~v THEN [q EXCEPT !.busy = FALSE]
          ELSE IF p.source = text /\ p.known = text
          THEN [q EXCEPT !.meta = IF P!Safe(how) THEN asked ELSE None, !.busy = FALSE]
          ELSE [q EXCEPT !.apply = [text |-> asked, how |-> how, fresh |-> TRUE]]
  BY <1>1, <1>2, <1>3, <1>5, <1>6 DEF P!Answer, P!Visible, P!SourceIsCurrent
<1>9. CASE asked # text \/ ~v
  <2>1. r = [p EXCEPT !.request = None, !.busy = FALSE]
    BY Zenon, <1>6, <1>8, <1>9 DEF PageType
  <2>2. /\ r \in PageType /\ r.request = None /\ r.busy = FALSE /\ r.flaws = p.flaws
        /\ r.dom = p.dom /\ r.source = p.source /\ r.cut = p.cut /\ r.known = p.known
        /\ r.live = p.live /\ r.job = p.job /\ r.dead = p.dead
        /\ r.apply = p.apply /\ r.part = p.part /\ r.due = p.due
    BY Zenon, <2>1 DEF PageType
  <2>3. PartFits(r)
    BY <1>1, <2>2 DEF PartFits
  <2>4. PageSound(p) => PageSound(r)
    BY <2>2 DEF PageSound, PageFits, RequestFits
  <2>5. v /\ Follows(p, text) => Follows(r, text)
    BY <1>5, <1>9, <2>2 DEF Follows, Coming, Answered
  <2>6. SteppedAs(p, r, text, v)
    BY <2>2, <2>3, <2>4, <2>5 DEF SteppedAs, Aligns
  <2> QED BY <1>1, <1>2, <1>3, <2>6, PageStep DEF P!Answer
<1>10. CASE ~(asked # text \/ ~v) /\ p.source = text /\ p.known = text
  <2>1. PICK meta \in Text \cup {None} : meta = IF P!Safe(how) THEN asked ELSE None
    OBVIOUS
  <2>2. r = [p EXCEPT !.request = None, !.meta = meta, !.busy = FALSE]
    <3>1. r = [q EXCEPT !.meta = meta, !.busy = FALSE]
      BY <1>8, <1>10, <2>1
    <3> QED BY Zenon, <1>6, <3>1 DEF PageType
  <2>3. /\ r \in PageType /\ r.flaws = p.flaws /\ r.dom = p.dom /\ r.part = p.part
    <3>1. meta \in Text \cup {None}
      BY <2>1
    <3> QED BY Zenon, <2>2, <3>1 DEF PageType
  <2>5. ~PageSound(p)
    BY <1>4, <1>5, <1>10 DEF PageSound, RequestFits
  <2>6. SteppedAs(p, r, text, v)
    BY <1>1, <2>3, <2>5 DEF SteppedAs, PartFits
  <2> QED BY <1>1, <1>2, <1>3, <2>6, PageStep DEF P!Answer
<1>11. CASE ~(asked # text \/ ~v) /\ ~(p.source = text /\ p.known = text)
  <2>1. PICK a : a = [text |-> asked, how |-> how, fresh |-> TRUE]
    OBVIOUS
  <2>2. /\ a \in Got /\ a.text = asked /\ a.how = how /\ a.fresh
    BY <2>1 DEF Got, Hows
  <2>3. a # None
    BY <2>2, PreviewNone
  <2>4. r = [q EXCEPT !.apply = a]
    BY <1>8, <1>11, <2>1
  <2>5. r = [p EXCEPT !.request = None, !.apply = a]
    BY Zenon, <1>6, <2>4 DEF PageType
  <2>6. /\ r \in PageType /\ r.request = None /\ r.busy = p.busy /\ r.flaws = p.flaws
        /\ r.dom = p.dom /\ r.source = p.source /\ r.cut = p.cut /\ r.known = p.known
        /\ r.live = p.live /\ r.job = p.job /\ r.dead = p.dead
        /\ r.apply = a /\ r.part = p.part /\ r.due = p.due
    BY Zenon, <2>2, <2>5 DEF PageType
  <2>7. PartFits(r)
    BY <1>1, <2>6 DEF PartFits
  <2>8. PageSound(p) => PageSound(r)
    BY <1>4, <2>2, <2>6, PreviewNone DEF PageSound, PageFits, RequestFits
  <2>9. Answered(r, text)
    BY <1>11, <2>2, <2>3, <2>6 DEF Answered, Current
  <2>10. PageSound(p) => r.source # text
    BY <1>4, <1>5, <1>11, <2>6 DEF PageSound, RequestFits
  <2>11. PageSound(p) => Follows(r, text)
    BY <2>9, <2>10 DEF Follows, Coming
  <2>12. SteppedAs(p, r, text, v)
    BY <2>6, <2>7, <2>8, <2>11 DEF SteppedAs, Aligns
  <2> QED BY <1>1, <1>2, <1>3, <2>12, PageStep DEF P!Answer
<1> QED BY <1>9, <1>10, <1>11

LEMMA WorkerFailsStep ==
  ASSUME PreviewInv, P!WorkerFails
  PROVE  PreviewInv'
<1>1. PICK p \in PageType : p = preview /\ PartFits(p)
  BY PreviewFields DEF PreviewInv
<1>2. PICK text \in Text, v \in BOOLEAN : text = editor.text /\ v = P!Shows(editor.panel)
  BY PreviewFields DEF PreviewInv
<1>3. PICK r : r = preview'
  OBVIOUS
<1>4. PICK answers \in BOOLEAN :
        /\ answers => p.request # None /\ p.request.text = text
        /\ r = [p EXCEPT !.dead = TRUE, !.request = IF answers THEN None ELSE @,
                         !.apply = [text |-> None, how |-> "fallback", fresh |-> TRUE]]
  BY Zenon, <1>1, <1>2, <1>3 DEF P!WorkerFails
<1>5. ~p.dead
  BY <1>1 DEF P!WorkerFails
<1>6. PICK a : a = [text |-> None, how |-> "fallback", fresh |-> TRUE]
  OBVIOUS
<1>7. a \in Got /\ a.how = "fallback" /\ a.fresh
  BY <1>6 DEF Got, Hows
<1>8. a # None
  BY <1>7, PreviewNone
<1>9. PICK q \in {None} \cup Asked : q = IF answers THEN None ELSE p.request
  BY Zenon DEF PageType
<1>10. r = [p EXCEPT !.dead = TRUE, !.request = q, !.apply = a]
  BY Zenon, <1>4, <1>6, <1>9 DEF PageType
<1>11. q \in {None} \cup Asked
  BY <1>9
<1>12. /\ r \in PageType /\ r.request = q /\ r.busy = p.busy /\ r.flaws = p.flaws
       /\ r.dom = p.dom /\ r.source = p.source /\ r.cut = p.cut /\ r.known = p.known
       /\ r.live = p.live /\ r.job = p.job /\ r.dead = TRUE
       /\ r.apply = a /\ r.part = p.part /\ r.due = p.due
  BY Zenon, <1>7, <1>10, <1>11 DEF PageType
<1>13. PartFits(r)
  BY <1>1, <1>12 DEF PartFits
<1>14. PageSound(p) => PageSound(r)
  BY <1>7, <1>12 DEF PageSound, PageFits, RequestFits
<1>15. Answered(r, text)
  BY <1>7, <1>8, <1>12 DEF Answered, Current
<1>16. ASSUME PageSound(p), Follows(p, text) PROVE Follows(r, text)
  <2>1. Coming(r, text)
    BY <1>15 DEF Coming
  <2>2. p.busy => \/ r.request # None \/ r.part # None \/ r.due # {} \/ r.source # text
    <3>1. CASE answers
      BY <1>4, <1>5, <1>12, <1>16, <3>1 DEF PageSound, RequestFits
    <3>2. CASE ~answers
      BY <1>9, <1>12, <1>16, <3>2 DEF Follows
    <3> QED BY <3>1, <3>2
  <2> QED BY <1>12, <1>15, <2>1, <2>2 DEF Follows
<1>17. SteppedAs(p, r, text, v)
  BY <1>12, <1>13, <1>14, <1>16 DEF SteppedAs, Aligns
<1> QED BY <1>1, <1>2, <1>3, <1>17, PageStep DEF P!WorkerFails

LEMMA ApplyPageStep ==
  ASSUME PreviewInv, P!Apply
  PROVE  PreviewInv'
<1>1. PICK p \in PageType : p = preview /\ PartFits(p)
  BY PreviewFields DEF PreviewInv
<1>2. PICK text \in Text, v \in BOOLEAN : text = editor.text /\ v = P!Shows(editor.panel)
  BY PreviewFields DEF PreviewInv
<1>3. PICK r : r = preview'
  OBVIOUS
<1>4. PICK a \in Got : a = p.apply /\ p.apply # None
  BY Zenon, <1>1 DEF P!Apply, PageType
<1>5. PICK q : q = [p EXCEPT !.apply = None]
  OBVIOUS
<1>6. r = IF ~a.fresh THEN q
          ELSE IF a.how = "fallback" THEN P!UpdatePreview(q, text, v)
          ELSE P!Render(q, a.text, a.how, v, text)
  BY <1>1, <1>2, <1>3, <1>4, <1>5 DEF P!Apply, P!Visible
<1>7. /\ q \in PageType /\ q.request = p.request /\ q.busy = p.busy /\ q.flaws = p.flaws
      /\ q.dom = p.dom /\ q.source = p.source /\ q.cut = p.cut /\ q.known = p.known
      /\ q.live = p.live /\ q.job = p.job /\ q.dead = p.dead
      /\ q.apply = None /\ q.part = p.part /\ q.due = p.due
  BY Zenon, <1>5 DEF PageType
<1>8. PartFits(q)
  BY <1>1, <1>7 DEF PartFits
<1>9. PageSound(p) => PageSound(q)
  BY <1>7 DEF PageSound, PageFits, RequestFits, Current
<1>10. Current(p.apply) <=> a.fresh
  BY <1>4 DEF Current
<1>11. ~Answered(q, text)
  BY <1>7 DEF Answered, Current
<1>12. ASSUME ~Answered(p, text), Follows(p, text) PROVE Follows(q, text)
  BY <1>7, <1>12 DEF Follows, Coming
<1>13. CASE ~a.fresh
  <2>1. ~Answered(p, text)
    BY <1>10, <1>13 DEF Answered
  <2>2. SteppedAs(p, q, text, v)
    BY <1>7, <1>8, <1>9, <1>12, <2>1 DEF SteppedAs, Aligns
  <2> QED BY <1>1, <1>2, <1>3, <1>6, <1>13, <2>2, PageStep DEF P!Apply
<1>14. CASE a.fresh /\ a.how = "fallback"
  <2>1. UpdatedAs(q, r, text, v)
    BY <1>6, <1>7, <1>8, <1>14, UpdatedPage
  <2>2. ASSUME v, PageSound(p), Follows(p, text), r.flaws = {} PROVE Follows(r, text)
    <3>1. CASE q.source # text
      BY <2>1, <2>2, <3>1 DEF UpdatedAs
    <3>2. CASE q.source = text
      <4>1. TakenAs(q, r, text)
        BY <2>1, <2>2, <3>2 DEF UpdatedAs
      <4>2. /\ r.source = text /\ ~r.cut /\ (r.known = text \/ r.job # None \/ text = <<>>)
            /\ r.busy = p.busy /\ r.request = p.request /\ r.part = p.part /\ r.due = p.due
        BY <1>7, <2>2, <3>2, <4>1 DEF TakenAs, SameShown
      <4>3. r.job # None => r.job.text = text
        <5>1. PageSound(r)
          BY <1>9, <2>1, <2>2 DEF UpdatedAs
        <5> QED BY <4>2, <5>1, PreviewNone DEF PageSound, PageFits
      <4>4. p.busy => p.request # None \/ p.part # None \/ p.due # {}
        BY <1>7, <2>2, <3>2 DEF Follows
      <4> QED BY <4>2, <4>3, <4>4 DEF Follows
    <3> QED BY <3>1, <3>2
  <2>3. SteppedAs(p, r, text, v)
    BY <1>7, <1>9, <2>1, <2>2 DEF UpdatedAs, SteppedAs, Aligns
  <2> QED BY <1>1, <1>2, <1>3, <2>3, PageStep DEF P!Apply
<1>15. CASE a.fresh /\ a.how # "fallback"
  <2>1. PICK t \in Text \cup {None}, how \in Hows : t = a.text /\ how = a.how
    BY DEF Got
  <2>2. RenderAs(q, r, t, v, text)
    BY <1>6, <1>7, <1>8, <1>15, <2>1, RenderPage
  <2>3. PageSound(p) => NoRequest(q)
    BY <1>7, <1>10, <1>15 DEF PageSound, RequestFits, NoRequest
  <2>4. CASE v /\ text = t
    <3>1. Follows(r, text) /\ r \in PageType /\ PartFits(r) /\ r.flaws = p.flaws
      BY <1>7, <2>2, <2>4 DEF RenderAs
    <3>2. PageSound(p) => PageSound(r) /\ Aligns(q, r, text)
      BY <1>9, <2>2, <2>3, <2>4 DEF RenderAs
    <3>3. SteppedAs(p, r, text, v)
      BY <1>7, <3>1, <3>2 DEF SteppedAs, Aligns
    <3> QED BY <1>1, <1>2, <1>3, <3>3, PageStep DEF P!Apply
  <2>5. CASE ~(v /\ text = t)
    <3>1. r = q
      BY <2>2, <2>5 DEF RenderAs
    <3>2. v => ~Answered(p, text)
      BY <1>4, <1>15, <2>1, <2>5 DEF Answered
    <3>3. SteppedAs(p, r, text, v)
      BY <1>7, <1>8, <1>9, <1>12, <3>1, <3>2 DEF SteppedAs, Aligns
    <3> QED BY <1>1, <1>2, <1>3, <3>3, PageStep DEF P!Apply
  <2> QED BY <2>4, <2>5
<1> QED BY <1>13, <1>14, <1>15

LEMMA RenderBatchStep ==
  ASSUME PreviewInv, P!RenderBatch
  PROVE  PreviewInv'
<1>1. PICK p \in PageType : p = preview /\ PartFits(p)
  BY PreviewFields DEF PreviewInv
<1>2. PICK text \in Text, v \in BOOLEAN : text = editor.text /\ v = P!Shows(editor.panel)
  BY PreviewFields DEF PreviewInv
<1>3. PICK r : r = preview'
  OBVIOUS
<1>4. PICK part \in [text : Text, how : Hows, fresh : BOOLEAN] :
        part = p.part /\ p.part # None
  BY Zenon, <1>1 DEF P!RenderBatch, PageType
<1>5. PICK t \in Text, how \in Hows : t = part.text /\ how = part.how
  OBVIOUS
<1>6. PICK d : d = Append(p.dom, [item |-> t[Len(p.dom) + 1], entry |-> 0])
  OBVIOUS
<1>7. PICK q : q = [p EXCEPT !.dom = d]
  OBVIOUS
<1>8. r = IF ~part.fresh \/ t # text \/ ~v THEN [p EXCEPT !.part = None, !.busy = FALSE]
          ELSE IF Len(p.dom) + 1 < Len(t) THEN q
          ELSE P!CacheBlocks(P!Rendered([q EXCEPT !.part = None, !.busy = FALSE], t, how), t, TRUE)
  <2>1. q = [p EXCEPT !.dom = Append(@, [item |-> t[Len(p.dom) + 1], entry |-> 0])]
    BY Zenon, <1>6, <1>7 DEF PageType
  <2> QED BY <1>1, <1>2, <1>3, <1>4, <1>5, <2>1 DEF P!RenderBatch, P!Visible
<1>9. CASE ~part.fresh \/ t # text \/ ~v
  <2>1. r = [p EXCEPT !.part = None, !.busy = FALSE]
    BY <1>8, <1>9
  <2>2. /\ r \in PageType /\ r.request = p.request /\ r.busy = FALSE /\ r.flaws = p.flaws
        /\ r.dom = p.dom /\ r.source = p.source /\ r.cut = p.cut /\ r.known = p.known
        /\ r.live = p.live /\ r.job = p.job /\ r.dead = p.dead
        /\ r.apply = p.apply /\ r.part = None /\ r.due = p.due
    BY Zenon, <2>1 DEF PageType
  <2>3. ~Current(r.part)
    BY <2>2 DEF Current
  <2>4. PartFits(r)
    BY <2>3 DEF PartFits
  <2>5. PageSound(p) => PageSound(r)
    BY <2>2, <2>3 DEF PageSound, PageFits, RequestFits
  <2>6. v /\ Follows(p, text) => Follows(r, text)
    BY <1>4, <1>5, <1>9, <2>2 DEF Follows, Coming, Answered, Current
  <2>7. SteppedAs(p, r, text, v)
    BY <2>2, <2>4, <2>5, <2>6 DEF SteppedAs, Aligns
  <2> QED BY <1>1, <1>2, <1>3, <2>7, PageStep DEF P!RenderBatch
<1>10. ASSUME part.fresh, t = text, v
       PROVE  /\ Current(p.part) /\ p.part.text = text
              /\ Len(p.dom) + 1 \in DOMAIN text /\ d \in Seq(Element)
              /\ DOMAIN d = 1 .. Len(p.dom) + 1 /\ Len(d) = Len(p.dom) + 1 /\ Len(p.dom) \in Nat
              /\ Holds(p.dom, text) => Holds(d, text)
              /\ Aligned(p.dom, text) => Aligned(d, text)
  <2>1. Current(p.part) /\ p.part.text = text
    BY <1>4, <1>5, <1>10 DEF Current
  <2>0. p.dom \in Seq(Element) /\ text \in Seq(Item)
    BY Zenon DEF PageType, Text
  <2>2. PICK n \in Nat : n = Len(p.dom) + 1
    BY <2>0
  <2>3. Len(p.dom) \in Nat /\ Len(text) \in Nat /\ Len(p.dom) < Len(text)
    <3>1. Len(p.dom) \in Nat /\ Len(text) \in Nat
      BY <2>0
    <3>2. Len(p.dom) < Len(text)
      BY <1>1, <2>1 DEF PartFits
    <3> QED BY <3>1, <3>2
  <2>4. n \in DOMAIN text /\ text[n] \in Item
    BY <2>2, <2>3 DEF Text
  <2>5. PICK x : x = [item |-> text[n], entry |-> 0]
    OBVIOUS
  <2>6. x \in Element /\ x.item = text[n] /\ x.entry = 0
    BY <2>4, <2>5 DEF Element
  <2>7. d = Append(p.dom, x) /\ p.dom \in Seq(Element)
    BY Zenon, <1>6, <1>10, <2>2, <2>5 DEF PageType
  <2>8. /\ d \in Seq(Element) /\ DOMAIN d = 1 .. n /\ d[n] = x /\ Len(d) = n
        /\ \A i \in DOMAIN d : i = n \/ (i \in DOMAIN p.dom /\ d[i] = p.dom[i])
    BY <2>2, <2>3, <2>6, <2>7
  <2>9. Holds(p.dom, text) => Holds(d, text)
    BY <2>4, <2>6, <2>8 DEF Holds
  <2>10. Aligned(p.dom, text) => Aligned(d, text)
    BY <2>4, <2>6, <2>8 DEF Aligned, Named
  <2> QED BY <2>1, <2>2, <2>3, <2>4, <2>8, <2>9, <2>10
<1>11. CASE part.fresh /\ t = text /\ v /\ Len(p.dom) + 1 < Len(t)
  <2>1. r = [p EXCEPT !.dom = d]
    BY <1>7, <1>8, <1>11
  <2>2. /\ r \in PageType /\ r.request = p.request /\ r.busy = p.busy /\ r.flaws = p.flaws
        /\ r.dom = d /\ r.source = p.source /\ r.cut = p.cut /\ r.known = p.known
        /\ r.live = p.live /\ r.job = p.job /\ r.dead = p.dead
        /\ r.apply = p.apply /\ r.part = p.part /\ r.due = p.due
    BY Zenon, <1>10, <1>11, <2>1 DEF PageType
  <2>3. PartFits(r)
    BY <1>10, <1>11, <2>2 DEF PartFits
  <2>4. ASSUME PageSound(p) PROVE PageSound(r)
    <3>1. (p.source = None \/ p.cut) /\ Holds(p.dom, text)
      BY <1>10, <1>11, <2>4 DEF PageSound, PageFits
    <3>2. p.cut => p.known = None /\ p.job = None
      BY <2>4 DEF PageSound, PageFits
    <3>3. PageFits(r)
      BY <1>10, <1>11, <2>2, <2>4, <3>1, <3>2 DEF PageSound, PageFits
    <3> QED BY <2>2, <2>4, <3>3 DEF PageSound, RequestFits
  <2>5. Follows(r, text)
    BY <1>4, <1>10, <1>11, <2>2 DEF Follows, Coming
  <2>6. SteppedAs(p, r, text, v)
    BY <1>10, <1>11, <2>2, <2>3, <2>4, <2>5 DEF SteppedAs, Aligns
  <2> QED BY <1>1, <1>2, <1>3, <2>6, PageStep DEF P!RenderBatch
<1>12. CASE part.fresh /\ t = text /\ v /\ ~(Len(p.dom) + 1 < Len(t))
  <2>1. PICK z : z = [p EXCEPT !.dom = d, !.part = None, !.busy = FALSE]
    OBVIOUS
  <2>2. z = [q EXCEPT !.part = None, !.busy = FALSE]
    BY Zenon, <1>7, <2>1 DEF PageType
  <2>3. r = P!CacheBlocks(P!Rendered(z, text, how), text, TRUE)
    BY <1>8, <1>12, <2>2
  <2>4. DOMAIN d = DOMAIN text /\ d \in Seq(Element)
    BY <1>10, <1>12 DEF Text
  <2>5. DoneAs(p, d, r, text)
    BY Zenon, <2>1, <2>3, <2>4, RenderDone
  <2>6. ASSUME PageSound(p) PROVE PageSound(r) /\ Aligns(p, r, text)
    <3>1. Holds(p.dom, text) /\ NoRequest(p)
      BY <1>10, <1>12, <2>6 DEF PageSound, PageFits, RequestFits, NoRequest
    <3> QED BY <1>10, <1>12, <2>5, <2>6, <3>1 DEF DoneAs, PageSound, Aligns
  <2>7. SteppedAs(p, r, text, v)
    BY <2>5, <2>6 DEF DoneAs, SteppedAs
  <2> QED BY <1>1, <1>2, <1>3, <2>7, PageStep DEF P!RenderBatch
<1> QED BY <1>9, <1>11, <1>12

(***************************************************************************)
(* The ranges of the page are set, one entry after the other.              *)
(***************************************************************************)
EntrySetAs(p, r, n) ==
  /\ r \in PageType /\ DOMAIN r.dom = DOMAIN p.dom /\ Len(r.dom) = Len(p.dom)
  /\ \A i \in DOMAIN p.dom : /\ r.dom[i].item = p.dom[i].item
                             /\ r.dom[i].entry = IF i = n THEN n ELSE p.dom[i].entry
  /\ r.source = p.source /\ r.meta = p.meta /\ r.cut = p.cut
  /\ r.busy = p.busy /\ r.known = p.known /\ r.live = p.live /\ r.job = p.job /\ r.dead = p.dead
  /\ r.request = p.request /\ r.apply = p.apply /\ r.part = p.part /\ r.due = p.due
  /\ r.flaws = p.flaws

LEMMA EntrySet ==
  ASSUME NEW p \in PageType, NEW n \in Nat, NEW r, r = [p EXCEPT !.dom[n].entry = n]
  PROVE  EntrySetAs(p, r, n)
<1>1. p.dom \in Seq(Element)
  BY Zenon DEF PageType
<1>2. PICK d : d = [p.dom EXCEPT ![n].entry = n]
  OBVIOUS
<1>3. DOMAIN p.dom = 1 .. Len(p.dom) /\ Len(p.dom) \in Nat
  BY <1>1
<1>4. DOMAIN d = DOMAIN p.dom
  BY <1>2
<1>5. \A i \in DOMAIN p.dom : /\ d[i] \in Element /\ d[i].item = p.dom[i].item
                              /\ d[i].entry = IF i = n THEN n ELSE p.dom[i].entry
  <2> SUFFICES ASSUME NEW i \in DOMAIN p.dom
               PROVE  /\ d[i] \in Element /\ d[i].item = p.dom[i].item
                      /\ d[i].entry = IF i = n THEN n ELSE p.dom[i].entry
    OBVIOUS
  <2>1. p.dom[i] \in Element
    BY <1>1
  <2>2. CASE i = n
    <3>1. d[i] = [p.dom[i] EXCEPT !.entry = n]
      BY <1>2, <2>2
    <3> QED BY <2>1, <2>2, <3>1 DEF Element
  <2>3. CASE i # n
    BY <1>2, <2>1, <2>3
  <2> QED BY <2>2, <2>3
<1>6. d \in Seq(Element) /\ Len(d) = Len(p.dom)
  <2>1. d \in [1 .. Len(p.dom) -> Element]
    BY <1>2, <1>3, <1>4, <1>5
  <2> QED BY <1>3, <1>4, <2>1
<1>7. r = [p EXCEPT !.dom = d]
  BY Zenon, <1>2 DEF PageType
<1>8. r \in PageType /\ r.dom = d
  BY <1>6, <1>7, ZenonT(60) DEF PageType
<1>9. /\ r.source = p.source /\ r.meta = p.meta /\ r.cut = p.cut
      /\ r.busy = p.busy /\ r.known = p.known /\ r.live = p.live /\ r.job = p.job /\ r.dead = p.dead
      /\ r.request = p.request /\ r.apply = p.apply /\ r.part = p.part /\ r.due = p.due
      /\ r.flaws = p.flaws
  BY Zenon, <1>7 DEF PageType
<1> QED BY <1>4, <1>5, <1>6, <1>8, <1>9 DEF EntrySetAs

SlicedAs(p, q, n) ==
  /\ q \in PageType /\ DOMAIN q.dom = DOMAIN p.dom /\ Len(q.dom) = Len(p.dom)
  /\ \A i \in DOMAIN p.dom : /\ q.dom[i].item = p.dom[i].item
                             /\ q.dom[i].entry \in {i, p.dom[i].entry}
                             /\ p.live /\ i = n => q.dom[i].entry = i
  /\ q.source = p.source /\ q.meta = p.meta /\ q.cut = p.cut
  /\ q.busy = p.busy /\ q.known = p.known /\ q.live = p.live /\ q.job = p.job /\ q.dead = p.dead
  /\ q.request = p.request /\ q.apply = p.apply /\ q.part = p.part /\ q.due = p.due
  /\ q.flaws = p.flaws

LEMMA SlicedPage ==
  ASSUME NEW p \in PageType, NEW n \in Nat,
         NEW q, q = IF p.live THEN [p EXCEPT !.dom[n].entry = n] ELSE p
  PROVE  SlicedAs(p, q, n)
<1>1. CASE p.live
  <2>1. EntrySetAs(p, q, n)
    BY <1>1, EntrySet
  <2>2. \A i \in DOMAIN p.dom : /\ q.dom[i].item = p.dom[i].item
                               /\ q.dom[i].entry \in {i, p.dom[i].entry}
                               /\ p.live /\ i = n => q.dom[i].entry = i
    BY <2>1 DEF EntrySetAs
  <2> QED BY <2>1, <2>2 DEF EntrySetAs, SlicedAs
<1>2. CASE ~p.live
  BY <1>2 DEF SlicedAs
<1> QED BY <1>1, <1>2

LEMMA CacheBatchStep ==
  ASSUME PreviewInv, P!CacheBatch
  PROVE  PreviewInv'
<1>1. PICK p \in PageType : p = preview /\ PartFits(p)
  BY PreviewFields DEF PreviewInv
<1>2. PICK text \in Text, v \in BOOLEAN : text = editor.text /\ v = P!Shows(editor.panel)
  BY PreviewFields DEF PreviewInv
<1>3. PICK r : r = preview'
  OBVIOUS
<1>4. PICK job \in Slices : job = p.job /\ p.job # None
  BY Zenon, <1>1 DEF P!CacheBatch, PageType
<1>5. PICK t \in Text, n \in Nat : t = job.text /\ n = job.next
  BY DEF Slices
<1>6. PICK q : q = IF p.live THEN [p EXCEPT !.dom[n].entry = n] ELSE p
  OBVIOUS
<1>7. r = IF t # text THEN [p EXCEPT !.job = None]
          ELSE IF n < Len(t) THEN [q EXCEPT !.job.next = @ + 1]
          ELSE [q EXCEPT !.job = None, !.known = t]
  BY <1>1, <1>2, <1>3, <1>4, <1>5, <1>6 DEF P!CacheBatch
<1>8. SlicedAs(p, q, n)
  BY <1>6, SlicedPage
<1>9. CASE t # text
  <2>1. r = [p EXCEPT !.job = None]
    BY <1>7, <1>9
  <2>2. /\ r \in PageType /\ r.request = p.request /\ r.busy = p.busy /\ r.flaws = p.flaws
        /\ r.dom = p.dom /\ r.source = p.source /\ r.cut = p.cut /\ r.known = p.known
        /\ r.live = p.live /\ r.job = None /\ r.dead = p.dead
        /\ r.apply = p.apply /\ r.part = p.part /\ r.due = p.due
    BY Zenon, <2>1 DEF PageType
  <2>3. PartFits(r)
    BY <1>1, <2>2 DEF PartFits
  <2>4. PageSound(p) => PageSound(r)
    BY <2>2 DEF PageSound, PageFits, RequestFits
  <2>5. Follows(p, text) => Follows(r, text)
    BY <1>4, <1>5, <1>9, <2>2 DEF Follows, Coming, Answered
  <2>6. SteppedAs(p, r, text, v)
    BY <2>2, <2>3, <2>4, <2>5 DEF SteppedAs, Aligns
  <2> QED BY <1>1, <1>2, <1>3, <2>6, PageStep DEF P!CacheBatch
<1>10. p.dom \in Seq(Element) /\ DOMAIN p.dom = 1 .. Len(p.dom) /\ Len(p.dom) \in Nat
  <2>1. p.dom \in Seq(Element)
    BY Zenon DEF PageType
  <2> QED BY <2>1
<1>11. CASE t = text /\ n < Len(t)
  <2>1. PICK k : k = [job EXCEPT !.next = @ + 1]
    OBVIOUS
  <2>2. k \in Slices /\ k.text = t /\ k.next = n + 1
    BY <1>5, <2>1 DEF Slices
  <2>3. k # None
    BY <2>2, PreviewNone
  <2>4. r = [q EXCEPT !.job = k]
    <3>1. q \in PageType /\ q.job = job
      BY <1>4, <1>8 DEF SlicedAs
    <3>2. r = [q EXCEPT !.job.next = @ + 1]
      BY <1>7, <1>11
    <3> QED BY Zenon, <2>1, <3>1, <3>2 DEF PageType
  <2>5. /\ r \in PageType /\ r.request = q.request /\ r.busy = q.busy /\ r.flaws = q.flaws
        /\ r.dom = q.dom /\ r.source = q.source /\ r.cut = q.cut /\ r.known = q.known
        /\ r.live = q.live /\ r.job = k /\ r.dead = q.dead
        /\ r.apply = q.apply /\ r.part = q.part /\ r.due = q.due
    <3>1. q \in PageType
      BY <1>8 DEF SlicedAs
    <3> QED BY Zenon, <2>2, <2>4, <3>1 DEF PageType
  <2>6. /\ r \in PageType /\ DOMAIN r.dom = DOMAIN p.dom /\ Len(r.dom) = Len(p.dom)
        /\ \A i \in DOMAIN p.dom : /\ r.dom[i].item = p.dom[i].item
                                   /\ r.dom[i].entry \in {i, p.dom[i].entry}
                                   /\ p.live /\ i = n => r.dom[i].entry = i
        /\ r.source = p.source /\ r.cut = p.cut /\ r.known = p.known /\ r.job = k
        /\ r.live = p.live /\ r.dead = p.dead /\ r.request = p.request /\ r.apply = p.apply
        /\ r.part = p.part /\ r.due = p.due /\ r.flaws = p.flaws /\ r.busy = p.busy
    BY <1>8, <2>5 DEF SlicedAs
  <2>7. PartFits(r)
    BY <1>1, <2>6 DEF PartFits
  <2>8. ASSUME PageSound(p) PROVE PageSound(r)
    <3>1. ~p.cut
      BY <1>4, <2>8 DEF PageSound, PageFits
    <3>2. p.source # None => p.source = t /\ p.live /\ \A i \in DOMAIN p.dom : i < n => p.dom[i].entry = i
      BY <1>4, <1>5, <2>8 DEF PageSound, PageFits
    <3>3. p.source # None => \A i \in DOMAIN r.dom : i < n + 1 => r.dom[i].entry = i
      <4> SUFFICES ASSUME p.source # None, NEW i \in DOMAIN p.dom, i < n + 1
                   PROVE  r.dom[i].entry = i
        BY <2>6
      <4>1. i \in Nat /\ (i < n \/ i = n)
        BY <1>10
      <4> QED BY <2>6, <3>2, <4>1
    <3>4. PageFits(r)
      BY <2>2, <2>3, <2>6, <2>8, <3>1, <3>2, <3>3 DEF PageSound, PageFits, Holds
    <3> QED BY <2>6, <2>8, <3>4 DEF PageSound, RequestFits
  <2>9. Aligns(p, r, text)
    BY <2>6 DEF Aligns, Aligned
  <2>10. PageSound(p) /\ Follows(p, text) => Follows(r, text)
    <3>1. r.dom = <<>> \/ p.dom # <<>>
      <4>1. q.dom \in Seq(Element) /\ Len(q.dom) = Len(p.dom)
        BY Zenon, <1>8 DEF SlicedAs, PageType
      <4>2. p.dom = <<>> => q.dom = <<>>
        BY <4>1
      <4> QED BY <2>5, <4>2
    <3> QED BY <1>11, <2>2, <2>3, <2>6, <3>1 DEF Follows, Coming, Answered
  <2>11. SteppedAs(p, r, text, v)
    BY <2>6, <2>7, <2>8, <2>9, <2>10 DEF SteppedAs
  <2> QED BY <1>1, <1>2, <1>3, <2>11, PageStep DEF P!CacheBatch
<1>12. CASE t = text /\ ~(n < Len(t))
  <2>1. r = [q EXCEPT !.job = None, !.known = t]
    BY <1>7, <1>12
  <2>2. /\ r \in PageType /\ r.request = q.request /\ r.busy = q.busy /\ r.flaws = q.flaws
        /\ r.dom = q.dom /\ r.source = q.source /\ r.cut = q.cut /\ r.known = t
        /\ r.live = q.live /\ r.job = None /\ r.dead = q.dead
        /\ r.apply = q.apply /\ r.part = q.part /\ r.due = q.due
    <3>1. q \in PageType
      BY <1>8 DEF SlicedAs
    <3> QED BY ZenonT(60), <2>1, <3>1 DEF PageType
  <2>6. /\ r \in PageType /\ DOMAIN r.dom = DOMAIN p.dom /\ Len(r.dom) = Len(p.dom)
        /\ \A i \in DOMAIN p.dom : /\ r.dom[i].item = p.dom[i].item
                                   /\ r.dom[i].entry \in {i, p.dom[i].entry}
                                   /\ p.live /\ i = n => r.dom[i].entry = i
        /\ r.source = p.source /\ r.cut = p.cut /\ r.known = t /\ r.job = None
        /\ r.live = p.live /\ r.dead = p.dead /\ r.request = p.request /\ r.apply = p.apply
        /\ r.part = p.part /\ r.due = p.due /\ r.flaws = p.flaws /\ r.busy = p.busy
    BY <1>8, <2>2 DEF SlicedAs
  <2>7. PartFits(r)
    BY <1>1, <2>6 DEF PartFits
  <2>8. ASSUME PageSound(p) PROVE PageSound(r)
    <3>1. ~p.cut
      BY <1>4, <2>8 DEF PageSound, PageFits
    <3>2. p.source # None =>
            /\ p.source = t /\ p.live /\ Holds(p.dom, t) /\ Len(p.dom) = Len(t)
            /\ \A i \in DOMAIN p.dom : i < n => p.dom[i].entry = i
      BY <1>4, <1>5, <2>8, <3>1 DEF PageSound, PageFits
    <3>3. p.source # None => \A i \in DOMAIN r.dom : r.dom[i].entry = i
      <4> SUFFICES ASSUME p.source # None, NEW i \in DOMAIN p.dom
                   PROVE  r.dom[i].entry = i
        BY <2>6
      <4>1. i \in Nat /\ (i < n \/ i = n)
        BY <1>10, <1>12, <3>2
      <4> QED BY <2>6, <3>2, <4>1
    <3>4. PageFits(r)
      BY <2>6, <2>8, <3>1, <3>2, <3>3 DEF PageSound, PageFits, Holds
    <3> QED BY <2>6, <2>8, <3>4 DEF PageSound, RequestFits
  <2>9. Aligns(p, r, text)
    BY <2>6 DEF Aligns, Aligned
  <2>10. PageSound(p) /\ Follows(p, text) => Follows(r, text)
    <3>1. r.dom = <<>> \/ p.dom # <<>>
      <4>1. q.dom \in Seq(Element) /\ Len(q.dom) = Len(p.dom)
        BY Zenon, <1>8 DEF SlicedAs, PageType
      <4>2. p.dom = <<>> => q.dom = <<>>
        BY <4>1
      <4> QED BY <2>2, <4>2
    <3> QED BY <1>12, <2>6, <3>1 DEF Follows, Coming, Answered
  <2>11. SteppedAs(p, r, text, v)
    BY <2>6, <2>7, <2>8, <2>9, <2>10 DEF SteppedAs
  <2> QED BY <1>1, <1>2, <1>3, <2>11, PageStep DEF P!CacheBatch
<1> QED BY <1>9, <1>11, <1>12

(***************************************************************************)
(* The user writes, changes the view and opens notes.                      *)
(***************************************************************************)
LEMMA WrittenTexts == P!Texts \subseteq Text
<1> DEFINE Of(n) == [1 .. n -> [name : Names, done : {FALSE}]]
<1> SUFFICES ASSUME NEW t \in P!Texts PROVE t \in Text
  OBVIOUS
<1>1. PICK n \in 0 .. P!Cardinality(Names) : t \in Of(n)
  <2>1. t \in UNION {Of(n) : n \in 0 .. P!Cardinality(Names)}
    BY DEF P!Texts
  <2> HIDE DEF Of
  <2> QED BY <2>1
<1>2. n \in Nat
  OBVIOUS
<1>3. [name : Names, done : {FALSE}] \subseteq Item
  BY DEF Item
<1>4. t \in [1 .. n -> Item]
  BY <1>1, <1>3
<1> QED BY <1>2, <1>4 DEF Text

(* After an input nothing is under way but the delay.                        *)
InputAs(p, r, visible) ==
  /\ r \in PageType /\ PartFits(r)
  /\ r.request = None /\ r.apply = None /\ r.part = None /\ r.job = None
  /\ r.busy = FALSE /\ r.known = None
  /\ r.dom = p.dom /\ r.source = p.source /\ r.meta = p.meta /\ r.cut = p.cut
  /\ r.live = p.live /\ r.dead = p.dead /\ r.flaws = p.flaws
  /\ PageSound(p) => PageSound(r)
  /\ visible => r.due # {}

LEMMA InputPage ==
  ASSUME NEW p \in PageType, NEW visible \in BOOLEAN, NEW r, r = P!SourceInput(p, visible)
  PROVE  InputAs(p, r, visible)
<1>1. PICK q : q = P!CancelPending(p)
  OBVIOUS
<1>2. CancelledAs(p, q)
  BY <1>1, CancelledPage
<1>3. q \in PageType
  BY <1>2 DEF CancelledAs
<1>4. PICK due \in SUBSET {"delay", "stray", "frame"} :
        due = IF visible THEN q.due \cup {"delay"} ELSE q.due
  BY Zenon, <1>3 DEF PageType
<1>5. r = [q EXCEPT !.known = None, !.due = due]
  BY Zenon, <1>1, <1>3, <1>4 DEF P!SourceInput, PageType
<1>6. /\ r \in PageType /\ r.known = None /\ r.due = due
      /\ r.request = q.request /\ r.apply = q.apply /\ r.part = q.part /\ r.job = q.job
      /\ r.busy = q.busy /\ r.dom = q.dom /\ r.source = q.source /\ r.meta = q.meta
      /\ r.cut = q.cut /\ r.live = q.live /\ r.dead = q.dead /\ r.flaws = q.flaws
  BY <1>3, <1>5, ZenonT(60) DEF PageType
<1>7. /\ r.request = None /\ r.apply = None /\ r.part = None /\ r.job = None
      /\ r.busy = FALSE /\ r.dom = p.dom /\ r.source = p.source /\ r.meta = p.meta
      /\ r.cut = p.cut /\ r.live = p.live /\ r.dead = p.dead /\ r.flaws = p.flaws
  BY <1>2, <1>6 DEF CancelledAs
<1>8. PartFits(r)
  BY <1>7 DEF PartFits, Current
<1>9. PageSound(p) => PageSound(r)
  BY <1>6, <1>7 DEF PageSound, PageFits, RequestFits, Current
<1>10. visible => r.due # {}
  BY <1>4, <1>6
<1> QED BY <1>6, <1>7, <1>8, <1>9, <1>10 DEF InputAs

(* What is checked of a step that changes the editor.                        *)
LEMMA EditorStep ==
  ASSUME NEW p \in PageType, NEW e \in EditorType, NEW x \in EditType, PartFits(p),
         preview' = p, editor' = e, edit' = x,
         p.flaws = {} => PreviewSound(p, e, x)
  PROVE  PreviewInv'
BY DEF PreviewInv, PreviewTypes

LEMMA TypeStep ==
  ASSUME PreviewInv, NEW text \in Text, P!Type(text)
  PROVE  PreviewInv'
<1>1. PICK p \in PageType, e \in EditorType, x \in EditType :
        p = preview /\ e = editor /\ x = edit /\ PartFits(p)
  BY DEF PreviewInv, PreviewTypes
<1>2. PICK v \in BOOLEAN : v = P!Shows(editor.panel)
  BY PreviewFields DEF PreviewInv
<1>3. PICK r : r = P!SourceInput(p, v)
  OBVIOUS
<1>4. InputAs(p, r, v)
  BY <1>3, InputPage
<1>5. PICK f : f = [e EXCEPT !.text = text, !.dirty = TRUE]
  OBVIOUS
<1>6. f \in EditorType /\ f.text = text /\ f.panel = e.panel
  BY <1>5 DEF EditorType
<1>7. PICK y : y = [x EXCEPT !.history = <<>>, !.drag = None]
  OBVIOUS
<1>8. y \in EditType /\ y.history = <<>> /\ y.drag = None /\ y.wrong = x.wrong
  <2>1. <<>> \in Seq(Ticking \cup Moving)
    OBVIOUS
  <2> QED BY <1>7, <2>1 DEF EditType
<1>9. preview' = r /\ editor' = f /\ edit' = y
  BY <1>1, <1>2, <1>3, <1>5, <1>7 DEF P!Type, P!Visible
<1>10. ASSUME r.flaws = {} PROVE PreviewSound(r, f, y)
  <2>1. PageSound(p) /\ ~x.wrong
    BY <1>1, <1>4, <1>10 DEF PreviewInv, PreviewSound, InputAs
  <2>2. PageSound(r)
    BY <1>4, <2>1 DEF InputAs
  <2>3. P!Shows(f.panel) => Follows(r, f.text)
    BY <1>1, <1>2, <1>4, <1>6 DEF InputAs, Follows, Coming
  <2> QED BY <1>8, <2>1, <2>2, <2>3 DEF PreviewSound, DragFits, HistoryFits
<1> QED BY <1>4, <1>6, <1>8, <1>9, <1>10, EditorStep DEF InputAs

LEMMA SavedStep ==
  ASSUME PreviewInv, P!Saved
  PROVE  PreviewInv'
<1>1. PICK p \in PageType, e \in EditorType, x \in EditType :
        p = preview /\ e = editor /\ x = edit /\ PartFits(p)
  BY DEF PreviewInv, PreviewTypes
<1>2. PICK f : f = [e EXCEPT !.dirty = FALSE]
  OBVIOUS
<1>3. f \in EditorType /\ f.text = e.text /\ f.panel = e.panel
  BY <1>2 DEF EditorType
<1>4. preview' = p /\ editor' = f /\ edit' = x
  BY <1>1, <1>2 DEF P!Saved
<1>5. p.flaws = {} => PreviewSound(p, f, x)
  BY <1>1, <1>3 DEF PreviewInv, PreviewSound
<1> QED BY <1>1, <1>3, <1>4, <1>5, EditorStep

LEMMA InvalidatedFits ==
  ASSUME NEW p \in PageType, PartFits(p), NEW q, InvalidatedAs(p, q)
  PROVE  PartFits(q) /\ (PageSound(p) => PageSound(q))
<1>1. PartFits(q)
  BY DEF InvalidatedAs, PartFits
<1>2. ASSUME q.request # None PROVE q.source # q.request.text
  <2>1. q.request \in Asked /\ q.source = None
    BY Zenon, <1>2 DEF InvalidatedAs, PageType
  <2>2. q.request.text \in Text
    BY <2>1 DEF Asked
  <2> QED BY <2>1, <2>2, PreviewNone
<1>3. RequestFits(p) => RequestFits(q)
  BY <1>2 DEF InvalidatedAs, RequestFits
<1>4. PageFits(p) => PageFits(q)
  BY DEF InvalidatedAs, PageFits
<1> QED BY <1>1, <1>3, <1>4 DEF PageSound

LEMMA AdoptStep ==
  ASSUME PreviewInv, NEW text \in Text, P!Adopt(text)
  PROVE  PreviewInv'
<1>1. PICK p \in PageType, e \in EditorType, x \in EditType :
        p = preview /\ e = editor /\ x = edit /\ PartFits(p)
  BY DEF PreviewInv, PreviewTypes
<1>2. PICK v \in BOOLEAN : v = P!Shows(editor.panel)
  BY PreviewFields DEF PreviewInv
<1>3. PICK q : q = P!Invalidated(p)
  OBVIOUS
<1>4. InvalidatedAs(p, q)
  BY <1>3, InvalidatedPage
<1>5. q \in PageType /\ PartFits(q) /\ (PageSound(p) => PageSound(q)) /\ q.flaws = p.flaws
  BY <1>1, <1>4, InvalidatedFits DEF InvalidatedAs
<1>6. PICK z : z = P!RequestPreviewRender(q, text, v, TRUE)
  OBVIOUS
<1>7. RequestedAs(q, z, text, v)
  BY <1>5, <1>6, RequestedPage
<1>8. PICK f : f = [e EXCEPT !.text = text]
  OBVIOUS
<1>9. f \in EditorType /\ f.text = text /\ f.panel = e.panel
  BY <1>8 DEF EditorType
<1>10. PICK r : r = IF x.history # <<>> \/ x.drag # None
                    THEN [z EXCEPT !.flaws = @ \cup {"adopted"}] ELSE z
  OBVIOUS
<1>11. preview' = r /\ editor' = f /\ edit' = x
  BY <1>1, <1>2, <1>3, <1>6, <1>8, <1>10 DEF P!Adopt, P!UpdateOpenNote, P!Visible
<1>12. CASE x.history # <<>> \/ x.drag # None
  <2>1. z \in PageType /\ PartFits(z)
    BY <1>7 DEF RequestedAs
  <2>2. PICK flaws \in SUBSET {"cut short", "left inert", "adopted", "box only"} :
          flaws = z.flaws \cup {"adopted"}
    BY Zenon, <2>1 DEF PageType
  <2>3. r = [z EXCEPT !.flaws = flaws]
    BY Zenon, <1>10, <1>12, <2>1, <2>2 DEF PageType
  <2>4. r \in PageType /\ r.flaws = flaws /\ r.part = z.part /\ r.dom = z.dom
    BY Zenon, <2>1, <2>3 DEF PageType
  <2>5. PartFits(r)
    BY Zenon, <2>1, <2>4 DEF PartFits
  <2> QED BY Zenon, <1>1, <1>9, <1>11, <2>2, <2>4, <2>5, EditorStep
<1>13. CASE x.history = <<>> /\ x.drag = None
  <2>1. r = z
    BY <1>10, <1>13
  <2>2. ASSUME r.flaws = {} PROVE PreviewSound(r, f, x)
    <3>1. PageSound(p) /\ ~x.wrong
      BY <1>1, <1>5, <1>7, <2>1, <2>2 DEF PreviewInv, PreviewSound, RequestedAs
    <3>2. PageSound(r) /\ (v => Follows(r, text))
      BY <1>5, <1>7, <2>1, <2>2, <3>1 DEF RequestedAs
    <3> QED BY <1>1, <1>2, <1>9, <1>13, <3>1, <3>2 DEF PreviewSound, DragFits, HistoryFits
  <2> QED BY <1>1, <1>7, <1>9, <1>11, <2>1, <2>2, EditorStep DEF RequestedAs
<1> QED BY <1>12, <1>13

SetAs(p, r, text, to) ==
  /\ r \in PageType /\ PartFits(r)
  /\ r.flaws = {} => p.flaws = {}
  /\ PageSound(p) => PageSound(r)
  /\ P!Shows(to) /\ r.flaws = {} /\ PageSound(p) => Follows(r, text)

LEMMA SetPage ==
  ASSUME NEW p \in PageType, PartFits(p), NEW text \in Text, NEW from, NEW to,
         NEW r, r = P!SetPanel(p, text, from, to)
  PROVE  SetAs(p, r, text, to)
<1>1. PICK q : q = P!SyncMode(p, from, to)
  OBVIOUS
<1>2. q \in PageType /\ PartFits(q) /\ (PageSound(p) => PageSound(q)) /\ q.flaws = p.flaws
  <2>1. CASE P!Interactive(from) = P!Interactive(to)
    BY <1>1, <2>1 DEF P!SyncMode
  <2>2. CASE P!Interactive(from) # P!Interactive(to)
    <3>1. PICK z : z = P!Invalidated(p)
      OBVIOUS
    <3>2. InvalidatedAs(p, z)
      BY <3>1, InvalidatedPage
    <3>3. q = [z EXCEPT !.meta = None]
      BY <1>1, <2>2, <3>1 DEF P!SyncMode
    <3>4. z \in PageType /\ PartFits(z) /\ (PageSound(p) => PageSound(z)) /\ z.flaws = p.flaws
      BY <3>2, InvalidatedFits DEF InvalidatedAs
    <3>5. /\ q \in PageType /\ q.request = z.request /\ q.flaws = z.flaws
          /\ q.dom = z.dom /\ q.source = z.source /\ q.cut = z.cut /\ q.known = z.known
          /\ q.live = z.live /\ q.job = z.job /\ q.dead = z.dead
          /\ q.apply = z.apply /\ q.part = z.part
      BY ZenonT(60), <3>3, <3>4 DEF PageType
    <3> QED BY <3>4, <3>5 DEF PartFits, PageSound, PageFits, RequestFits
  <2> QED BY <2>1, <2>2
<1>3. CASE ~P!Shows(to)
  <2>1. r = q
    BY <1>1, <1>3 DEF P!SetPanel
  <2> QED BY <1>2, <1>3, <2>1 DEF SetAs
<1>4. CASE P!Shows(to) /\ r = P!RequestPreviewRender(q, text, TRUE, TRUE)
  <2>1. RequestedAs(q, r, text, TRUE)
    BY <1>2, <1>4, RequestedPage
  <2> QED BY <1>2, <1>4, <2>1 DEF RequestedAs, SetAs
<1>5. CASE P!Shows(to) /\ r = [q EXCEPT !.due = @ \cup {"frame"}]
  <2>1. PICK due \in SUBSET {"delay", "stray", "frame"} : due = q.due \cup {"frame"}
    BY Zenon, <1>2 DEF PageType
  <2>2. r = [q EXCEPT !.due = due]
    BY Zenon, <1>2, <1>5, <2>1 DEF PageType
  <2>3. r \in PageType /\ SameShown(q, r) /\ r.flaws = q.flaws /\ r.due # {}
    <3>1. due # {}
      BY <2>1
    <3>2. r \in PageType /\ SameShown(q, r) /\ r.flaws = q.flaws /\ r.due = due
      BY <1>2, <2>2, ZenonT(60) DEF PageType, SameShown
    <3> QED BY <3>1, <3>2
  <2>4. PartFits(r) /\ (PageSound(q) => PageSound(r))
    BY <1>2, <2>3, SameFits
  <2>5. Follows(r, text)
    BY <2>3 DEF Follows, Coming
  <2> QED BY <1>2, <1>5, <2>3, <2>4, <2>5 DEF SetAs
<1> QED BY <1>1, <1>3, <1>4, <1>5 DEF P!SetPanel

LEMMA ChangePanelStep ==
  ASSUME PreviewInv, NEW to \in P!Panels, P!ChangePanel(to)
  PROVE  PreviewInv'
<1>1. PICK p \in PageType, e \in EditorType, x \in EditType :
        p = preview /\ e = editor /\ x = edit /\ PartFits(p)
  BY DEF PreviewInv, PreviewTypes
<1>2. PICK text \in Text : text = e.text
  BY DEF EditorType
<1>3. PICK r : r = P!SetPanel(p, text, e.panel, to)
  OBVIOUS
<1>4. SetAs(p, r, text, to)
  BY <1>1, <1>3, SetPage
<1>5. PICK f : f = [e EXCEPT !.panel = to]
  OBVIOUS
<1>6. f \in EditorType /\ f.text = text /\ f.panel = to
  BY <1>2, <1>5 DEF EditorType
<1>7. PICK h \in Seq(Ticking \cup Moving) :
        h = IF P!Interactive(e.panel) = P!Interactive(to) THEN x.history ELSE <<>>
  <2>1. <<>> \in Seq(Ticking \cup Moving) /\ x.history \in Seq(Ticking \cup Moving)
    BY DEF EditType
  <2> QED BY <2>1
<1>8. PICK y : y = [x EXCEPT !.drag = None, !.history = h]
  OBVIOUS
<1>9. y \in EditType /\ y.history = h /\ y.drag = None /\ y.wrong = x.wrong
  BY <1>8 DEF EditType
<1>10. y = [x EXCEPT !.drag = None,
                     !.history = IF P!Interactive(e.panel) = P!Interactive(to) THEN @ ELSE <<>>]
  BY <1>7, <1>8 DEF EditType
<1>11. preview' = r /\ editor' = f /\ edit' = y
  BY <1>1, <1>2, <1>3, <1>5, <1>10 DEF P!ChangePanel
<1>12. ASSUME r.flaws = {} PROVE PreviewSound(r, f, y)
  <2>1. PageSound(p) /\ ~x.wrong /\ HistoryFits(x.history, text)
    BY <1>1, <1>2, <1>4, <1>12 DEF PreviewInv, PreviewSound, SetAs
  <2>2. PageSound(r) /\ (P!Shows(f.panel) => Follows(r, f.text))
    BY <1>4, <1>6, <1>12, <2>1 DEF SetAs
  <2>3. HistoryFits(h, f.text)
    BY <1>6, <1>7, <2>1 DEF HistoryFits
  <2> QED BY <1>9, <2>1, <2>2, <2>3 DEF PreviewSound, DragFits
<1> QED BY <1>4, <1>6, <1>9, <1>11, <1>12, EditorStep DEF SetAs

LEMMA OpenNoteStep ==
  ASSUME PreviewInv, NEW text \in Text, NEW fresh \in BOOLEAN, P!Open(text, fresh)
  PROVE  PreviewInv'
<1>1. PICK p \in PageType, e \in EditorType, x \in EditType :
        p = preview /\ e = editor /\ x = edit /\ PartFits(p)
  BY DEF PreviewInv, PreviewTypes
<1>2. PICK old \in Text : old = e.text
  BY DEF EditorType
<1>3. PICK a : a = P!SetPanel(p, old, e.panel, "both")
  OBVIOUS
<1>4. SetAs(p, a, old, "both")
  BY <1>1, <1>3, SetPage
<1>5. PICK z : z = P!Invalidated(a)
  OBVIOUS
<1>6. InvalidatedAs(a, z)
  BY <1>4, <1>5, InvalidatedPage DEF SetAs
<1>7. z \in PageType /\ PartFits(z) /\ (PageSound(a) => PageSound(z)) /\ z.flaws = a.flaws
      /\ z.source = None /\ z.cut = FALSE
  BY <1>4, <1>6, InvalidatedFits DEF SetAs, InvalidatedAs
<1>8. PICK due \in SUBSET {"delay", "stray", "frame"} :
        due = IF fresh THEN z.due \ {"delay"} ELSE z.due
  BY Zenon, <1>7 DEF PageType
<1>9. PICK q : q = [z EXCEPT !.dom = <<>>, !.live = FALSE, !.meta = None, !.due = due]
  OBVIOUS
<1>10. q = [z EXCEPT !.dom = <<>>, !.live = FALSE, !.meta = None,
                     !.due = IF fresh THEN @ \ {"delay"} ELSE @]
  BY Zenon, <1>7, <1>8, <1>9 DEF PageType
<1>11. /\ q \in PageType /\ q.dom = <<>> /\ q.request = z.request /\ q.flaws = z.flaws
       /\ q.source = None /\ q.cut = FALSE /\ q.known = z.known
       /\ q.job = z.job /\ q.dead = z.dead /\ q.apply = z.apply /\ q.part = z.part
  <2>1. z \in PageType /\ z.source = None /\ z.cut = FALSE
    BY <1>7
  <2>2. PICK dom \in Seq(Element) : dom = <<>>
    <3>1. <<>> \in Seq(Element)
      OBVIOUS
    <3> QED BY <3>1
  <2>3. q = [z EXCEPT !.dom = dom, !.live = FALSE, !.meta = None, !.due = due]
    BY <1>9, <2>2
  <2>4. q \in PageType /\ q.dom = dom
    <3>1. z \in PageType /\ dom \in Seq(Element) /\ due \in SUBSET {"delay", "stray", "frame"}
      BY <2>1
    <3> QED BY ZenonT(60), <2>3, <3>1 DEF PageType
  <2>5. /\ q.request = z.request /\ q.flaws = z.flaws /\ q.source = z.source /\ q.cut = z.cut
        /\ q.known = z.known /\ q.job = z.job /\ q.dead = z.dead
        /\ q.apply = z.apply /\ q.part = z.part
    BY Zenon, <2>1, <2>3 DEF PageType
  <2> QED BY <2>1, <2>2, <2>4, <2>5
<1>12. PartFits(q)
  <2> SUFFICES ASSUME Current(q.part) PROVE Len(q.dom) < Len(q.part.text)
    BY DEF PartFits
  <2>1. Len(z.dom) < Len(q.part.text)
    BY <1>7, <1>11 DEF PartFits
  <2>2. z.dom \in Seq(Element) /\ q.part.text \in Seq(Item)
    BY Zenon, <1>7, <1>11 DEF PageType, Current, Text
  <2>3. Len(z.dom) \in Nat /\ Len(q.part.text) \in Nat
    BY <2>2
  <2> QED BY <1>11, <2>1, <2>3
<1>13. PageSound(z) => PageSound(q)
  BY <1>7, <1>11 DEF PageSound, PageFits, RequestFits, Holds
<1>14. PICK c : c = IF fresh THEN P!CacheBlocks(q, text, FALSE) ELSE q
  OBVIOUS
<1>15. c \in PageType /\ PartFits(c) /\ (PageSound(q) => PageSound(c)) /\ c.flaws = q.flaws
  <2>1. CASE ~fresh
    BY <1>11, <1>12, <1>14, <2>1
  <2>2. CASE fresh
    <3>1. text = <<>>
      BY <2>2 DEF P!Open
    <3>2. CachedAs(q, c, text, FALSE)
      BY <1>11, <1>14, <2>2, CachedPage
    <3>3. /\ c \in PageType /\ Len(c.dom) = Len(q.dom) /\ DOMAIN c.dom = DOMAIN q.dom
          /\ \A i \in DOMAIN c.dom : c.dom[i].item = q.dom[i].item
          /\ c.source = None /\ c.cut = FALSE /\ c.dead = q.dead /\ c.request = q.request
          /\ c.apply = q.apply /\ c.part = q.part /\ c.flaws = q.flaws
      BY <1>11, <3>2 DEF CachedAs
    <3>4. PartFits(c)
      BY <1>12, <3>3 DEF PartFits
    <3>5. PageSound(q) => PageSound(c)
      BY <1>11, <3>3 DEF PageSound, PageFits, RequestFits, Holds
    <3> QED BY <3>3, <3>4, <3>5
  <2> QED BY <2>1, <2>2
<1>16. PICK r : r = P!RequestPreviewRender(c, text, TRUE, TRUE)
  OBVIOUS
<1>17. RequestedAs(c, r, text, TRUE)
  BY <1>15, <1>16, RequestedPage
<1>18. PICK f : f = [text |-> text, dirty |-> FALSE, panel |-> "both"]
  OBVIOUS
<1>19. f \in EditorType /\ f.text = text /\ f.panel = "both"
  BY <1>18 DEF EditorType, P!Panels
<1>20. PICK y : y = [x EXCEPT !.history = <<>>, !.drag = None]
  OBVIOUS
<1>21. y \in EditType /\ y.history = <<>> /\ y.drag = None /\ y.wrong = x.wrong
  <2>1. <<>> \in Seq(Ticking \cup Moving)
    OBVIOUS
  <2> QED BY <1>20, <2>1 DEF EditType
<1>22. preview' = r /\ editor' = f /\ edit' = y
  BY <1>1, <1>2, <1>3, <1>5, <1>10, <1>14, <1>16, <1>18, <1>20 DEF P!Open
<1>23. ASSUME r.flaws = {} PROVE PreviewSound(r, f, y)
  <2>1. p.flaws = {}
    BY <1>4, <1>7, <1>11, <1>15, <1>17, <1>23 DEF SetAs, RequestedAs
  <2>2. PageSound(p) /\ ~x.wrong
    BY <1>1, <2>1 DEF PreviewInv, PreviewSound
  <2>3. PageSound(c)
    BY <1>4, <1>7, <1>13, <1>15, <2>2 DEF SetAs
  <2>4. PageSound(r) /\ Follows(r, text)
    BY <1>17, <1>23, <2>3 DEF RequestedAs
  <2> QED BY <1>19, <1>21, <2>2, <2>4 DEF PreviewSound, DragFits, HistoryFits
<1> QED BY <1>17, <1>19, <1>21, <1>22, <1>23, EditorStep DEF RequestedAs

(***************************************************************************)
(* Edits through the preview.                                              *)
(***************************************************************************)
(* A page that is of the text shows at each position the item of the entry.  *)
LEMMA CurrentPage ==
  ASSUME NEW p \in PageType, PageFits(p), NEW text \in Text, p.source = text, p.known = text
  PROVE  /\ p.cut = FALSE /\ Holds(p.dom, text) /\ Len(p.dom) = Len(text)
         /\ \A i \in DOMAIN p.dom : p.dom[i].entry = i /\ Named(text, i, p.dom[i].item.name)
         /\ Aligned(p.dom, text)
<1>1. text # None
  BY PreviewNone
<1>2. p.cut = FALSE
  BY Zenon, <1>1 DEF PageFits, PageType
<1>3. Holds(p.dom, text) /\ Len(p.dom) = Len(text)
  BY <1>1, <1>2 DEF PageFits
<1>4. \A i \in DOMAIN p.dom : p.dom[i].entry = i /\ Named(text, i, p.dom[i].item.name)
  BY <1>1, <1>3 DEF PageFits, Holds, Named
<1> QED BY <1>2, <1>3, <1>4 DEF Aligned

LEMMA PickUpStep ==
  ASSUME PreviewInv, NEW i, P!PickUp(i)
  PROVE  PreviewInv'
<1>1. PICK p \in PageType, e \in EditorType, x \in EditType :
        p = preview /\ e = editor /\ x = edit /\ PartFits(p)
  BY DEF PreviewInv, PreviewTypes
<1>2. PICK text \in Text : text = e.text
  BY DEF EditorType
<1>3. p.source = text /\ p.known = text /\ i \in DOMAIN p.dom
  BY <1>1, <1>2 DEF P!PickUp, P!SourceIsCurrent
<1>4. p.dom[i].entry \in Nat /\ p.dom[i].item.name \in Names
  <2>1. p.dom \in Seq(Element)
    BY Zenon DEF PageType
  <2>2. p.dom[i] \in Element
    BY <1>3, <2>1
  <2> QED BY <2>2 DEF Element, Item
<1>5. PICK from \in Nat, name \in Names : from = p.dom[i].entry /\ name = p.dom[i].item.name
  BY <1>4
<1>6. PICK d : d = [from |-> from, name |-> name, armed |-> FALSE, target |-> None]
  OBVIOUS
<1>7. d \in Dragged /\ d.from = from /\ d.name = name /\ d.armed = FALSE /\ d.target = None
  BY <1>6 DEF Dragged
<1>8. PICK y : y = [x EXCEPT !.drag = d]
  OBVIOUS
<1>9. y \in EditType /\ y.drag = d /\ y.history = x.history /\ y.wrong = x.wrong
  BY <1>7, <1>8 DEF EditType
<1>10. preview' = p /\ editor' = e /\ edit' = y
  BY <1>1, <1>5, <1>6, <1>8 DEF P!PickUp
<1>11. ASSUME p.flaws = {} PROVE PreviewSound(p, e, y)
  <2>1. PreviewSound(p, e, x)
    BY <1>1, <1>11 DEF PreviewInv
  <2>2. Named(text, from, name)
    <3>1. p.dom[i].entry = i /\ Named(text, i, p.dom[i].item.name)
      BY <1>3, <2>1, CurrentPage DEF PreviewSound, PageSound
    <3> QED BY <1>5, <3>1
  <2>3. DragFits(y.drag, p, e.text)
    BY <1>2, <1>7, <1>9, <2>2 DEF DragFits
  <2> QED BY <1>9, <2>1, <2>3 DEF PreviewSound
<1> QED BY <1>1, <1>9, <1>10, <1>11, EditorStep

LEMMA LetGoStep ==
  ASSUME PreviewInv, UNCHANGED <<editor, preview>>, edit' = [edit EXCEPT !.drag = None]
  PROVE  PreviewInv'
<1>1. PICK p \in PageType, e \in EditorType, x \in EditType :
        p = preview /\ e = editor /\ x = edit /\ PartFits(p)
  BY DEF PreviewInv, PreviewTypes
<1>2. PICK y : y = [x EXCEPT !.drag = None]
  OBVIOUS
<1>3. y \in EditType /\ y.drag = None /\ y.history = x.history /\ y.wrong = x.wrong
  BY <1>2 DEF EditType
<1>4. preview' = p /\ editor' = e /\ edit' = y
  BY <1>1, <1>2
<1>5. p.flaws = {} => PreviewSound(p, e, y)
  BY <1>1, <1>3 DEF PreviewInv, PreviewSound, DragFits
<1> QED BY <1>1, <1>3, <1>4, <1>5, EditorStep

LEMMA HoverStep ==
  ASSUME PreviewInv, NEW j, NEW after \in BOOLEAN, P!Hover(j, after)
  PROVE  PreviewInv'
<1>1. PICK p \in PageType, e \in EditorType, x \in EditType :
        p = preview /\ e = editor /\ x = edit /\ PartFits(p)
  BY DEF PreviewInv, PreviewTypes
<1>2. PICK text \in Text : text = e.text
  BY DEF EditorType
<1>3. PICK old \in Dragged : old = x.drag /\ x.drag # None
  BY <1>1 DEF P!Hover, EditType
<1>4. PICK current \in BOOLEAN : current <=> p.source = text /\ p.known = text
  BY Zenon
<1>5. CASE ~old.armed /\ ~current
  <2>1. edit' = [edit EXCEPT !.drag = None]
    BY <1>1, <1>2, <1>3, <1>4, <1>5 DEF P!Hover, P!SourceIsCurrent, EditType
  <2> QED BY <2>1, LetGoStep DEF P!Hover
<1>6. CASE old.armed \/ current
  <2>1. j \in DOMAIN p.dom /\ p.dom[j].entry # 0
    BY <1>1 DEF P!Hover
  <2>2. p.dom[j].entry \in Nat /\ p.dom[j].item.name \in Names
    <3>1. p.dom \in Seq(Element)
      BY Zenon DEF PageType
    <3>2. p.dom[j] \in Element
      BY <2>1, <3>1
    <3> QED BY <3>2 DEF Element, Item
  <2>3. PICK to \in Nat, name \in Names : to = p.dom[j].entry /\ name = p.dom[j].item.name
    BY <2>2
  <2>4. PICK t : t = [to |-> to, after |-> after, name |-> name]
    OBVIOUS
  <2>5. t \in Target /\ t.to = to /\ t.name = name
    BY <2>4 DEF Target
  <2>6. PICK d : d = [old EXCEPT !.armed = TRUE, !.target = t]
    OBVIOUS
  <2>7. d \in Dragged /\ d.from = old.from /\ d.name = old.name /\ d.armed = TRUE /\ d.target = t
    BY <2>5, <2>6 DEF Dragged
  <2>8. PICK y : y = [x EXCEPT !.drag = d]
    OBVIOUS
  <2>9. y \in EditType /\ y.drag = d /\ y.history = x.history /\ y.wrong = x.wrong
    BY <2>7, <2>8 DEF EditType
  <2>10. preview' = p /\ editor' = e /\ edit' = y
    <3>1. edit' = [x EXCEPT !.drag = [@ EXCEPT !.armed = TRUE, !.target = t]]
      BY <1>1, <1>2, <1>3, <1>4, <1>6, <2>3, <2>4 DEF P!Hover, P!SourceIsCurrent, EditType
    <3>2. edit' = y
      BY <1>3, <2>6, <2>8, <3>1 DEF EditType
    <3> QED BY <1>1, <3>2 DEF P!Hover
  <2>11. ASSUME p.flaws = {} PROVE PreviewSound(p, e, y)
    <3>1. PreviewSound(p, e, x)
      BY <1>1, <2>11 DEF PreviewInv
    <3>2. Named(text, old.from, old.name) /\ (old.armed => p.source = text /\ Aligned(p.dom, text))
      BY <1>2, <1>3, <3>1 DEF PreviewSound, DragFits
    <3>3. current => p.source = text /\ Aligned(p.dom, text)
      BY <1>4, <3>1, CurrentPage DEF PreviewSound, PageSound
    <3>4. p.source = text /\ Aligned(p.dom, text)
      BY <1>6, <3>2, <3>3
    <3>5. Named(text, to, name)
      BY <2>1, <2>3, <3>4 DEF Aligned
    <3>6. DragFits(y.drag, p, e.text)
      BY <1>2, <2>5, <2>7, <2>9, <3>2, <3>4, <3>5 DEF DragFits
    <3> QED BY <2>9, <3>1, <3>6 DEF PreviewSound
  <2> QED BY <1>1, <2>9, <2>10, <2>11, EditorStep
<1> QED BY <1>5, <1>6

(* An edit is recorded at the end; the oldest gives way at the limit.        *)
RecordedAs(h, t, r, old, new) ==
  /\ r \in Seq(Ticking \cup Moving)
  /\ HistoryFits(h, old) /\ t.before = old /\ Stands(t, new) => HistoryFits(r, new)

LEMMA RecordedEdit ==
  ASSUME NEW h \in Seq(Ticking \cup Moving), NEW t \in Ticking \cup Moving,
         NEW old, NEW new, NEW a, a = Append(h, t),
         NEW r, r = IF Len(a) > MaxHistory THEN Tail(a) ELSE a
  PROVE  RecordedAs(h, t, r, old, new)
<1>1. PICK n \in Nat : n = Len(h)
  OBVIOUS
<1>2. /\ a \in Seq(Ticking \cup Moving) /\ Len(a) = n + 1 /\ DOMAIN a = 1 .. n + 1
      /\ DOMAIN h = 1 .. n /\ a[n + 1] = t /\ \A i \in 1 .. n : a[i] = h[i]
  BY <1>1
<1>3. ASSUME HistoryFits(h, old), t.before = old, Stands(t, new) PROVE HistoryFits(a, new)
  <2> SUFFICES ASSUME NEW i \in 1 .. n + 1
               PROVE  Stands(a[i], IF i = n + 1 THEN new ELSE a[i + 1].before)
    BY <1>2 DEF HistoryFits
  <2>1. CASE i = n + 1
    BY <1>2, <1>3, <2>1
  <2>2. CASE i = n /\ n # n + 1
    <3>1. Stands(h[i], old) /\ a[i] = h[i] /\ a[i + 1] = t
      BY <1>1, <1>2, <1>3, <2>2 DEF HistoryFits
    <3> QED BY <1>3, <2>2, <3>1
  <2>3. CASE i \in 1 .. n - 1
    <3>1. i \in 1 .. n /\ i + 1 \in 1 .. n /\ i # n /\ i # n + 1
      BY <1>1, <2>3
    <3>2. Stands(h[i], h[i + 1].before) /\ a[i] = h[i] /\ a[i + 1] = h[i + 1]
      BY <1>1, <1>2, <1>3, <3>1 DEF HistoryFits
    <3> QED BY <3>1, <3>2
  <2> QED BY <1>1, <2>1, <2>2, <2>3
<1>4. CASE r = a
  BY <1>2, <1>3, <1>4 DEF RecordedAs
<1>5. CASE r = Tail(a)
  <2>1. /\ r \in Seq(Ticking \cup Moving) /\ Len(r) = n /\ DOMAIN r = 1 .. n
        /\ \A i \in 1 .. n : r[i] = a[i + 1]
    BY <1>1, <1>2, <1>5
  <2>2. ASSUME HistoryFits(a, new) PROVE HistoryFits(r, new)
    <3> SUFFICES ASSUME NEW i \in 1 .. n
                 PROVE  Stands(r[i], IF i = n THEN new ELSE r[i + 1].before)
      BY <2>1 DEF HistoryFits
    <3>1. i + 1 \in 1 .. n + 1 /\ r[i] = a[i + 1]
      BY <1>1, <2>1
    <3>2. Stands(a[i + 1], IF i + 1 = n + 1 THEN new ELSE a[i + 1 + 1].before)
      BY <1>2, <2>2, <3>1 DEF HistoryFits
    <3>3. CASE i = n
      BY <3>1, <3>2, <3>3
    <3>4. CASE i # n
      <4>1. i + 1 \in 1 .. n /\ i + 1 # n + 1
        BY <1>1, <3>4
      <4>2. r[i + 1] = a[i + 1 + 1]
        BY <2>1, <4>1
      <4> QED BY <3>1, <3>2, <3>4, <4>1, <4>2
    <3> QED BY <3>3, <3>4
  <2> QED BY <1>3, <2>1, <2>2 DEF RecordedAs
<1> QED BY <1>4, <1>5

(* A tick of one item of a text                                              *)
TickedItem(text, new, at) ==
  /\ new \in Text /\ DOMAIN new = DOMAIN text /\ Len(new) = Len(text)
  /\ new[at] = P!Ticked(text[at]) /\ text[at] \in Item
  /\ new[at].done \in BOOLEAN /\ text[at].done \in BOOLEAN
  /\ \A i \in DOMAIN text : i # at => new[i] = text[i]
  /\ [text EXCEPT ![at].done = new[at].done] = new
  /\ at \in Nat \ {0}

LEMMA TickedText ==
  ASSUME NEW text \in Text, NEW at \in DOMAIN text,
         NEW new, new = [text EXCEPT ![at] = P!Ticked(@)]
  PROVE  TickedItem(text, new, at)
<1>1. text \in Seq(Item) /\ Len(text) \in Nat /\ DOMAIN text = 1 .. Len(text)
  BY DEF Text
<1>2. text[at] \in Item
  BY <1>1
<1>3. PICK x : x = P!Ticked(text[at])
  OBVIOUS
<1>4. x \in Item /\ x = [text[at] EXCEPT !.done = ~@]
  <2>1. x = [text[at] EXCEPT !.done = ~@]
    BY <1>3 DEF P!Ticked
  <2> QED BY <1>2, <2>1 DEF Item
<1>5. new = [text EXCEPT ![at] = x]
  BY <1>3
<1>6. new \in Seq(Item) /\ DOMAIN new = DOMAIN text /\ Len(new) = Len(text)
  BY <1>1, <1>4, <1>5
<1>7. new[at] = x /\ \A i \in DOMAIN text : i # at => new[i] = text[i]
  BY <1>5
<1>8. x.done \in BOOLEAN /\ text[at].done \in BOOLEAN /\ [text[at] EXCEPT !.done = x.done] = x
  BY <1>2, <1>4 DEF Item
<1>9. [text EXCEPT ![at].done = x.done] = new
  BY <1>5, <1>8
<1> QED BY <1>1, <1>2, <1>3, <1>6, <1>7, <1>8, <1>9 DEF Text, TickedItem

(* The browser ticks the box of an element.                                  *)
TickedAs(p, r, i) ==
  /\ r \in PageType /\ DOMAIN r.dom = DOMAIN p.dom /\ Len(r.dom) = Len(p.dom)
  /\ r.dom[i].item = P!Ticked(p.dom[i].item)
  /\ \A k \in DOMAIN p.dom : r.dom[k].entry = p.dom[k].entry
                             /\ (k # i => r.dom[k].item = p.dom[k].item)
  /\ r.source = p.source /\ r.meta = p.meta /\ r.cut = p.cut
  /\ r.busy = p.busy /\ r.known = p.known /\ r.live = p.live /\ r.job = p.job /\ r.dead = p.dead
  /\ r.request = p.request /\ r.apply = p.apply /\ r.part = p.part /\ r.due = p.due
  /\ r.flaws = p.flaws

LEMMA TickedPage ==
  ASSUME NEW p \in PageType, NEW i \in DOMAIN p.dom,
         NEW r, r = [p EXCEPT !.dom[i].item = P!Ticked(@)]
  PROVE  TickedAs(p, r, i)
<1>1. p.dom \in Seq(Element)
  BY Zenon DEF PageType
<1>2. p.dom[i] \in Element /\ DOMAIN p.dom = 1 .. Len(p.dom) /\ Len(p.dom) \in Nat
  BY <1>1
<1>3. PICK y : y = P!Ticked(p.dom[i].item)
  OBVIOUS
<1>4. y \in Item
  BY <1>2, <1>3 DEF P!Ticked, Item, Element
<1>5. PICK x : x = [p.dom[i] EXCEPT !.item = y]
  OBVIOUS
<1>6. x \in Element /\ x.item = y /\ x.entry = p.dom[i].entry
  BY <1>2, <1>4, <1>5 DEF Element
<1>7. PICK d : d = [p.dom EXCEPT ![i] = x]
  OBVIOUS
<1>8. d \in Seq(Element) /\ DOMAIN d = DOMAIN p.dom /\ Len(d) = Len(p.dom)
  BY <1>1, <1>2, <1>6, <1>7
<1>9. d[i] = x /\ \A k \in DOMAIN p.dom : k # i => d[k] = p.dom[k]
  BY <1>7
<1>10. \A k \in DOMAIN p.dom : d[k].entry = p.dom[k].entry /\ (k # i => d[k].item = p.dom[k].item)
  BY <1>6, <1>9
<1>11. r = [p EXCEPT !.dom = d]
  BY Zenon, <1>3, <1>5, <1>7 DEF PageType
<1>12. r \in PageType /\ r.dom = d
  BY ZenonT(60), <1>8, <1>11 DEF PageType
<1>13. /\ r.source = p.source /\ r.meta = p.meta /\ r.cut = p.cut
       /\ r.busy = p.busy /\ r.known = p.known /\ r.live = p.live /\ r.job = p.job /\ r.dead = p.dead
       /\ r.request = p.request /\ r.apply = p.apply /\ r.part = p.part /\ r.due = p.due
       /\ r.flaws = p.flaws
  BY Zenon, <1>11 DEF PageType
<1> QED BY <1>3, <1>6, <1>8, <1>9, <1>10, <1>12, <1>13 DEF TickedAs

(* An edit through the preview clears the delay too.                         *)
LEMMA EditedPage ==
  ASSUME NEW p \in PageType, NEW visible \in BOOLEAN,
         NEW r, r = [P!SourceInput(p, visible) EXCEPT !.due = @ \ {"delay"}]
  PROVE  InputAs(p, r, FALSE)
<1>1. PICK q : q = P!SourceInput(p, visible)
  OBVIOUS
<1>2. InputAs(p, q, visible)
  BY <1>1, InputPage
<1>3. q \in PageType
  BY <1>2 DEF InputAs
<1>4. PICK due \in SUBSET {"delay", "stray", "frame"} : due = q.due \ {"delay"}
  BY Zenon, <1>3 DEF PageType
<1>5. r = [q EXCEPT !.due = due]
  BY Zenon, <1>1, <1>3, <1>4 DEF PageType
<1>6. /\ r \in PageType /\ r.request = q.request /\ r.apply = q.apply /\ r.part = q.part
      /\ r.job = q.job /\ r.busy = q.busy /\ r.dom = q.dom /\ r.source = q.source
      /\ r.meta = q.meta /\ r.cut = q.cut /\ r.live = q.live /\ r.dead = q.dead
      /\ r.known = q.known /\ r.flaws = q.flaws
  BY <1>3, <1>5, ZenonT(60) DEF PageType
<1>7. PartFits(r) /\ (PageSound(q) => PageSound(r))
  BY <1>2, <1>6, SameFits, ZenonT(60) DEF InputAs, SameShown
<1> QED BY <1>2, <1>6, <1>7 DEF InputAs

LEMMA TickStep ==
  ASSUME PreviewInv, NEW i, P!Tick(i)
  PROVE  PreviewInv'
<1>1. PICK p \in PageType, e \in EditorType, x \in EditType :
        p = preview /\ e = editor /\ x = edit /\ PartFits(p)
  BY DEF PreviewInv, PreviewTypes
<1>2. PICK text \in Text, v \in BOOLEAN : text = editor.text /\ v = P!Shows(editor.panel)
  BY PreviewFields DEF PreviewInv
<1>3. i \in DOMAIN p.dom
  BY <1>1 DEF P!Tick
<1>4. PICK at : at = p.dom[i].entry
  OBVIOUS
<1>5. PICK ticked : ticked = [p EXCEPT !.dom[i].item = P!Ticked(@)]
  OBVIOUS
<1>6. TickedAs(p, ticked, i)
  BY <1>3, <1>5, TickedPage
<1>7. PICK new : new = [text EXCEPT ![at] = P!Ticked(@)]
  OBVIOUS
<1>8. PartFits(ticked) /\ ticked \in PageType
  BY <1>1, <1>6 DEF TickedAs, PartFits
<1>9. CASE ~(p.source = text /\ p.known = text /\ at \in DOMAIN text)
  <2>1. PICK flaws \in SUBSET {"cut short", "left inert", "adopted", "box only"} :
          flaws = ticked.flaws \cup {"box only"}
    BY Zenon, <1>8 DEF PageType
  <2>2. PICK r : r = [ticked EXCEPT !.flaws = flaws]
    BY Zenon
  <2>3. r \in PageType /\ r.flaws = flaws /\ r.part = ticked.part /\ r.dom = ticked.dom
    BY ZenonT(60), <1>8, <2>2 DEF PageType
  <2>4. PartFits(r)
    BY Zenon, <1>8, <2>3 DEF PartFits
  <2>5. preview' = [ticked EXCEPT !.flaws = @ \cup {"box only"}] /\ UNCHANGED <<editor, edit>>
    BY Zenon, <1>1, <1>2, <1>4, <1>5, <1>9 DEF P!Tick, P!SourceIsCurrent
  <2>6. preview' = r
    BY Zenon, <1>8, <2>1, <2>2, <2>5 DEF PageType
  <2> QED BY Zenon, <1>1, <2>1, <2>3, <2>4, <2>5, <2>6, EditorStep
<1>10. CASE p.source = text /\ p.known = text /\ at \in DOMAIN text
  <2>1. /\ new \in Text /\ DOMAIN new = DOMAIN text /\ Len(new) = Len(text)
        /\ new[at] = P!Ticked(text[at])
        /\ new[at].done \in BOOLEAN /\ text[at].done \in BOOLEAN
        /\ \A k \in DOMAIN text : k # at => new[k] = text[k]
        /\ [text EXCEPT ![at].done = new[at].done] = new
        /\ at \in Nat \ {0}
    <3>1. TickedItem(text, new, at)
      BY <1>7, <1>10, TickedText
    <3> QED BY <3>1 DEF TickedItem
  <2>2. PICK t : t = [at |-> at, removed |-> text[at].done, inserted |-> new[at].done, before |-> text]
    OBVIOUS
  <2>3. t \in Ticking /\ t.at = at /\ t.removed = text[at].done /\ t.inserted = new[at].done
        /\ t.before = text
    BY <2>1, <2>2 DEF Ticking
  <2>4. PICK missed \in BOOLEAN : missed = (new[at] # ticked.dom[i].item)
    BY Zenon
  <2>5. P!ApplySource(ticked, new, t, missed, TRUE)
    <3>1. P!SourceIsCurrent /\ at \in DOMAIN editor.text
      BY <1>1, <1>2, <1>10 DEF P!SourceIsCurrent
    <3>2. P!ApplySource(ticked, new, [at |-> at, removed |-> text[at].done, inserted |-> new[at].done,
                                    before |-> text], new[at] # ticked.dom[i].item, TRUE)
      BY <1>1, <1>2, <1>4, <1>5, <1>7, <3>1 DEF P!Tick
    <3> QED BY <2>2, <2>4, <3>2
  <2>6. PICK z : z = [P!SourceInput(ticked, v) EXCEPT !.due = @ \ {"delay"}]
    OBVIOUS
  <2>7. InputAs(ticked, z, FALSE)
    BY <1>8, <2>6, EditedPage
  <2>8. PICK r : r = [z EXCEPT !.source = new, !.known = new, !.meta = None]
    OBVIOUS
  <2>9. z \in PageType
    BY <2>7 DEF InputAs
  <2>10. /\ r \in PageType /\ r.source = new /\ r.known = new
         /\ r.request = z.request /\ r.apply = z.apply /\ r.part = z.part
         /\ r.job = z.job /\ r.busy = z.busy /\ r.dom = z.dom /\ r.cut = z.cut
         /\ r.live = z.live /\ r.dead = z.dead /\ r.flaws = z.flaws
    BY ZenonT(60), <2>1, <2>8, <2>9 DEF PageType
  <2>11. /\ r.request = None /\ r.apply = None /\ r.part = None /\ r.job = None
         /\ r.busy = FALSE /\ r.dom = ticked.dom /\ r.cut = p.cut /\ r.flaws = p.flaws
    BY <1>6, <2>7, <2>10 DEF InputAs, TickedAs
  <2>12. PICK a : a = Append(x.history, t)
    OBVIOUS
  <2>13. PICK h : h = IF Len(a) > MaxHistory THEN Tail(a) ELSE a
    OBVIOUS
  <2>14. /\ h \in Seq(Ticking \cup Moving)
         /\ HistoryFits(x.history, text) /\ Stands(t, new) => HistoryFits(h, new)
    <3>1. x.history \in Seq(Ticking \cup Moving) /\ t \in Ticking \cup Moving
      BY <2>3 DEF EditType
    <3>2. RecordedAs(x.history, t, h, text, new)
      BY <2>12, <2>13, <3>1, RecordedEdit
    <3> QED BY <2>3, <3>2 DEF RecordedAs
  <2>15. PICK wrong \in BOOLEAN : wrong = (x.wrong \/ missed)
    BY Zenon
  <2>16. PICK y : y = [history |-> h, drag |-> None, wrong |-> wrong]
    OBVIOUS
  <2>17. y \in EditType /\ y.history = h /\ y.drag = None /\ y.wrong = wrong
    BY <2>14, <2>16 DEF EditType
  <2>18. PICK f : f = [e EXCEPT !.text = new, !.dirty = TRUE]
    OBVIOUS
  <2>19. f \in EditorType /\ f.text = new /\ f.panel = e.panel
    BY <2>1, <2>18 DEF EditorType
  <2>20. preview' = r /\ editor' = f /\ edit' = y
    <3>1. P!SourceIsCurrent
      BY <1>1, <1>2, <1>10 DEF P!SourceIsCurrent
    <3>2. preview' = r
      BY <1>2, <2>5, <2>6, <2>8, <3>1 DEF P!ApplySource, P!Visible
    <3>3. editor' = f
      BY <1>1, <2>5, <2>18 DEF P!ApplySource
    <3>4. edit' = y
      BY <1>1, <2>5, <2>12, <2>13, <2>15, <2>16 DEF P!ApplySource
    <3> QED BY <3>2, <3>3, <3>4
  <2>21. ASSUME r.flaws = {} PROVE PreviewSound(r, f, y)
    <3>1. PreviewSound(p, e, x)
      BY <1>1, <2>11, <2>21 DEF PreviewInv
    <3>2. /\ p.cut = FALSE /\ Holds(p.dom, text) /\ Len(p.dom) = Len(text)
          /\ \A k \in DOMAIN p.dom : p.dom[k].entry = k
      BY <1>10, <3>1, CurrentPage DEF PreviewSound, PageSound
    <3>3. at = i
      BY <1>3, <1>4, <3>2
    <3>4. ~missed
      <4>1. ticked.dom[i].item = P!Ticked(p.dom[i].item) /\ p.dom[i].item = text[i]
        BY <1>3, <1>6, <3>2 DEF TickedAs, Holds
      <4> QED BY <2>1, <2>4, <3>3, <4>1
    <3>5. Holds(ticked.dom, new) /\ Len(ticked.dom) = Len(new)
      <4> SUFFICES ASSUME NEW k \in DOMAIN p.dom PROVE k \in DOMAIN new /\ ticked.dom[k].item = new[k]
        BY <1>6, <2>1, <3>2 DEF TickedAs, Holds
      <4>1. k \in DOMAIN text /\ p.dom[k].item = text[k]
        BY <3>2 DEF Holds
      <4>2. CASE k = i
        BY <1>6, <2>1, <3>3, <4>1, <4>2 DEF TickedAs
      <4>3. CASE k # i
        BY <1>6, <2>1, <3>3, <4>1, <4>3 DEF TickedAs
      <4> QED BY <4>2, <4>3
    <3>6. \A k \in DOMAIN ticked.dom : ticked.dom[k].entry = k
      BY <1>6, <3>2 DEF TickedAs
    <3>7. PageSound(r)
      BY <2>10, <2>11, <3>2, <3>5, <3>6 DEF PageSound, PageFits, RequestFits, Current
    <3>8. Follows(r, new)
      BY <2>10, <2>11, <3>2 DEF Follows
    <3>9. Stands(t, new)
      <4>1. t.at # 0
        BY <2>1, <2>3
      <4>2. Result(t) = new
        BY <2>1, <2>3, <4>1 DEF Result
      <4> QED BY <1>10, <2>3, <4>1, <4>2 DEF Stands
    <3>10. HistoryFits(h, new)
      BY <1>1, <1>2, <2>14, <3>1, <3>9 DEF PreviewSound
    <3>11. ~y.wrong
      BY <2>15, <2>17, <3>1, <3>4 DEF PreviewSound
    <3> QED BY <2>17, <2>19, <3>7, <3>8, <3>10, <3>11 DEF PreviewSound, DragFits
  <2>22. PartFits(r)
    BY <2>11 DEF PartFits, Current
  <2> QED BY <2>10, <2>17, <2>19, <2>20, <2>21, <2>22, EditorStep
<1> QED BY <1>9, <1>10

LEMMA MovedText ==
  ASSUME NEW text \in Text, NEW from \in DOMAIN text, NEW to \in DOMAIN text, from # to,
         NEW after
  PROVE  P!Moved(text, from, to, after) \in Text
<1>1. PICK n \in Nat : n = Len(text) /\ DOMAIN text = 1 .. n /\ \A i \in 1 .. n : text[i] \in Item
  BY DEF Text
<1>2. PICK others : others = [i \in 1 .. (Len(text) - 1) |-> IF i < from THEN text[i] ELSE text[i + 1]]
  OBVIOUS
<1>3. PICK gap : gap = (IF to > from THEN to - 1 ELSE to) - (IF after THEN 0 ELSE 1)
  OBVIOUS
<1>4. n - 1 \in Nat /\ gap \in 0 .. (n - 1)
  BY <1>1, <1>3
<1>5. others \in Seq(Item) /\ Len(others) = n - 1
  <2>1. \A i \in 1 .. (n - 1) : others[i] \in Item
    BY <1>1, <1>2
  <2>2. others \in [1 .. (n - 1) -> Item]
    BY <1>1, <1>2, <2>1
  <2> QED BY <1>4, <2>2
<1>6. SubSeq(others, 1, gap) \in Seq(Item)
  BY <1>4, <1>5
<1>7. SubSeq(others, gap + 1, n - 1) \in Seq(Item)
  BY <1>4, <1>5
<1>8. <<text[from]>> \in Seq(Item)
  BY <1>1
<1>9. P!Moved(text, from, to, after)
        = SubSeq(others, 1, gap) \o <<text[from]>> \o SubSeq(others, gap + 1, n - 1)
  BY Zenon, <1>2, <1>3, <1>5 DEF P!Moved
<1> QED BY <1>6, <1>7, <1>8, <1>9 DEF Text

LEMMA DropStep ==
  ASSUME PreviewInv, P!Drop
  PROVE  PreviewInv'
<1>1. PICK p \in PageType, e \in EditorType, x \in EditType :
        p = preview /\ e = editor /\ x = edit /\ PartFits(p)
  BY DEF PreviewInv, PreviewTypes
<1>2. PICK text \in Text, v \in BOOLEAN : text = editor.text /\ v = P!Shows(editor.panel)
  BY PreviewFields DEF PreviewInv
<1>3. PICK d \in Dragged : d = x.drag /\ x.drag # None
  BY <1>1 DEF P!Drop, EditType
<1>4. PICK t \in Target : t = d.target /\ d.target # None
  BY <1>1, <1>3 DEF P!Drop, Dragged
<1>5. PICK new : new = P!Moved(text, d.from, t.to, t.after)
  OBVIOUS
<1>6. PICK can \in BOOLEAN :
        can <=> /\ p.source = text /\ p.known = text /\ {d.from, t.to} \subseteq DOMAIN text
                /\ d.from # t.to /\ new # text
  BY Zenon
<1>7. CASE ~can
  <2>1. edit' = [edit EXCEPT !.drag = None] /\ UNCHANGED <<editor, preview>>
    BY <1>1, <1>2, <1>3, <1>4, <1>5, <1>6, <1>7 DEF P!Drop, P!SourceIsCurrent
  <2> QED BY <2>1, LetGoStep
<1>8. CASE can
  <2>1. new \in Text
    BY <1>5, <1>6, <1>8, MovedText
  <2>2. PICK c : c = [at |-> 0, removed |-> text, inserted |-> new, before |-> text]
    OBVIOUS
  <2>3. c \in Moving /\ c.at = 0 /\ c.removed = text /\ c.inserted = new /\ c.before = text
    BY <2>1, <2>2 DEF Moving
  <2>4. PICK missed \in BOOLEAN :
          missed = (text[d.from].name # d.name \/ text[t.to].name # t.name)
    BY Zenon
  <2>5. P!ApplySource(p, new, c, missed, FALSE)
    <3>1. P!ApplySource(p, new, [at |-> 0, removed |-> text, inserted |-> new, before |-> text],
                        text[d.from].name # d.name \/ text[t.to].name # t.name, FALSE)
      BY <1>1, <1>2, <1>3, <1>4, <1>5, <1>6, <1>8 DEF P!Drop, P!SourceIsCurrent
    <3> QED BY <2>2, <2>4, <3>1
  <2>6. PICK z : z = [P!SourceInput(p, v) EXCEPT !.due = @ \ {"delay"}]
    OBVIOUS
  <2>7. InputAs(p, z, FALSE)
    BY <2>6, EditedPage
  <2>8. PICK r : r = P!RequestPreviewRender(z, new, v, TRUE)
    OBVIOUS
  <2>9. RequestedAs(z, r, new, v)
    BY <2>1, <2>7, <2>8, RequestedPage DEF InputAs
  <2>10. PICK a : a = Append(x.history, c)
    OBVIOUS
  <2>11. PICK h : h = IF Len(a) > MaxHistory THEN Tail(a) ELSE a
    OBVIOUS
  <2>12. RecordedAs(x.history, c, h, text, new)
    <3>1. x.history \in Seq(Ticking \cup Moving) /\ c \in Ticking \cup Moving
      BY <2>3 DEF EditType
    <3> QED BY <2>10, <2>11, <3>1, RecordedEdit
  <2>13. PICK wrong \in BOOLEAN : wrong = (x.wrong \/ missed)
    BY Zenon
  <2>14. PICK y : y = [history |-> h, drag |-> None, wrong |-> wrong]
    OBVIOUS
  <2>15. y \in EditType /\ y.history = h /\ y.drag = None /\ y.wrong = wrong
    <3>1. h \in Seq(Ticking \cup Moving)
      BY <2>12 DEF RecordedAs
    <3> QED BY <2>14, <3>1 DEF EditType
  <2>16. PICK f : f = [e EXCEPT !.text = new, !.dirty = TRUE]
    OBVIOUS
  <2>17. f \in EditorType /\ f.text = new /\ f.panel = e.panel
    BY <2>1, <2>16 DEF EditorType
  <2>18. preview' = r /\ editor' = f /\ edit' = y
    <3>1. preview' = r
      BY <1>2, <2>5, <2>6, <2>8 DEF P!ApplySource, P!Visible
    <3>2. editor' = f
      BY <1>1, <2>5, <2>16 DEF P!ApplySource
    <3>3. edit' = y
      BY <1>1, <2>5, <2>10, <2>11, <2>13, <2>14 DEF P!ApplySource
    <3> QED BY <3>1, <3>2, <3>3
  <2>19. ASSUME r.flaws = {} PROVE PreviewSound(r, f, y)
    <3>1. PreviewSound(p, e, x)
      BY <1>1, <2>7, <2>9, <2>19 DEF PreviewInv, InputAs, RequestedAs
    <3>2. PageSound(r) /\ (v => Follows(r, new))
      BY <2>7, <2>9, <2>19, <3>1 DEF PreviewSound, InputAs, RequestedAs
    <3>3. Named(text, d.from, d.name) /\ Named(text, t.to, t.name)
      BY <1>1, <1>2, <1>3, <1>4, <3>1 DEF PreviewSound, DragFits
    <3>4. ~y.wrong
      BY <2>4, <2>13, <2>15, <3>1, <3>3 DEF PreviewSound, Named
    <3>5. Stands(c, new)
      BY <2>3 DEF Stands, Result
    <3>6. HistoryFits(h, new)
      BY <1>1, <1>2, <2>3, <2>12, <3>1, <3>5 DEF PreviewSound, RecordedAs
    <3>7. P!Shows(f.panel) => Follows(r, f.text)
      BY <1>1, <1>2, <2>17, <3>2
    <3> QED BY <2>15, <2>17, <3>2, <3>4, <3>6, <3>7 DEF PreviewSound, DragFits
  <2> QED BY <2>9, <2>15, <2>17, <2>18, <2>19, EditorStep DEF RequestedAs
<1> QED BY <1>7, <1>8

LEMMA UndoStep ==
  ASSUME PreviewInv, P!Undo
  PROVE  PreviewInv'
<1>1. PICK p \in PageType, e \in EditorType, x \in EditType :
        p = preview /\ e = editor /\ x = edit /\ PartFits(p)
  BY DEF PreviewInv, PreviewTypes
<1>2. PICK text \in Text, v \in BOOLEAN : text = editor.text /\ v = P!Shows(editor.panel)
  BY PreviewFields DEF PreviewInv
<1>3. PICK h \in Seq(Ticking \cup Moving) : h = x.history /\ h # <<>>
  BY <1>1 DEF P!Undo, EditType
<1>4. PICK n \in Nat : n = Len(h) /\ n # 0 /\ DOMAIN h = 1 .. n
  BY <1>3
<1>5. PICK last \in Ticking \cup Moving : last = h[n]
  BY <1>4
<1>6. PICK older : older = SubSeq(h, 1, n - 1)
  OBVIOUS
<1>7. /\ older \in Seq(Ticking \cup Moving) /\ Len(older) = n - 1 /\ DOMAIN older = 1 .. (n - 1)
      /\ \A i \in 1 .. (n - 1) : older[i] = h[i]
  BY <1>4, <1>6
<1>8. PICK new : new = IF last.at = 0 THEN last.removed
                       ELSE [text EXCEPT ![last.at].done = last.removed]
  OBVIOUS
<1>9. PICK stands \in BOOLEAN :
        stands <=> IF last.at = 0 THEN last.inserted = text
                   ELSE last.at \in DOMAIN text /\ text[last.at].done = last.inserted
  BY Zenon
<1>10. CASE ~stands
  <2>1. PICK y : y = [x EXCEPT !.history = <<>>]
    OBVIOUS
  <2>2. y \in EditType /\ y.history = <<>> /\ y.drag = x.drag /\ y.wrong = x.wrong
    <3>1. <<>> \in Seq(Ticking \cup Moving)
      OBVIOUS
    <3> QED BY <2>1, <3>1 DEF EditType
  <2>3. preview' = p /\ editor' = e /\ edit' = y
    BY <1>1, <1>2, <1>3, <1>4, <1>5, <1>9, <1>10, <2>1 DEF P!Undo
  <2>4. p.flaws = {} => PreviewSound(p, e, y)
    BY <1>1, <2>2 DEF PreviewInv, PreviewSound, HistoryFits
  <2> QED BY <1>1, <2>2, <2>3, <2>4, EditorStep
<1>11. CASE stands
  <2>1. new \in Text
    <3>1. CASE last.at = 0
      BY <1>5, <1>8, <3>1 DEF Ticking, Moving
    <3>2. CASE last.at # 0
      <4>1. last.removed \in BOOLEAN /\ last.at \in DOMAIN text
        BY <1>5, <1>9, <1>11, <3>2 DEF Ticking, Moving
      <4>2. text \in Seq(Item)
        BY DEF Text
      <4>3. text[last.at] \in Item
        BY <4>1, <4>2
      <4>4. PICK y : y = [text[last.at] EXCEPT !.done = last.removed]
        OBVIOUS
      <4>5. y \in Item
        BY <4>1, <4>3, <4>4 DEF Item
      <4>6. new = [text EXCEPT ![last.at] = y]
        BY <1>8, <3>2, <4>4
      <4>7. DOMAIN text = 1 .. Len(text) /\ Len(text) \in Nat
        BY <4>2
      <4>8. new \in Seq(Item)
        BY <4>1, <4>2, <4>5, <4>6, <4>7
      <4> QED BY <4>8 DEF Text
    <3> QED BY <3>1, <3>2
  <2>2. PICK z : z = [P!SourceInput(p, v) EXCEPT !.due = @ \ {"delay"}]
    OBVIOUS
  <2>3. InputAs(p, z, FALSE)
    BY <2>2, EditedPage
  <2>4. PICK r : r = P!RequestPreviewRender(z, new, v, TRUE)
    OBVIOUS
  <2>5. RequestedAs(z, r, new, v)
    BY <2>1, <2>3, <2>4, RequestedPage DEF InputAs
  <2>6. PICK wrong \in BOOLEAN : wrong = (x.wrong \/ new # last.before)
    BY Zenon
  <2>7. PICK y : y = [history |-> older, drag |-> None, wrong |-> wrong]
    OBVIOUS
  <2>8. y \in EditType /\ y.history = older /\ y.drag = None /\ y.wrong = wrong
    BY <1>7, <2>7 DEF EditType
  <2>9. PICK f : f = [e EXCEPT !.text = new, !.dirty = TRUE]
    OBVIOUS
  <2>10. f \in EditorType /\ f.text = new /\ f.panel = e.panel
    BY <2>1, <2>9 DEF EditorType
  <2>11. preview' = r /\ editor' = f /\ edit' = y
    <3>1. /\ editor' = [editor EXCEPT !.text = new, !.dirty = TRUE]
          /\ edit' = [history |-> older, drag |-> None, wrong |-> edit.wrong \/ new # last.before]
          /\ preview' = P!RequestPreviewRender(
                           [P!SourceInput(preview, P!Visible) EXCEPT !.due = @ \ {"delay"}],
                           new, P!Visible, TRUE)
      BY <1>1, <1>2, <1>3, <1>4, <1>5, <1>6, <1>8, <1>9, <1>11 DEF P!Undo
    <3> QED BY <1>1, <1>2, <2>2, <2>4, <2>6, <2>7, <2>9, <3>1 DEF P!Visible
  <2>12. ASSUME r.flaws = {} PROVE PreviewSound(r, f, y)
    <3>1. PreviewSound(p, e, x)
      BY <1>1, <2>3, <2>5, <2>12 DEF PreviewInv, InputAs, RequestedAs
    <3>2. PageSound(r) /\ (v => Follows(r, new))
      BY <2>3, <2>5, <2>12, <3>1 DEF PreviewSound, InputAs, RequestedAs
    <3>3. HistoryFits(h, text)
      BY <1>1, <1>2, <1>3, <3>1 DEF PreviewSound
    <3>4. Stands(last, text)
      BY <1>4, <1>5, <3>3 DEF HistoryFits
    <3>5. new = last.before
      <4>1. CASE last.at = 0
        BY <1>8, <3>4, <4>1 DEF Stands
      <4>2. CASE last.at # 0
        <5>1. /\ text = [last.before EXCEPT ![last.at].done = last.inserted]
              /\ last.at \in DOMAIN last.before /\ last.before[last.at].done = last.removed
          BY <3>4, <4>2 DEF Stands, Result
        <5>2. PICK b \in Text : b = last.before
          BY <1>5 DEF Ticking, Moving
        <5>3. new = [text EXCEPT ![last.at].done = last.removed]
          BY <1>8, <4>2
        <5>4. b \in Seq(Item) /\ b[last.at] \in Item
          BY <5>1, <5>2 DEF Text
        <5>5. PICK w : w = [b[last.at] EXCEPT !.done = last.inserted]
          OBVIOUS
        <5>6. [w EXCEPT !.done = last.removed] = b[last.at]
          BY <5>1, <5>2, <5>4, <5>5 DEF Item
        <5>7. text = [b EXCEPT ![last.at] = w]
          BY <5>1, <5>2, <5>5
        <5>8. new = [b EXCEPT ![last.at] = b[last.at]]
          BY <5>1, <5>2, <5>3, <5>6, <5>7
        <5> QED BY <5>2, <5>4, <5>8
      <4> QED BY <4>1, <4>2
    <3>6. HistoryFits(older, new)
      <4> SUFFICES ASSUME NEW i \in 1 .. (n - 1)
                   PROVE  Stands(older[i], IF i = n - 1 THEN new ELSE older[i + 1].before)
        BY <1>7 DEF HistoryFits
      <4>1. i \in 1 .. n /\ i # n /\ older[i] = h[i]
        BY <1>4, <1>7
      <4>2. Stands(h[i], h[i + 1].before)
        BY <1>4, <3>3, <4>1 DEF HistoryFits
      <4>3. CASE i = n - 1
        BY <1>4, <1>5, <3>5, <4>1, <4>2, <4>3
      <4>4. CASE i # n - 1
        <5>1. i + 1 \in 1 .. (n - 1)
          BY <1>4, <4>4
        <5> QED BY <1>7, <4>1, <4>2, <4>4, <5>1
      <4> QED BY <4>3, <4>4
    <3>7. ~y.wrong
      BY <2>6, <2>8, <3>1, <3>5 DEF PreviewSound
    <3>8. P!Shows(f.panel) => Follows(r, f.text)
      BY <1>1, <1>2, <2>10, <3>2
    <3> QED BY <2>8, <2>10, <3>2, <3>6, <3>7, <3>8 DEF PreviewSound, DragFits
  <2> QED BY <2>5, <2>8, <2>10, <2>11, <2>12, EditorStep DEF RequestedAs
<1> QED BY <1>10, <1>11

LEMMA PreviewStart == P!Init => PreviewInv
<1> SUFFICES ASSUME P!Init PROVE PreviewInv
  OBVIOUS
<1>1. <<>> \in Seq(Element) /\ <<>> \in Text /\ <<>> \in Seq(Ticking \cup Moving)
  BY DEF Text
<1>2. /\ preview.dom = <<>> /\ preview.source = None /\ preview.cut = FALSE /\ preview.busy = FALSE
      /\ preview.known = None /\ preview.job = None /\ preview.request = None
      /\ preview.apply = None /\ preview.part = None
      /\ editor.text = <<>> /\ edit.history = <<>> /\ edit.drag = None /\ edit.wrong = FALSE
  BY DEF P!Init
<1>3. preview \in PageType
  BY <1>1 DEF P!Init, PageType
<1>4. editor \in EditorType
  BY <1>1 DEF P!Init, EditorType, P!Panels
<1>5. edit \in EditType
  BY <1>1 DEF P!Init, EditType
<1>6. PartFits(preview)
  BY <1>2 DEF PartFits, Current
<1>7. PageSound(preview)
  BY <1>2 DEF PageSound, PageFits, RequestFits, Current
<1>8. Follows(preview, editor.text)
  BY <1>1, <1>2, PreviewNone DEF Follows
<1>9. DragFits(edit.drag, preview, editor.text) /\ HistoryFits(edit.history, editor.text)
  BY <1>2 DEF DragFits, HistoryFits
<1> QED BY <1>2, <1>3, <1>4, <1>5, <1>6, <1>7, <1>8, <1>9
        DEF PreviewInv, PreviewTypes, PreviewSound

LEMMA PreviewStep == PreviewInv /\ P!Next => PreviewInv'
<1> SUFFICES ASSUME PreviewInv, P!Next PROVE PreviewInv'
  OBVIOUS
<1>1. CASE \E timer \in {"delay", "stray", "frame"} : P!Delay(timer)
  BY <1>1, DelayStep
<1>2. CASE \E how \in {"blocks", "long", "chunks", "html"} : P!Answer(how)
  BY <1>2, AnswerStep
<1>3. CASE \E text \in P!Texts : P!Type(text) \/ P!Adopt(text)
  BY <1>3, TypeStep, AdoptStep, WrittenTexts
<1>4. CASE \E to \in P!Panels : P!ChangePanel(to)
  BY <1>4, ChangePanelStep
<1>5. CASE \E text \in P!Texts, fresh \in BOOLEAN : P!Open(text, fresh)
  BY <1>5, OpenNoteStep, WrittenTexts
<1>6. CASE \E i \in 1 .. P!Cardinality(Names) : P!Tick(i) \/ P!PickUp(i)
  BY <1>6, TickStep, PickUpStep
<1>7. CASE \E j \in 1 .. P!Cardinality(Names), after \in BOOLEAN : P!Hover(j, after)
  BY <1>7, HoverStep
<1>8. CASE P!LetGo
  BY <1>8, LetGoStep DEF P!LetGo
<1> QED BY <1>1, <1>2, <1>3, <1>4, <1>5, <1>6, <1>7, <1>8, PostStep, WorkerFailsStep,
           ApplyPageStep, RenderBatchStep, CacheBatchStep, SavedStep, DropStep, UndoStep
        DEF P!Next

PreviewClient == active = "preview" => PreviewInv

LEMMA PreviewHolds == ClientSpec => []PreviewClient
<1>1. ClientInit => PreviewClient
  BY PreviewStart DEF ClientInit, PreviewClient
<1>2. PreviewClient /\ [ClientNext]_vars => PreviewClient'
  <2> SUFFICES ASSUME PreviewClient, [ClientNext]_vars, active' = "preview"
               PROVE  PreviewInv'
    BY DEF PreviewClient
  <2>1. active = "preview" /\ PreviewInv
    BY DEF PreviewClient, ClientNext, vars
  <2>2. CASE P!Next
    BY <2>1, <2>2, PreviewStep
  <2>3. CASE UNCHANGED previewVars
    BY <2>1, <2>3 DEF previewVars, PreviewInv, PreviewTypes
  <2> QED BY <2>1, <2>2, <2>3 DEF ClientNext, vars
<1> QED BY <1>1, <1>2, PTL DEF ClientSpec

(* A visible preview with nothing left to do shows the editor's text, is not *)
(* marked busy and, in an interactive view, takes edits, whatever answers,   *)
(* batches, slices and timers came in between, as long as none of the        *)
(* recorded flaws occurred (app.js requestPreviewRender,                     *)
(* preview-renderer.js render, preview-model.js commit).                     *)
THEOREM PreviewShowsSourceHolds == ClientSpec => []PreviewShowsSource
<1>1. PreviewClient => PreviewShowsSource
  <2>1. ASSUME PreviewInv PROVE P!PreviewShowsSource
    <3> SUFFICES ASSUME P!Visible, P!Resting, preview.flaws = {}
                 PROVE  /\ [i \in DOMAIN preview.dom |-> preview.dom[i].item] = editor.text
                        /\ ~preview.busy
                        /\ P!Interactive(editor.panel) /\ editor.text # <<>> => P!SourceIsCurrent
      BY DEF P!PreviewShowsSource
    <3>1. PICK p \in PageType, text \in Text : p = preview /\ text = editor.text
      BY <2>1, PreviewFields DEF PreviewInv
    <3>2. PageFits(p) /\ Follows(p, text)
      BY <2>1, <3>1 DEF PreviewInv, PreviewSound, PageSound, P!Visible
    <3>3. /\ p.request = None /\ p.part = None /\ p.job = None /\ p.due = {}
          /\ ~Answered(p, text) /\ ~Coming(p, text)
      BY <3>1 DEF P!Resting, Answered, Coming, Current
    <3>4. ~p.busy /\ (p.source = text /\ text # <<>> => p.known = text)
      BY <3>2, <3>3 DEF Follows
    <3>5. CASE p.source = text /\ ~p.cut
      <4>1. Holds(p.dom, text) /\ Len(p.dom) = Len(text)
        BY <3>2, <3>5, PreviewNone DEF PageFits
      <4>2. p.dom \in Seq(Element) /\ text \in Seq(Item)
        BY Zenon DEF PageType, Text
      <4>3. DOMAIN p.dom = 1 .. Len(text) /\ DOMAIN text = 1 .. Len(text)
        BY <4>1, <4>2
      <4>4. text = [i \in DOMAIN text |-> text[i]]
        BY <4>2
      <4>5. [i \in DOMAIN p.dom |-> p.dom[i].item] = text
        BY <4>1, <4>3, <4>4 DEF Holds
      <4> QED BY <3>1, <3>4, <3>5, <4>5 DEF P!SourceIsCurrent
    <3>6. CASE text = <<>> /\ p.dom = <<>>
      <4>1. [i \in DOMAIN p.dom |-> p.dom[i].item] = text
        BY <3>6
      <4> QED BY <3>1, <3>4, <3>6, <4>1
    <3> QED BY <3>2, <3>3, <3>5, <3>6 DEF Follows
  <2> QED BY <2>1 DEF PreviewClient, PreviewShowsSource
<1> QED BY <1>1, PreviewHolds, PTL

(* A tick or a drop changes the item that was ticked or dragged on the page, *)
(* and an undo restores the text before it: the ranges are compared with the *)
(* editor's text before they are used (app.js                                *)
(* interactivePreviewSourceIsCurrent, interactive-preview-session.js undo).  *)
THEOREM EditsHitWhatIsShownHolds == ClientSpec => []EditsHitWhatIsShown
<1>1. PreviewClient => EditsHitWhatIsShown
  BY DEF PreviewClient, PreviewInv, PreviewSound, EditsHitWhatIsShown, P!EditsHitWhatIsShown
<1> QED BY <1>1, PreviewHolds, PTL
=============================================================================
