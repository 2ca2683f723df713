------------------------ MODULE SyncScheduling_proofs ------------------------
(***************************************************************************)
(* Tabs sync one at a time, a change that a tab was told of is not         *)
(* forgotten, and a sign-in is not undone by what belongs to the session   *)
(* before it: for any number of tabs and any budget.                       *)
(***************************************************************************)
EXTENDS SyncScheduling, TLAPS

(***************************************************************************)
(* Types                                                                   *)
(***************************************************************************)
State == [cursor : Nat, queue : SUBSET Nat]

Job == [timed : BOOLEAN, requested : BOOLEAN, reconcile : BOOLEAN, pushed : BOOLEAN,
        previous : {Absent} \cup State, session : Nat, revision : Nat, aborted : BOOLEAN,
        synced : BOOLEAN]

Tab == [open : BOOLEAN, visible : BOOLEAN, authRequired : BOOLEAN, signing : BOOLEAN,
        revision : Nat, signed : Nat, credential : {"none", "saving", "waiting", "changing"},
        pc : {"none", "asking", "release"} \cup InFlight, job : Job,
        timer : BOOLEAN, reconcile : BOOLEAN, followUp : BOOLEAN,
        paused : BOOLEAN, failed : BOOLEAN, attention : BOOLEAN,
        events : {"none", "live", "dead"}, subscribed : Nat, hint : Nat, reading : Nat,
        known : Nat, changeTimer : BOOLEAN, changePending : BOOLEAN]

TypeInv ==
  /\ tab \in [Tabs -> Tab]
  /\ store \in State
  /\ leader \in [owner : Tabs \cup {Absent}, fresh : BOOLEAN, locks : BOOLEAN]
  /\ server \in [sequence : Nat, sessions : SUBSET Nat]
  /\ cookie \in Nat
  /\ budget \in [tabs : SUBSET Tabs, locks : BOOLEAN, edits : Nat,
                 changes : Nat, events : Nat, faults : Nat, sessions : Nat]
  /\ lapses \in [outlived : SUBSET Tabs, early : SUBSET Tabs]

(***************************************************************************)
(* Leadership: a tab at work owns the lock or the lease, and nobody else   *)
(* can take it, or the tab outlived it.                                    *)
(***************************************************************************)
LeadsTab(t, x) ==
  /\ ~x.open => x = Closed
  /\ Working(x) => t \in lapses.outlived \/ (leader.owner = t /\ leader.fresh)

(***************************************************************************)
(* Hints: what covers a known change while a tab is attentive. A request   *)
(* covers it that is neither aborted nor of an older sign-in: only such a  *)
(* one leads to the check. A tab that may not sync knows of no change.     *)
(***************************************************************************)
Covered(x) ==
  \/ x.reading = x.known \/ x.timer \/ (x.followUp /\ x.pc # "none")
  \/ x.changeTimer /\ ~Working(x)
  \/ x.pc \in {"asking", "check"}
  \/ x.pc \in Requests /\ ~x.job.aborted /\ x.job.revision = x.revision

HintedTab(x) ==
  /\ x.authRequired \/ x.credential \in {"waiting", "changing"} => x.events = "none" /\ x.known = 0
  /\ Attentive(x) /\ WorkRemains(x) => Covered(x)

(***************************************************************************)
(* Sessions: the valid ones are the latest. Requests and streams that may  *)
(* still undo a sign-in belong to it or to a later one.                    *)
(***************************************************************************)
LatestSessions ==
  \A s \in server.sessions : s <= cookie /\ \A r \in s .. cookie : r \in server.sessions

SignedTab(t, x) ==
  /\ x.signed <= cookie
  /\ x.pc \in Requests => x.job.session <= cookie /\ x.job.revision <= x.revision
  /\ x.events = "live" => x.subscribed <= cookie
  /\ t \notin lapses.early =>
       /\ x.pc \in Requests /\ x.job.revision = x.revision => x.signed <= x.job.session
       /\ x.events = "live" => x.signed <= x.subscribed
       /\ StandsIn(x) => ~x.authRequired

Fits(t, x) == LeadsTab(t, x) /\ HintedTab(x) /\ SignedTab(t, x)

Inv == TypeInv /\ LatestSessions /\ \A t \in Tabs : Fits(t, tab[t])

-----------------------------------------------------------------------------
(* The functions of the coordinator and of the stream: what they return is a *)
(* tab, and what they leave as it was.                                       *)
Kept(x, y) ==
  /\ y.open = x.open /\ y.visible = x.visible /\ y.authRequired = x.authRequired
  /\ y.signing = x.signing /\ y.revision = x.revision /\ y.signed = x.signed
  /\ y.credential = x.credential /\ y.failed = x.failed /\ y.attention = x.attention
  /\ y.reading = x.reading /\ y.known = x.known /\ y.changeTimer = x.changeTimer

Alike(x, y) ==
  /\ Kept(x, y)
  /\ y.events = x.events /\ y.subscribed = x.subscribed

(* schedule leaves a timer or a follow-up behind, if the tab may sync.       *)
LEMMA ScheduleEffect ==
  ASSUME NEW x \in Tab, NEW r \in BOOLEAN, NEW y, y = Schedule(x, r)
  PROVE  /\ y \in Tab
         /\ Alike(x, y) /\ y.paused = x.paused /\ y.pc = x.pc /\ y.job = x.job
         /\ (x.timer => y.timer) /\ (x.followUp => y.followUp)
         /\ CanSync(x) /\ ~x.paused =>
              IF x.pc = "none" THEN x.visible => y.timer ELSE y.followUp
<1>1. CASE ~CanSync(x) \/ x.paused
  <2>1. y = x
    BY <1>1 DEF Schedule
  <2>2. QED
    BY <2>1, <1>1 DEF Alike, Kept
<1>2. CASE CanSync(x) /\ ~x.paused /\ x.pc # "none"
  <2>1. y = [x EXCEPT !.reconcile = @ \/ r, !.followUp = TRUE]
    BY <1>2 DEF Schedule
  <2>2. QED
    BY <2>1, <1>2 DEF Alike, Kept, Tab
<1>3. CASE CanSync(x) /\ ~x.paused /\ x.pc = "none"
  <2>1. y = [x EXCEPT !.reconcile = @ \/ r, !.timer = @ \/ x.visible]
    BY <1>3 DEF Schedule
  <2>2. QED
    BY <2>1, <1>3 DEF Alike, Kept, Tab
<1>4. QED
  BY <1>1, <1>2, <1>3

(* now asks for leadership, or leaves a follow-up behind.                    *)
LEMMA NowEffect ==
  ASSUME NEW x \in Tab, NEW r \in BOOLEAN, NEW d \in BOOLEAN, NEW y, y = Now(x, r, d)
  PROVE  /\ y \in Tab
         /\ Alike(x, y) /\ y.paused = x.paused
         /\ x.pc # "none" => y.pc = x.pc /\ y.job = x.job
         /\ x.pc = "none" => y.pc \in {"none", "asking"}
         /\ (x.timer => y.timer) /\ (x.followUp => y.followUp)
         /\ CanSync(x) /\ ~x.paused =>
              IF x.pc = "none" THEN y.pc = "asking" ELSE y.followUp
<1>1. CASE ~CanSync(x) \/ x.paused
  <2>1. y = x
    BY <1>1 DEF Now
  <2>2. QED
    BY <2>1, <1>1 DEF Alike, Kept
<1>2. CASE CanSync(x) /\ ~x.paused /\ x.pc # "none"
  <2>1. y = [x EXCEPT !.reconcile = @ \/ r, !.followUp = TRUE]
    BY <1>2 DEF Now
  <2>2. QED
    BY <2>1, <1>2 DEF Alike, Kept, Tab
<1>3. CASE CanSync(x) /\ ~x.paused /\ x.pc = "none"
  <2>1. y = [x EXCEPT !.reconcile = @ \/ r, !.pc = "asking",
                      !.job = [NoJob EXCEPT !.timed = d, !.requested = r]]
    BY <1>3 DEF Now
  <2>2. [NoJob EXCEPT !.timed = d, !.requested = r] \in Job
    BY DEF NoJob, Job
  <2>3. y \in Tab
    BY <2>1, <2>2 DEF Tab
  <2>4. QED
    BY <2>1, <2>3, <1>3 DEF Alike, Kept, Tab
<1>4. QED
  BY <1>1, <1>2, <1>3

(* The end of the requests keeps what was asked for meanwhile.               *)
LEMMA EndEffect ==
  ASSUME NEW x \in Tab, NEW r \in BOOLEAN, NEW y, y = End(x, r)
  PROVE  /\ y \in Tab
         /\ Alike(x, y) /\ y.paused = x.paused /\ y.pc = "release"
         /\ y.timer = x.timer /\ y.followUp = x.followUp
<1>1. [NoJob EXCEPT !.timed = x.job.timed, !.requested = x.job.requested, !.synced = r] \in Job
  BY DEF NoJob, Job, Tab
<1>2. QED
  BY <1>1 DEF End, Alike, Kept, Tab

LEMMA EnterEffect ==
  ASSUME cookie \in Nat, NEW x \in Tab, NEW pc \in Requests, NEW y, y = Enter(x, pc)
  PROVE  /\ y \in Tab
         /\ Alike(x, y) /\ y.paused = x.paused /\ y.pc = pc
         /\ y.timer = x.timer /\ y.followUp = x.followUp
         /\ y.job.session = cookie /\ y.job.revision = x.revision /\ ~y.job.aborted
<1>1. x.job \in Job
  BY DEF Tab
<1>2. x.revision \in Nat
  BY DEF Tab
<1>3. [x.job EXCEPT !.session = cookie, !.revision = x.revision, !.aborted = FALSE] \in Job
  BY <1>1, <1>2 DEF Job
<1>4. y = [x EXCEPT !.pc = pc,
                    !.job = [x.job EXCEPT !.session = cookie, !.revision = x.revision, !.aborted = FALSE]]
  BY DEF Enter, Tab
<1>5. y \in Tab
  BY <1>3, <1>4 DEF Tab, InFlight
<1>6. y.job = [x.job EXCEPT !.session = cookie, !.revision = x.revision, !.aborted = FALSE]
  BY <1>4 DEF Tab
<1>7. y.job.session = cookie /\ y.job.revision = x.revision /\ ~y.job.aborted
  BY <1>1, <1>6 DEF Job
<1>8. QED
  BY <1>4, <1>5, <1>7 DEF Alike, Kept, Tab

LEMMA LeaveEffect ==
  ASSUME NEW x \in Tab, NEW y, y = Leave(x, "check")
  PROVE  /\ y \in Tab
         /\ Alike(x, y) /\ y.paused = x.paused /\ y.pc = "check"
         /\ y.timer = x.timer /\ y.followUp = x.followUp
<1>1. x.job \in Job
  BY DEF Tab
<1>2. [x.job EXCEPT !.session = 0, !.revision = 0, !.aborted = FALSE] \in Job
  BY <1>1 DEF Job
<1>3. y = [x EXCEPT !.pc = "check",
                    !.job = [x.job EXCEPT !.session = 0, !.revision = 0, !.aborted = FALSE]]
  BY DEF Leave, Tab
<1>4. QED
  BY <1>2, <1>3 DEF Alike, Kept, Tab, InFlight

(* connect opens a stream with the cookie of the moment, unless one is open. *)
LEMMA ConnectEffect ==
  ASSUME NEW x \in Tab, NEW a \in BOOLEAN, NEW s \in Nat, NEW y, y = ConnectWith(x, a, s)
  PROVE  /\ y \in Tab
         /\ Kept(x, y) /\ y.paused = x.paused /\ y.pc = x.pc /\ y.job = x.job
         /\ y.timer = x.timer /\ y.followUp = x.followUp
         /\ \/ y.events = x.events /\ y.subscribed = x.subscribed
            \/ CanSync(x) /\ x.events = "none" /\ y.subscribed = s
<1>1. CASE CanSync(x) /\ x.events = "none"
  <2>1. PICK e \in {"live", "dead"} : y = [x EXCEPT !.events = e, !.subscribed = s, !.hint = 0]
    BY <1>1 DEF ConnectWith
  <2>2. y \in Tab
    <3>1. PICK z : z = [x EXCEPT !.events = e]
      OBVIOUS
    <3>2. z \in Tab
      BY <3>1 DEF Tab
    <3>3. [z EXCEPT !.subscribed = s, !.hint = 0] \in Tab
      BY <3>2 DEF Tab
    <3>4. QED
      BY <2>1, <3>1, <3>3
  <2>3. QED
    BY <2>1, <2>2, <1>1 DEF Kept, Tab
<1>2. CASE ~(CanSync(x) /\ x.events = "none")
  <2>1. y = x
    BY <1>2 DEF ConnectWith
  <2>2. QED
    BY <2>1 DEF Kept
<1>3. QED
  BY <1>1, <1>2

(* A tab that requires authentication has no stream and knows of no change.  *)
LEMMA RequireEffect ==
  ASSUME NEW x \in Tab, NEW y, y = RequireAuthentication(x)
  PROVE  /\ y \in Tab
         /\ y.open = x.open /\ y.visible = x.visible /\ y.authRequired
         /\ y.signing = x.signing /\ y.revision = x.revision /\ y.signed = x.signed
         /\ y.credential = x.credential /\ y.pc = x.pc /\ y.job = x.job
         /\ y.events = "none" /\ y.known = 0
<1>1. PICK a : a = [x EXCEPT !.authRequired = TRUE]
  OBVIOUS
<1>2. PICK b : b = [a EXCEPT !.timer = FALSE, !.reconcile = FALSE, !.followUp = FALSE]
  OBVIOUS
<1>3. PICK c : c = [b EXCEPT !.events = "none", !.subscribed = 0, !.hint = 0]
  OBVIOUS
<1>4. PICK d : d = [c EXCEPT !.changeTimer = FALSE, !.changePending = FALSE]
  OBVIOUS
<1>5. y = [d EXCEPT !.known = 0]
  BY <1>1, <1>2, <1>3, <1>4
  DEF RequireAuthentication, Disconnect, ResetPendingChanges, CancelScheduled
<1>6. a \in Tab /\ b \in Tab
  BY <1>1, <1>2 DEF Tab
<1>7. c \in Tab
  BY <1>6, <1>3 DEF Tab
<1>8. y \in Tab
  <2>1. d \in Tab
    BY <1>7, <1>4 DEF Tab
  <2>2. QED
    BY <2>1, <1>5 DEF Tab
<1>9. b.authRequired /\ b.open = x.open /\ b.visible = x.visible /\ b.signing = x.signing
      /\ b.revision = x.revision /\ b.signed = x.signed /\ b.credential = x.credential
      /\ b.pc = x.pc /\ b.job = x.job
  BY <1>1, <1>2, <1>6 DEF Tab
<1>10. QED
  BY <1>3, <1>4, <1>5, <1>6, <1>7, <1>8, <1>9 DEF Tab

LEMMA AbortEffect ==
  ASSUME NEW x \in Tab, NEW y, y = CancelActive(x)
  PROVE  /\ y \in Tab
         /\ Alike(x, y) /\ y.paused = x.paused /\ y.pc = x.pc
         /\ y.timer = x.timer /\ y.followUp = x.followUp
         /\ y.job.session = x.job.session /\ y.job.revision = x.job.revision
<1>1. x.job \in Job /\ (x.pc \in Requests) \in BOOLEAN
  BY DEF Tab
<1>2. [x.job EXCEPT !.aborted = @ \/ x.pc \in Requests] \in Job
  BY <1>1 DEF Job
<1>3. y = [x EXCEPT !.job = [x.job EXCEPT !.aborted = @ \/ x.pc \in Requests]]
  BY DEF CancelActive, Tab
<1>4. QED
  BY <1>1, <1>2, <1>3 DEF Alike, Kept, Tab, Job

LEMMA SettleEffect ==
  ASSUME TypeInv, NEW x \in Tab, NEW y, y = Settle(x)
  PROVE  /\ y \in Tab
         /\ y \in {x, [x EXCEPT !.known = 0]}
         /\ WorkRemains(y) <=> WorkRemains(x)
<1>1. CASE x.known <= store.cursor
  <2>1. y = [x EXCEPT !.known = 0]
    BY <1>1 DEF Settle
  <2>2. x.known \in Nat /\ store.cursor \in Nat
    BY DEF TypeInv, Tab, State
  <2>3. QED
    BY <2>1, <2>2, <1>1 DEF Tab, WorkRemains
<1>2. CASE ~(x.known <= store.cursor)
  BY <1>2 DEF Settle
<1>3. QED
  BY <1>1, <1>2

-----------------------------------------------------------------------------
(* Steps of one tab: whatever a tab becomes must fit the rest of the state.  *)
LEMMA OpenTab ==
  ASSUME NEW t \in Tabs, NEW x \in Tab, Fits(t, x),
         x.pc # "none" \/ x.visible \/ x.signing \/ x.events # "none"
  PROVE  x.open
BY DEF Fits, LeadsTab, Closed, Fresh

LEMMA Same ==
  ASSUME NEW t \in Tabs, NEW x \in Tab, Fits(t, x), x.open, NEW y \in Tab,
         Alike(x, y), y.paused = x.paused, y.pc = x.pc, y.job = x.job,
         x.timer => y.timer, x.followUp => y.followUp
  PROVE  Fits(t, y)
BY DEF Fits, LeadsTab, HintedTab, SignedTab, Alike, Kept, Covered, Attentive, WorkRemains, CanSync,
       Working, StandsIn

BudgetType == budget \in [tabs : SUBSET Tabs, locks : BOOLEAN, edits : Nat, changes : Nat,
                          events : Nat, faults : Nat, sessions : Nat]

LEMMA Spending ==
  ASSUME TypeInv, NEW b \in {"edits", "changes", "events", "faults", "sessions"}, Spend(b)
  PROVE  BudgetType'
<1>1. budget \in [tabs : SUBSET Tabs, locks : BOOLEAN, edits : Nat, changes : Nat,
                  events : Nat, faults : Nat, sessions : Nat]
  BY DEF TypeInv
<1>2. CASE b = "edits"
  BY <1>1, <1>2 DEF Spend, BudgetType
<1>3. CASE b = "changes"
  BY <1>1, <1>3 DEF Spend, BudgetType
<1>4. CASE b = "events"
  BY <1>1, <1>4 DEF Spend, BudgetType
<1>5. CASE b = "faults"
  BY <1>1, <1>5 DEF Spend, BudgetType
<1>6. CASE b = "sessions"
  BY <1>1, <1>6 DEF Spend, BudgetType
<1>7. QED
  BY <1>2, <1>3, <1>4, <1>5, <1>6

(* Nothing that a tab must fit changes, except that the cursor may advance.  *)
Around ==
  /\ UNCHANGED <<leader, server, cookie, lapses>>
  /\ store' \in State /\ store'.cursor >= store.cursor
  /\ BudgetType'

LEMMA StillFits ==
  ASSUME TypeInv, Around, NEW t \in Tabs, NEW x \in Tab, Fits(t, x)
  PROVE  Fits(t, x)'
<1>1. x.known \in Nat /\ store.cursor \in Nat /\ store'.cursor \in Nat
  BY DEF TypeInv, Around, State, Tab
<1>2. QED
  BY <1>1 DEF Around, Fits, LeadsTab, HintedTab, SignedTab, Covered, Attentive, WorkRemains, CanSync,
              Working, StandsIn

LEMMA TabStep ==
  ASSUME Inv, Around, NEW t \in Tabs, NEW y \in Tab, Fits(t, y), tab' = [tab EXCEPT ![t] = y]
  PROVE  Inv'
<1>1. \A u \in Tabs : tab'[u] \in Tab /\ Fits(u, tab'[u])
  BY DEF Inv, TypeInv
<1>2. \A u \in Tabs : Fits(u, tab[u])'
  <2> TAKE u \in Tabs
  <2>1. PICK z \in Tab : z = tab'[u] /\ Fits(u, z)
    BY <1>1
  <2>2. Fits(u, z)'
    BY <2>1, StillFits DEF Inv
  <2>3. QED
    BY <2>1, <2>2
<1>3. TypeInv'
  BY <1>1 DEF Inv, TypeInv, Around, BudgetType
<1>4. LatestSessions'
  BY DEF Inv, LatestSessions, Around
<1>5. QED
  BY <1>2, <1>3, <1>4 DEF Inv

(* A stream that is opened belongs to the session of the moment.             *)
LEMMA ConnectFits ==
  ASSUME Inv, NEW t \in Tabs, NEW x \in Tab, Fits(t, x), x.open, NEW y, y = Connect(x)
  PROVE  /\ y \in Tab /\ Fits(t, y)
         /\ Kept(x, y) /\ y.paused = x.paused /\ y.pc = x.pc /\ y.job = x.job
         /\ y.timer = x.timer /\ y.followUp = x.followUp
<1>1. PICK a \in BOOLEAN : a <=> cookie \in server.sessions
  BY Zenon
<1>2. PICK s \in Nat : s = cookie
  BY DEF Inv, TypeInv
<1>3. y = ConnectWith(x, a, s)
  BY <1>1, <1>2 DEF Connect, ConnectWith
<1>4. /\ y \in Tab
      /\ Kept(x, y) /\ y.paused = x.paused /\ y.pc = x.pc /\ y.job = x.job
      /\ y.timer = x.timer /\ y.followUp = x.followUp
      /\ \/ y.events = x.events /\ y.subscribed = x.subscribed
         \/ CanSync(x) /\ x.events = "none" /\ y.subscribed = s
  BY <1>3, ConnectEffect
<1>5. Fits(t, y)
  BY <1>2, <1>4
  DEF Fits, LeadsTab, HintedTab, SignedTab, Kept, Covered, Attentive, WorkRemains, CanSync,
      Working, StandsIn
<1>6. QED
  BY <1>4, <1>5

(* A tab as it is, and a step that changes nothing else.                     *)
LEMMA AtTab ==
  ASSUME Inv, NEW t \in Tabs
  PROVE  /\ tab[t] \in Tab /\ Fits(t, tab[t])
         /\ UNCHANGED <<store, leader, server, cookie, budget, lapses>> => Around
BY DEF Inv, TypeInv, Around, BudgetType, State

-----------------------------------------------------------------------------
(* The steps of a sync                                                       *)
LEMMA RefusedStep == ASSUME Inv, NEW t \in Tabs, Refused(t) PROVE Inv'
<1>1. PICK x \in Tab : x = tab[t] /\ Fits(t, x)
  BY AtTab
<1>2. PICK a : a = Schedule(x, FALSE)
  OBVIOUS
<1>3. PICK y : y = End(a, FALSE)
  OBVIOUS
<1>4. a \in Tab /\ Alike(x, a) /\ a.paused = x.paused /\ a.pc = "asking"
      /\ (CanSync(x) /\ ~x.paused => a.followUp)
  BY <1>1, <1>2, ScheduleEffect DEF Refused
<1>5. y \in Tab /\ Alike(a, y) /\ y.paused = a.paused /\ y.pc = "release" /\ y.followUp = a.followUp
  BY <1>3, <1>4, EndEffect
<1>6. Fits(t, y)
  BY <1>1, <1>4, <1>5, OpenTab
  DEF Refused, Fits, LeadsTab, HintedTab, SignedTab, Alike, Kept, Covered, Attentive, WorkRemains,
      CanSync, Working, InFlight, Requests, StandsIn
<1>7. Around /\ tab' = [tab EXCEPT ![t] = y]
  BY <1>1, <1>2, <1>3, AtTab DEF Refused, Set
<1>8. QED
  BY <1>5, <1>6, <1>7, TabStep

(* A request of the current sign-in that has just been sent, or the check.   *)
LEMMA NextStep ==
  ASSUME Inv, NEW t \in Tabs, NEW x \in Tab, Fits(t, x), x.open, NEW y \in Tab,
         Working(x), Alike(x, y), y.paused = x.paused,
         \/ y.pc = "check"
         \/ /\ y.pc \in Requests /\ ~y.job.aborted
            /\ y.job.revision = y.revision /\ y.job.session = cookie
  PROVE  Fits(t, y)
<1>1. /\ cookie \in Nat /\ x.signed \in Nat /\ x.revision \in Nat
  BY DEF Inv, TypeInv, Tab
<1>2. QED
  BY <1>1
  DEF Fits, LeadsTab, HintedTab, SignedTab, Alike, Kept, Covered, Attentive, WorkRemains,
      CanSync, Working, InFlight, Requests, StandsIn

(* A sync ends in a tab that is not attentive, or has what it needs.         *)
LEMMA EndFits ==
  ASSUME Inv, NEW t \in Tabs, NEW x \in Tab, Fits(t, x), x.open, NEW y \in Tab,
         Alike(x, y), y.pc = "release",
         \/ ~Attentive(y) \/ ~WorkRemains(y)
         \/ y.timer \/ y.followUp \/ y.reading = y.known
  PROVE  Fits(t, y)
BY DEF Fits, LeadsTab, HintedTab, SignedTab, Alike, Kept, Covered, Attentive, WorkRemains,
       CanSync, Working, InFlight, Requests, StandsIn

LEMMA PulledStep == ASSUME Inv, NEW t \in Tabs, Pulled(t) PROVE Inv'
<1>1. PICK x \in Tab : x = tab[t] /\ Fits(t, x)
  BY AtTab
<1>2. PICK y : y = IF x.pc = "repull" THEN Leave(x, "check")
                   ELSE IF ~CanSync(x) THEN End(x, FALSE)
                   ELSE Enter(x, IF x.job.reconcile THEN "reconcile" ELSE "push")
  OBVIOUS
<1>3. x.pc \in Requests /\ Working(x) /\ x.open
  BY <1>1, OpenTab DEF Pulled, Requests, Working, InFlight
<1>4. y \in Tab /\ Fits(t, y)
  <2>1. CASE x.pc = "repull"
    BY <1>1, <1>2, <1>3, <2>1, LeaveEffect, NextStep
  <2>2. CASE x.pc # "repull" /\ ~CanSync(x)
    <3>1. y \in Tab /\ Alike(x, y) /\ y.pc = "release"
      BY <1>2, <2>2, EndEffect
    <3>2. ~Attentive(y)
      BY <3>1, <2>2 DEF Attentive, CanSync, Alike, Kept
    <3>3. QED
      BY <1>1, <1>3, <3>1, <3>2, EndFits
  <2>3. CASE x.pc # "repull" /\ CanSync(x)
    <3>1. PICK pc \in {"reconcile", "push"} : y = Enter(x, pc)
      BY <1>2, <2>3
    <3>2. pc \in Requests /\ cookie \in Nat
      BY DEF Requests, Inv, TypeInv
    <3>3. QED
      BY <1>1, <1>3, <3>1, <3>2, EnterEffect, NextStep DEF Alike, Kept
  <2>4. QED
    BY <2>1, <2>2, <2>3
<1>5. tab' = [tab EXCEPT ![t] = y]
  BY <1>1, <1>2 DEF Pulled, Set
<1>6. Around
  <2>1. store' \in State /\ store'.cursor >= store.cursor
    BY DEF Pulled, Inv, TypeInv, State
  <2>2. QED
    BY <2>1 DEF Pulled, Around, Inv, TypeInv, BudgetType
<1>7. QED
  BY <1>4, <1>5, <1>6, TabStep

LEMMA ReconciledStep == ASSUME Inv, NEW t \in Tabs, Reconciled(t) PROVE Inv'
<1>1. PICK x \in Tab : x = tab[t] /\ Fits(t, x)
  BY AtTab
<1>2. PICK y : y = Enter(x, "push")
  OBVIOUS
<1>3. x.open /\ Working(x)
  BY <1>1, OpenTab DEF Reconciled, Working, InFlight, Requests
<1>4. y \in Tab /\ Fits(t, y)
  <2>1. cookie \in Nat /\ "push" \in Requests
    BY DEF Inv, TypeInv, Requests
  <2>2. QED
    BY <1>1, <1>2, <1>3, <2>1, EnterEffect, NextStep DEF Alike, Kept
<1>5. Around /\ tab' = [tab EXCEPT ![t] = y]
  BY <1>1, <1>2, AtTab DEF Reconciled, Set
<1>6. QED
  BY <1>4, <1>5, TabStep

LEMMA PushedAllStep == ASSUME Inv, NEW t \in Tabs, PushedAll(t) PROVE Inv'
<1>1. PICK x \in Tab : x = tab[t] /\ Fits(t, x)
  BY AtTab
<1>2. PICK y : y = IF x.job.pushed THEN Enter(x, "repull") ELSE Leave(x, "check")
  OBVIOUS
<1>3. x.open /\ Working(x)
  BY <1>1, OpenTab DEF PushedAll, Working, InFlight, Requests
<1>4. y \in Tab /\ Fits(t, y)
  <2>1. cookie \in Nat /\ "repull" \in Requests
    BY DEF Inv, TypeInv, Requests
  <2>2. CASE x.job.pushed
    BY <1>1, <1>2, <1>3, <2>1, <2>2, EnterEffect, NextStep DEF Alike, Kept
  <2>3. CASE ~x.job.pushed
    BY <1>1, <1>2, <1>3, <2>3, LeaveEffect, NextStep
  <2>4. QED
    BY <2>2, <2>3
<1>5. Around /\ tab' = [tab EXCEPT ![t] = y]
  BY <1>1, <1>2, AtTab DEF PushedAll, Set
<1>6. QED
  BY <1>4, <1>5, TabStep

LEMMA FinishStep == ASSUME Inv, NEW t \in Tabs, Finish(t) PROVE Inv'
<1>1. PICK x \in Tab : x = tab[t] /\ Fits(t, x)
  BY AtTab
<1>2. PICK a : a = Connect(x)
  OBVIOUS
<1>3. PICK y : y = End(a, TRUE)
  OBVIOUS
<1>4. x.open /\ x.pc = "finish"
  BY <1>1, OpenTab DEF Finish
<1>5. a \in Tab /\ Fits(t, a) /\ a.open /\ a.pc = "finish"
  BY <1>1, <1>2, <1>4, ConnectFits DEF Kept
<1>6. y \in Tab /\ Alike(a, y) /\ y.pc = "release" /\ y.paused = a.paused
      /\ y.timer = a.timer /\ y.followUp = a.followUp
  BY <1>3, <1>5, EndEffect
<1>7. \/ ~Attentive(y) \/ ~WorkRemains(y) \/ y.timer \/ y.followUp \/ y.reading = y.known
  BY <1>5, <1>6
  DEF Fits, HintedTab, Covered, Attentive, WorkRemains, CanSync, Alike, Kept, Working, InFlight, Requests
<1>8. Fits(t, y)
  BY <1>5, <1>6, <1>7, EndFits
<1>9. Around /\ tab' = [tab EXCEPT ![t] = y]
  BY <1>1, <1>2, <1>3, AtTab DEF Finish, Set
<1>10. QED
  BY <1>6, <1>8, <1>9, TabStep
(* A known change that the cursor has reached is no longer known.            *)
LEMMA SettleFits ==
  ASSUME Inv, NEW t \in Tabs, NEW x \in Tab, Fits(t, x), x.open, NEW y, y = Settle(x)
  PROVE  y \in Tab /\ Fits(t, y) /\ y.open
<1>1. y \in Tab /\ y \in {x, [x EXCEPT !.known = 0]} /\ (WorkRemains(y) <=> WorkRemains(x))
  BY SettleEffect DEF Inv
<1>2. /\ y.open = x.open /\ y.visible = x.visible /\ y.authRequired = x.authRequired
      /\ y.signing = x.signing /\ y.revision = x.revision /\ y.signed = x.signed
      /\ y.credential = x.credential /\ y.failed = x.failed /\ y.attention = x.attention
      /\ y.reading = x.reading /\ y.changeTimer = x.changeTimer
      /\ y.events = x.events /\ y.subscribed = x.subscribed /\ y.paused = x.paused
      /\ y.timer = x.timer /\ y.followUp = x.followUp /\ y.pc = x.pc /\ y.job = x.job
      /\ y.known \in {0, x.known}
  <2>1. CASE y = x
    BY <2>1
  <2>2. CASE y = [x EXCEPT !.known = 0]
    BY <2>2 DEF Tab
  <2>3. QED
    BY <1>1, <2>1, <2>2
<1>3. y.known # x.known => ~WorkRemains(y)
  BY <1>1, <1>2 DEF WorkRemains, Inv, TypeInv, State, Tab
<1>4. QED
  BY <1>1, <1>2, <1>3
  DEF Fits, LeadsTab, HintedTab, SignedTab, Covered, Attentive, CanSync, Working, StandsIn

LEMMA CheckStep == ASSUME Inv, NEW t \in Tabs, Check(t) PROVE Inv'
<1>1. PICK x \in Tab : x = tab[t] /\ Fits(t, x)
  BY AtTab
<1>2. x.open /\ x.pc = "check"
  BY <1>1, OpenTab DEF Check
<1>3. PICK b : b = Settle(x)
  OBVIOUS
<1>4. PICK c : c = TakeIntent(x)
  OBVIOUS
<1>5. PICK a : a = Settle(c)
  OBVIOUS
<1>6. c \in Tab /\ Alike(x, c) /\ c.paused = x.paused /\ c.pc = "check" /\ c.job = x.job
  BY <1>2, <1>4 DEF TakeIntent, Tab, Alike, Kept
<1>7. b \in Tab /\ Fits(t, b) /\ b.open /\ a \in Tab
  BY <1>1, <1>2, <1>3, <1>5, <1>6, SettleFits, SettleEffect DEF Inv
<1>8. /\ Alike(b, a) /\ a.paused = b.paused /\ a.pc = "check" /\ b.pc = "check"
      /\ a.job = x.job /\ b.job = x.job /\ (WorkRemains(b) <=> WorkRemains(x))
      /\ (CanSync(b) <=> CanSync(x))
  <2>1. b \in {x, [x EXCEPT !.known = 0]} /\ (WorkRemains(b) <=> WorkRemains(x))
    BY <1>3, SettleEffect DEF Inv
  <2>2. CASE x.known <= store.cursor
    BY <1>2, <1>3, <1>5, <1>6, <2>1, <2>2 DEF Settle, Alike, Kept, Tab, CanSync
  <2>3. CASE ~(x.known <= store.cursor)
    BY <1>2, <1>3, <1>5, <1>6, <2>1, <2>3 DEF Settle, Alike, Kept, Tab, CanSync
  <2>4. QED
    BY <2>2, <2>3
<1>9. PICK current \in State : current = [cursor |-> store.cursor, queue |-> store.queue]
  BY DEF Inv, TypeInv, State
<1>10. PICK d : d = [a EXCEPT !.pc = "finish", !.failed = FALSE, !.attention = FALSE]
  OBVIOUS
<1>11. PICK e : e = CancelScheduled([a EXCEPT !.paused = TRUE, !.failed = FALSE])
  OBVIOUS
<1>12. PICK f : f = [a EXCEPT !.job.previous = current, !.job.reconcile = x.reconcile,
                              !.job.pushed = FALSE]
  OBVIOUS
<1>13. PICK y : /\ tab' = [tab EXCEPT ![t] = y]
                /\ \/ ~WorkRemains(x) /\ y = d
                   \/ y = End(e, FALSE)
                   \/ CanSync(x) /\ y = Enter(f, "pull")
                   \/ ~CanSync(x) /\ y = End(a, FALSE)
  <2>1. PICK y : y = IF ~(x.reconcile \/ store.queue # {} \/ WorkRemains(x)) THEN d
                     ELSE IF x.job.previous = current THEN End(e, FALSE)
                     ELSE IF CanSync(x) THEN Enter(f, "pull") ELSE End(a, FALSE)
    OBVIOUS
  <2>2. tab' = [tab EXCEPT ![t] = y]
    BY <2>1, <1>1, <1>4, <1>5, <1>9, <1>10, <1>11, <1>12 DEF Check, Set
  <2>3. QED
    BY <2>1, <2>2
<1>14. y \in Tab /\ Fits(t, y)
  <2>1. CASE ~WorkRemains(x) /\ y = d
    <3>1. /\ y \in Tab /\ y.pc = "finish" /\ y.open = b.open /\ y.visible = b.visible
          /\ y.authRequired = b.authRequired /\ y.revision = b.revision /\ y.signed = b.signed
          /\ y.credential = b.credential /\ y.known = b.known /\ y.events = b.events
          /\ y.subscribed = b.subscribed
      <4>1. /\ d \in Tab /\ d.pc = "finish" /\ d.open = a.open /\ d.visible = a.visible
            /\ d.authRequired = a.authRequired /\ d.revision = a.revision /\ d.signed = a.signed
            /\ d.credential = a.credential /\ d.known = a.known /\ d.events = a.events
            /\ d.subscribed = a.subscribed
        <5>1. d \in Tab
          <6>1. PICK h : h = [a EXCEPT !.pc = "finish"]
            OBVIOUS
          <6>2. h \in Tab
            BY <6>1, <1>7 DEF Tab, InFlight
          <6>3. d = [h EXCEPT !.failed = FALSE, !.attention = FALSE]
            BY <6>1, <1>10
          <6>4. QED
            BY <6>2, <6>3 DEF Tab
        <5>2. QED
          BY <5>1, <1>7, <1>10 DEF Tab
      <4>2. QED
        BY <2>1, <4>1, <1>8 DEF Alike, Kept
    <3>2. ~WorkRemains(y)
      BY <2>1, <1>8, <3>1 DEF WorkRemains
    <3>3. QED
      BY <1>7, <1>8, <3>1, <3>2
      DEF Fits, LeadsTab, HintedTab, SignedTab, CanSync, Working, InFlight, Requests, StandsIn
  <2>2. CASE y = End(e, FALSE)
    <3>1. PICK g : g = [a EXCEPT !.paused = TRUE, !.failed = FALSE]
      OBVIOUS
    <3>2. g \in Tab
      BY <3>1, <1>7 DEF Tab
    <3>3. e = [g EXCEPT !.timer = FALSE, !.reconcile = FALSE, !.followUp = FALSE]
      BY <3>1, <1>11 DEF CancelScheduled
    <3>4. e \in Tab
      BY <3>2, <3>3 DEF Tab
    <3>5. /\ y \in Tab /\ Alike(e, y) /\ y.pc = "release" /\ y.paused = e.paused
      BY <3>4, <2>2, EndEffect
    <3>6. /\ y.pc = "release" /\ y.open = b.open /\ y.paused
          /\ y.authRequired = b.authRequired /\ y.revision = b.revision /\ y.signed = b.signed
          /\ y.credential = b.credential /\ y.known = b.known /\ y.events = b.events
          /\ y.subscribed = b.subscribed
      <4>1. /\ g.open = a.open /\ g.paused /\ g.authRequired = a.authRequired
            /\ g.revision = a.revision /\ g.signed = a.signed /\ g.credential = a.credential
            /\ g.known = a.known /\ g.events = a.events /\ g.subscribed = a.subscribed
        BY <1>7, <3>1 DEF Tab
      <4>2. /\ e.open = g.open /\ e.paused = g.paused /\ e.authRequired = g.authRequired
            /\ e.revision = g.revision /\ e.signed = g.signed /\ e.credential = g.credential
            /\ e.known = g.known /\ e.events = g.events /\ e.subscribed = g.subscribed
        BY <3>2, <3>3 DEF Tab
      <4>3. QED
        BY <4>1, <4>2, <3>5, <1>8 DEF Alike, Kept
    <3>7. QED
      BY <1>7, <1>8, <3>5, <3>6
      DEF Fits, LeadsTab, HintedTab, SignedTab, Attentive, Working, InFlight, Requests, StandsIn
  <2>3. CASE CanSync(x) /\ y = Enter(f, "pull")
    <3>1. a.job \in Job /\ x.reconcile \in BOOLEAN
      BY <1>7 DEF Tab
    <3>2. [a.job EXCEPT !.previous = current, !.reconcile = x.reconcile, !.pushed = FALSE] \in Job
      BY <3>1 DEF Job
    <3>3. f = [a EXCEPT !.job = [a.job EXCEPT !.previous = current, !.reconcile = x.reconcile,
                                               !.pushed = FALSE]]
      BY <1>7, <1>12 DEF Tab
    <3>4. f \in Tab /\ Alike(a, f) /\ f.paused = a.paused
      BY <3>2, <3>3, <1>7 DEF Tab, Alike, Kept
    <3>5. cookie \in Nat /\ "pull" \in Requests
      BY DEF Inv, TypeInv, Requests
    <3>6. /\ y \in Tab /\ Alike(f, y) /\ y.paused = f.paused /\ y.pc = "pull"
          /\ y.job.session = cookie /\ y.job.revision = f.revision /\ ~y.job.aborted
      BY <3>4, <3>5, <2>3, EnterEffect
    <3>7. Alike(b, y) /\ y.paused = b.paused
      BY <3>4, <3>6, <1>8 DEF Alike, Kept
    <3>8. Working(b)
      BY <1>8 DEF Working, InFlight
    <3>9. y.job.revision = y.revision
      BY <3>6 DEF Alike, Kept
    <3>10. QED
      BY <1>7, <3>5, <3>6, <3>7, <3>8, <3>9, NextStep
  <2>4. CASE ~CanSync(x) /\ y = End(a, FALSE)
    <3>1. y \in Tab /\ Alike(b, y) /\ y.pc = "release"
      <4>1. y \in Tab /\ Alike(a, y) /\ y.pc = "release"
        BY <1>7, <2>4, EndEffect
      <4>2. QED
        BY <4>1, <1>8 DEF Alike, Kept
    <3>2. ~Attentive(y)
      BY <3>1, <1>8, <2>4 DEF Attentive, CanSync, Alike, Kept
    <3>3. QED
      BY <1>7, <3>1, <3>2, EndFits
  <2>5. QED
    BY <1>13, <2>1, <2>2, <2>3, <2>4
<1>15. Around /\ tab' = [tab EXCEPT ![t] = y]
  BY <1>13, AtTab DEF Check
<1>16. QED
  BY <1>14, <1>15, TabStep

(* What is not known by the end of an aborted request, or of one from before *)
(* the sign-in, has a follow-up.                                             *)
LEMMA AbortedStep == ASSUME Inv, NEW t \in Tabs, Aborted(t) PROVE Inv'
<1>1. PICK x \in Tab : x = tab[t] /\ Fits(t, x)
  BY AtTab
<1>2. PICK y : y = End(x, FALSE)
  OBVIOUS
<1>3. x.open /\ x.pc \in Requests /\ x.job.aborted
  BY <1>1, OpenTab DEF Aborted, Asking, Requests
<1>4. y \in Tab /\ Alike(x, y) /\ y.pc = "release" /\ y.paused = x.paused
      /\ y.timer = x.timer /\ y.followUp = x.followUp
  BY <1>2, EndEffect
<1>5. \/ ~Attentive(y) \/ ~WorkRemains(y) \/ y.timer \/ y.followUp \/ y.reading = y.known
  BY <1>1, <1>3, <1>4
  DEF Fits, HintedTab, Covered, Attentive, WorkRemains, CanSync, Alike, Kept, Working, InFlight, Requests
<1>6. Fits(t, y)
  BY <1>1, <1>3, <1>4, <1>5, EndFits
<1>7. Around /\ tab' = [tab EXCEPT ![t] = y]
  BY <1>1, <1>2, AtTab DEF Aborted, Set
<1>8. QED
  BY <1>4, <1>6, <1>7, TabStep

LEMMA NetworkFailsStep == ASSUME Inv, NEW t \in Tabs, NetworkFails(t) PROVE Inv'
<1>1. PICK x \in Tab : x = tab[t] /\ Fits(t, x)
  BY AtTab
<1>2. PICK refused \in BOOLEAN :
        tab' = [tab EXCEPT ![t] = End([x EXCEPT !.failed = ~refused, !.attention = @ \/ refused], FALSE)]
  BY <1>1 DEF NetworkFails, Set
<1>3. PICK a : a = [x EXCEPT !.failed = ~refused, !.attention = @ \/ refused]
  OBVIOUS
<1>4. PICK y : y = End(a, FALSE)
  OBVIOUS
<1>5. x.open
  BY <1>1, OpenTab DEF NetworkFails, Asking, Requests
<1>6. /\ a \in Tab /\ a.open /\ (a.failed \/ a.attention)
      /\ a.authRequired = x.authRequired /\ a.credential = x.credential
      /\ a.revision = x.revision /\ a.signed = x.signed /\ a.known = x.known
      /\ a.events = x.events /\ a.subscribed = x.subscribed
  BY <1>3, <1>5 DEF Tab
<1>7. y \in Tab /\ Alike(a, y) /\ y.pc = "release"
  BY <1>4, <1>6, EndEffect
<1>8. Fits(t, y)
  BY <1>1, <1>6, <1>7
  DEF Fits, LeadsTab, HintedTab, SignedTab, Attentive, Alike, Kept, Working, InFlight, Requests, StandsIn
<1>9. Around
  BY Spending DEF NetworkFails, Around, Inv, TypeInv, State
<1>10. QED
  BY <1>2, <1>3, <1>4, <1>7, <1>8, <1>9, TabStep

(* A rejected request of the last sign-in: its session has ended, so those   *)
(* before it have.                                                           *)
LEMMA UnauthorizedStep == ASSUME Inv, NEW t \in Tabs, Unauthorized(t) PROVE Inv'
<1>1. PICK x \in Tab : x = tab[t] /\ Fits(t, x)
  BY AtTab
<1>2. x.open /\ x.pc \in Requests /\ x.job.session \notin server.sessions
  BY <1>1, OpenTab DEF Unauthorized, Asking, Requests
<1>3. PICK a : a = [x EXCEPT !.failed = FALSE]
  OBVIOUS
<1>4. PICK b : b = IF Superseded(x) THEN x ELSE RequireAuthentication(a)
  OBVIOUS
<1>5. PICK y : y = End(b, FALSE)
  OBVIOUS
<1>6. y \in Tab /\ Fits(t, y)
  <2>1. CASE Superseded(x)
    <3>1. y \in Tab /\ Alike(x, y) /\ y.pc = "release" /\ y.paused = x.paused
          /\ y.timer = x.timer /\ y.followUp = x.followUp
      BY <2>1, <1>4, <1>5, EndEffect
    <3>2. \/ ~Attentive(y) \/ ~WorkRemains(y) \/ y.timer \/ y.followUp \/ y.reading = y.known
      BY <1>1, <1>2, <2>1, <3>1
      DEF Fits, HintedTab, Covered, Attentive, WorkRemains, CanSync, Alike, Kept, Working, InFlight,
          Requests, Superseded
    <3>3. QED
      BY <1>1, <1>2, <3>1, <3>2, EndFits
  <2>2. CASE ~Superseded(x)
    <3>1. a \in Tab /\ a.open = x.open /\ a.signed = x.signed /\ a.revision = x.revision
      BY <1>3 DEF Tab
    <3>2. /\ b \in Tab /\ b.open = x.open /\ b.authRequired /\ b.signed = x.signed
          /\ b.events = "none" /\ b.known = 0
      BY <2>2, <1>4, <3>1, RequireEffect
    <3>3. y \in Tab /\ Alike(b, y) /\ y.pc = "release"
      BY <1>5, <3>2, EndEffect
    <3>4. t \notin lapses.early => ~StandsIn(x)
      <4>1. SUFFICES ASSUME t \notin lapses.early, x.signed \in server.sessions
                     PROVE  FALSE
        BY DEF StandsIn
      <4>2. x.signed <= x.job.session /\ x.job.session <= cookie
        BY <1>1, <1>2, <2>2, <4>1 DEF Fits, SignedTab, Superseded
      <4>3. x.job.session \in Nat /\ x.signed \in Nat /\ cookie \in Nat
        BY DEF Tab, Job, Inv, TypeInv
      <4>4. x.job.session \in x.signed .. cookie
        BY <4>2, <4>3
      <4>5. QED
        BY <1>2, <4>1, <4>4 DEF Inv, LatestSessions
    <3>5. QED
      BY <1>1, <1>2, <3>2, <3>3, <3>4
      DEF Fits, LeadsTab, HintedTab, SignedTab, Attentive, CanSync, Alike, Kept, Working, InFlight,
          Requests, StandsIn
  <2>3. QED
    BY <2>1, <2>2
<1>7. Around /\ tab' = [tab EXCEPT ![t] = y]
  BY <1>1, <1>3, <1>4, <1>5, AtTab DEF Unauthorized, Set
<1>8. QED
  BY <1>6, <1>7, TabStep
-----------------------------------------------------------------------------
(* Steps in which the lock or the lease changes hands                        *)
Leads(t) == t \in lapses.outlived \/ (leader.owner = t /\ leader.fresh)

LEMMA LeaderStep ==
  ASSUME Inv, NEW t \in Tabs, NEW y \in Tab, tab' = [tab EXCEPT ![t] = y],
         UNCHANGED <<store, server, cookie>>, BudgetType', lapses'.early = lapses.early,
         lapses' \in [outlived : SUBSET Tabs, early : SUBSET Tabs],
         leader' \in [owner : Tabs \cup {Absent}, fresh : BOOLEAN, locks : BOOLEAN],
         HintedTab(y), SignedTab(t, y), ~y.open => y = Closed, Working(y) => Leads(t)',
         \A u \in Tabs \ {t} : Working(tab[u]) /\ Leads(u) => Leads(u)'
  PROVE  Inv'
<1>1. TypeInv'
  BY DEF Inv, TypeInv, BudgetType
<1>2. LatestSessions'
  BY DEF Inv, LatestSessions
<1>3. ASSUME NEW u \in Tabs PROVE Fits(u, tab[u])'
  <2>1. PICK z \in Tab : z = tab'[u]
    BY DEF Inv, TypeInv
  <2>2. HintedTab(z) /\ SignedTab(u, z)
    BY <2>1, <1>3 DEF Inv, TypeInv, Fits
  <2>3. HintedTab(z)' /\ SignedTab(u, z)'
    BY <2>2
    DEF HintedTab, SignedTab, Covered, Attentive, WorkRemains, CanSync, Working, StandsIn
  <2>4. LeadsTab(u, z)'
    <3>1. CASE u = t
      BY <3>1, <2>1 DEF LeadsTab, Leads, Working, Inv, TypeInv
    <3>2. CASE u # t
      <4>1. z = tab[u] /\ LeadsTab(u, z)
        BY <3>2, <2>1 DEF Inv, TypeInv, Fits
      <4>2. QED
        BY <4>1, <3>2 DEF LeadsTab, Leads, Working
    <3>3. QED
      BY <3>1, <3>2
  <2>5. QED
    BY <2>1, <2>3, <2>4 DEF Fits
<1>4. QED
  BY <1>1, <1>2, <1>3 DEF Inv

LEMMA GrantedStep == ASSUME Inv, NEW t \in Tabs, Granted(t) PROVE Inv'
<1>1. PICK x \in Tab : x = tab[t] /\ Fits(t, x)
  BY AtTab
<1>2. x.open /\ x.pc = "asking"
  BY <1>1, OpenTab DEF Granted
<1>3. PICK a : a = TakeIntent(x)
  OBVIOUS
<1>4. PICK b : b = [a EXCEPT !.job.reconcile = x.reconcile]
  OBVIOUS
<1>5. PICK c : c = [b EXCEPT !.timer = FALSE]
  OBVIOUS
<1>6. PICK y : y = IF CanSync(x) THEN Enter(c, "pull") ELSE End(b, FALSE)
  OBVIOUS
<1>7. a \in Tab /\ Alike(x, a)
  BY <1>3 DEF TakeIntent, Tab, Alike, Kept
<1>8. b \in Tab /\ Alike(a, b)
  <2>1. a.job \in Job /\ x.reconcile \in BOOLEAN
    BY <1>7 DEF Tab
  <2>2. [a.job EXCEPT !.reconcile = x.reconcile] \in Job
    BY <2>1 DEF Job
  <2>3. b = [a EXCEPT !.job = [a.job EXCEPT !.reconcile = x.reconcile]]
    BY <1>4, <1>7 DEF Tab
  <2>4. QED
    BY <2>2, <2>3, <1>7 DEF Tab, Alike, Kept
<1>9. c \in Tab /\ Alike(b, c)
  BY <1>5, <1>8 DEF Tab, Alike, Kept
<1>10. Alike(x, b) /\ Alike(x, c)
  BY <1>7, <1>8, <1>9 DEF Alike, Kept
<1>11. /\ y \in Tab /\ Alike(x, y)
       /\ \/ CanSync(x) /\ y.pc = "pull" /\ y.job.session = cookie /\ y.job.revision = y.revision
             /\ ~y.job.aborted
          \/ ~CanSync(x) /\ y.pc = "release"
  <2>1. CASE CanSync(x)
    <3>1. cookie \in Nat /\ "pull" \in Requests
      BY DEF Inv, TypeInv, Requests
    <3>2. /\ y \in Tab /\ Alike(c, y) /\ y.pc = "pull"
          /\ y.job.session = cookie /\ y.job.revision = c.revision /\ ~y.job.aborted
      BY <1>6, <1>9, <2>1, <3>1, EnterEffect
    <3>3. QED
      BY <2>1, <3>2, <1>10 DEF Alike, Kept
  <2>2. CASE ~CanSync(x)
    <3>1. y \in Tab /\ Alike(b, y) /\ y.pc = "release"
      BY <1>6, <1>8, <2>2, EndEffect
    <3>2. QED
      BY <2>2, <3>1, <1>10 DEF Alike, Kept
  <2>3. QED
    BY <2>1, <2>2
<1>12. HintedTab(y)
  BY <1>1, <1>2, <1>11
  DEF Fits, HintedTab, Covered, Attentive, WorkRemains, CanSync, Alike, Kept, Working, InFlight, Requests
<1>13. SignedTab(t, y)
  <2>1. cookie \in Nat /\ y.signed \in Nat /\ y.revision \in Nat
    BY <1>11 DEF Inv, TypeInv, Tab
  <2>2. QED
    BY <1>1, <1>11, <2>1
    DEF Fits, SignedTab, Alike, Kept, Requests, StandsIn
<1>14. /\ tab' = [tab EXCEPT ![t] = y]
       /\ leader' = [leader EXCEPT !.owner = t, !.fresh = TRUE]
       /\ lapses' = [lapses EXCEPT !.outlived = @ \ {t}]
       /\ Available(t)
       /\ UNCHANGED <<store, server, cookie, budget>>
  BY <1>1, <1>3, <1>4, <1>5, <1>6 DEF Granted, Set
<1>15. /\ lapses' \in [outlived : SUBSET Tabs, early : SUBSET Tabs] /\ lapses'.early = lapses.early
       /\ leader' \in [owner : Tabs \cup {Absent}, fresh : BOOLEAN, locks : BOOLEAN]
       /\ BudgetType'
  BY <1>14 DEF Inv, TypeInv, BudgetType
<1>16. \A u \in Tabs \ {t} : Leads(u) => Leads(u)'
  BY <1>14, SchedulingAssumption DEF Leads, Available, Inv, TypeInv
<1>17. Leads(t)'
  BY <1>14 DEF Leads, Inv, TypeInv
<1>18. y.open
  BY <1>2, <1>11 DEF Alike, Kept
<1>19. QED
  BY <1>11, <1>12, <1>13, <1>14, <1>15, <1>16, <1>17, <1>18, LeaderStep

(* The end of a lifecycle: what came in meanwhile runs on a timer.           *)
LEMMA ReleaseStep == ASSUME Inv, NEW t \in Tabs, Release(t) PROVE Inv'
<1>1. PICK x \in Tab : x = tab[t] /\ Fits(t, x)
  BY AtTab
<1>2. x.open /\ x.pc = "release"
  BY <1>1, OpenTab DEF Release
<1>3. PICK a : a = [x EXCEPT !.pc = "none", !.job = NoJob]
  OBVIOUS
<1>4. PICK b : b = FollowUp(a)
  OBVIOUS
<1>5. PICK y : y = Retried(b, x.job)
  OBVIOUS
<1>6. a \in Tab /\ Alike(x, a) /\ a.pc = "none" /\ a.timer = x.timer /\ a.followUp = x.followUp
      /\ a.paused = x.paused
  <2>1. NoJob \in Job
    BY DEF NoJob, Job
  <2>2. QED
    BY <2>1, <1>3 DEF Tab, Alike, Kept
<1>7. b \in Tab /\ Alike(a, b) /\ b.pc = "none" /\ b.paused = a.paused /\ (a.timer => b.timer)
      /\ (a.followUp /\ CanSync(a) /\ ~a.paused /\ a.visible => b.timer)
  <2>1. CASE ~a.followUp
    BY <2>1, <1>4, <1>6 DEF FollowUp, Alike, Kept
  <2>2. CASE a.followUp
    <3>1. PICK c : c = TakeIntent(a)
      OBVIOUS
    <3>2. PICK r \in BOOLEAN : r = a.reconcile
      BY <1>6 DEF Tab
    <3>3. c \in Tab /\ Alike(a, c) /\ c.pc = "none" /\ c.paused = a.paused /\ c.timer = a.timer
      BY <3>1, <1>6 DEF TakeIntent, Tab, Alike, Kept
    <3>4. b = Schedule(c, r)
      BY <2>2, <1>4, <3>1, <3>2 DEF FollowUp
    <3>5. /\ b \in Tab /\ Alike(c, b) /\ b.paused = c.paused /\ b.pc = c.pc
          /\ (c.timer => b.timer)
          /\ (CanSync(c) /\ ~c.paused /\ c.visible => b.timer)
      BY <3>3, <3>4, ScheduleEffect
    <3>6. QED
      BY <3>3, <3>5 DEF Alike, Kept, CanSync
  <2>3. QED
    BY <2>1, <2>2
<1>8. y \in Tab /\ Alike(b, y) /\ y.pc = "none" /\ y.paused = b.paused /\ (b.timer => y.timer)
  <2>1. PICK r \in BOOLEAN : r = x.job.requested
    BY DEF Tab, Job
  <2>2. y \in {b, Schedule(b, r)}
    BY <1>5, <2>1 DEF Retried
  <2>3. CASE y = b
    BY <2>3, <1>7 DEF Alike, Kept
  <2>4. CASE y = Schedule(b, r)
    BY <2>4, <1>7, ScheduleEffect
  <2>5. QED
    BY <2>2, <2>3, <2>4
<1>9. Alike(x, y) /\ y.paused = x.paused /\ (x.timer => y.timer)
      /\ (x.followUp /\ CanSync(x) /\ ~x.paused /\ x.visible => y.timer)
  BY <1>6, <1>7, <1>8 DEF Alike, Kept, CanSync
<1>10. HintedTab(y)
  BY <1>1, <1>2, <1>8, <1>9
  DEF Fits, HintedTab, Covered, Attentive, WorkRemains, CanSync, Alike, Kept, Working, InFlight, Requests
<1>11. SignedTab(t, y)
  BY <1>1, <1>8, <1>9 DEF Fits, SignedTab, Alike, Kept, Requests, StandsIn
<1>12. /\ tab' = [tab EXCEPT ![t] = y]
       /\ leader' = IF leader.owner = t THEN [leader EXCEPT !.owner = Absent, !.fresh = TRUE]
                    ELSE leader
       /\ UNCHANGED <<store, server, cookie, budget, lapses>>
  BY <1>1, <1>3, <1>4, <1>5 DEF Release, Set
<1>13. /\ lapses' \in [outlived : SUBSET Tabs, early : SUBSET Tabs] /\ lapses'.early = lapses.early
       /\ leader' \in [owner : Tabs \cup {Absent}, fresh : BOOLEAN, locks : BOOLEAN]
       /\ BudgetType'
  BY <1>12 DEF Inv, TypeInv, BudgetType
<1>14. \A u \in Tabs \ {t} : Leads(u) => Leads(u)'
  BY <1>12 DEF Leads, Inv, TypeInv
<1>15. y.open /\ ~Working(y)
  BY <1>2, <1>8, <1>9 DEF Alike, Kept, Working, InFlight, Requests
<1>16. QED
  BY <1>8, <1>10, <1>11, <1>12, <1>13, <1>14, <1>15, LeaderStep
LEMMA RenewStep == ASSUME Inv, NEW t \in Tabs, Renew(t) PROVE Inv'
<1>1. PICK x \in Tab : x = tab[t] /\ Fits(t, x)
  BY AtTab
<1>2. tab' = [tab EXCEPT ![t] = x]
  BY <1>1 DEF Renew, Inv, TypeInv
<1>3. /\ lapses' \in [outlived : SUBSET Tabs, early : SUBSET Tabs] /\ lapses'.early = lapses.early
      /\ leader' \in [owner : Tabs \cup {Absent}, fresh : BOOLEAN, locks : BOOLEAN]
      /\ BudgetType' /\ UNCHANGED <<store, server, cookie>>
  BY DEF Renew, Inv, TypeInv, BudgetType
<1>4. \A u \in Tabs : Leads(u) => Leads(u)'
  BY DEF Renew, Leads, Inv, TypeInv
<1>5. Leads(t)'
  BY DEF Renew, Leads, Inv, TypeInv
<1>6. QED
  BY <1>1, <1>2, <1>3, <1>4, <1>5, LeaderStep DEF Fits, LeadsTab

(* A lease runs out under an owner at work, who outlives it from now on.     *)
LEMMA ExpireStep == ASSUME Inv, Expire PROVE Inv'
<1>1. PICK t \in Tabs : t = leader.owner
  BY DEF Expire, Inv, TypeInv
<1>2. PICK x \in Tab : x = tab[t] /\ Fits(t, x)
  BY AtTab
<1>3. tab' = [tab EXCEPT ![t] = x]
  BY <1>2 DEF Expire, Inv, TypeInv
<1>4. /\ lapses' \in [outlived : SUBSET Tabs, early : SUBSET Tabs] /\ lapses'.early = lapses.early
      /\ leader' \in [owner : Tabs \cup {Absent}, fresh : BOOLEAN, locks : BOOLEAN]
      /\ UNCHANGED <<store, server, cookie>>
  <2>1. lapses' = lapses \/ lapses' = [lapses EXCEPT !.outlived = @ \cup {t}]
    BY <1>1 DEF Expire
  <2>2. lapses' \in [outlived : SUBSET Tabs, early : SUBSET Tabs] /\ lapses'.early = lapses.early
    BY <2>1 DEF Inv, TypeInv
  <2>3. QED
    BY <2>2 DEF Expire, Inv, TypeInv
<1>5. BudgetType'
  BY Spending DEF Expire, Inv, TypeInv, BudgetType
<1>6. \A u \in Tabs \ {t} : Leads(u) => Leads(u)'
  BY <1>1 DEF Expire, Leads, Inv, TypeInv
<1>7. Working(x) => Leads(t)'
  <2>1. Working(x) => x.open
    BY <1>2, OpenTab DEF Working, InFlight, Requests
  <2>2. QED
    BY <1>1, <1>2, <2>1 DEF Expire, Leads, Inv, TypeInv
<1>8. QED
  BY <1>2, <1>3, <1>4, <1>5, <1>6, <1>7, LeaderStep DEF Fits, LeadsTab

-----------------------------------------------------------------------------
(* Steps of the server: a hint changes nothing that a tab must fit, and a    *)
(* session that ends no longer vouches for a sign-in.                        *)
LEMMA HintFits ==
  ASSUME NEW t \in Tabs, NEW x \in Tab, Fits(t, x), NEW s \in Nat,
         NEW y, y = IF x.events = "live" THEN [x EXCEPT !.hint = s] ELSE x
  PROVE  y \in Tab /\ Fits(t, y)
<1>1. CASE x.events = "live"
  <2>1. x.open
    BY <1>1, OpenTab
  <2>2. y \in Tab /\ Alike(x, y) /\ y.paused = x.paused /\ y.pc = x.pc /\ y.job = x.job
        /\ y.timer = x.timer /\ y.followUp = x.followUp
    BY <1>1 DEF Tab, Alike, Kept
  <2>3. QED
    BY <2>1, <2>2, Same
<1>2. CASE x.events # "live"
  BY <1>2
<1>3. QED
  BY <1>1, <1>2

(* The sequence of the server moves, and the tabs with a stream are told.    *)
LEMMA PublishStep ==
  ASSUME Inv, NEW t \in Tabs, NEW y \in Tab, Fits(t, y), y.open,
         store' \in State, store'.cursor = store.cursor,
         server' \in [sequence : Nat, sessions : SUBSET Nat], server'.sessions = server.sessions,
         UNCHANGED <<leader, cookie, lapses>>, BudgetType',
         NEW s \in Nat, tab' = Published([tab EXCEPT ![t] = y], s)
  PROVE  Inv'
<1>1. ASSUME NEW u \in Tabs PROVE tab'[u] \in Tab /\ Fits(u, tab'[u])
  <2>1. PICK x \in Tab : x = [tab EXCEPT ![t] = y][u] /\ Fits(u, x)
    BY DEF Inv, TypeInv
  <2>2. PICK z : z = IF x.events = "live" THEN [x EXCEPT !.hint = s] ELSE x
    OBVIOUS
  <2>3. tab'[u] = z
    BY <2>1, <2>2 DEF Published
  <2>4. QED
    BY <2>1, <2>2, <2>3, HintFits
<1>2. ASSUME NEW u \in Tabs PROVE Fits(u, tab[u])'
  <2>1. PICK z \in Tab : z = tab'[u] /\ Fits(u, z)
    BY <1>1
  <2>2. Fits(u, z)'
    BY <2>1
    DEF Fits, LeadsTab, HintedTab, SignedTab, Covered, Attentive, WorkRemains, CanSync, Working,
        StandsIn
  <2>3. QED
    BY <2>1, <2>2
<1>3. tab' \in [Tabs -> Tab]
  BY <1>1 DEF Published
<1>4. TypeInv' /\ LatestSessions'
  BY <1>3 DEF Inv, TypeInv, LatestSessions, BudgetType
<1>5. QED
  BY <1>2, <1>4 DEF Inv

LEMMA PushedStep == ASSUME Inv, NEW t \in Tabs, Pushed(t) PROVE Inv'
<1>1. PICK x \in Tab : x = tab[t] /\ Fits(t, x)
  BY AtTab
<1>2. PICK a : a = Enter(x, "push")
  OBVIOUS
<1>3. PICK y : y = [a EXCEPT !.job.pushed = TRUE]
  OBVIOUS
<1>4. x.open /\ Working(x)
  BY <1>1, OpenTab DEF Pushed, Working, InFlight, Requests
<1>5. cookie \in Nat /\ "push" \in Requests
  BY DEF Inv, TypeInv, Requests
<1>6. /\ a \in Tab /\ Alike(x, a) /\ a.paused = x.paused /\ a.pc = "push"
      /\ a.job.session = cookie /\ a.job.revision = x.revision /\ ~a.job.aborted
  BY <1>2, <1>5, EnterEffect
<1>7. /\ y \in Tab /\ Alike(a, y) /\ y.paused = a.paused /\ y.pc = "push"
      /\ y.job.session = cookie /\ y.job.revision = x.revision /\ ~y.job.aborted
  <2>1. a.job \in Job
    BY <1>6 DEF Tab
  <2>2. [a.job EXCEPT !.pushed = TRUE] \in Job
    BY <2>1 DEF Job
  <2>3. y = [a EXCEPT !.job = [a.job EXCEPT !.pushed = TRUE]]
    BY <1>3, <1>6 DEF Tab
  <2>4. y \in Tab
    BY <2>2, <2>3, <1>6 DEF Tab
  <2>5. y.job = [a.job EXCEPT !.pushed = TRUE]
    BY <2>3, <1>6 DEF Tab
  <2>6. QED
    BY <2>1, <2>3, <2>4, <2>5, <1>6 DEF Tab, Job, Alike, Kept
<1>8. Fits(t, y) /\ y.open
  <2>1. Alike(x, y) /\ y.paused = x.paused /\ y.job.revision = y.revision /\ y.open
    BY <1>4, <1>6, <1>7 DEF Alike, Kept
  <2>2. QED
    BY <1>1, <1>4, <1>5, <1>7, <2>1, NextStep
<1>9. PICK s \in Nat : s = server.sequence + 1
  BY DEF Inv, TypeInv
<1>10. tab' = Published([tab EXCEPT ![t] = y], s)
  BY <1>1, <1>2, <1>3, <1>9 DEF Pushed, Inv, TypeInv
<1>11. /\ store' \in State /\ store'.cursor = store.cursor
       /\ server' \in [sequence : Nat, sessions : SUBSET Nat] /\ server'.sessions = server.sessions
       /\ UNCHANGED <<leader, cookie, lapses>> /\ BudgetType'
  BY DEF Pushed, Inv, TypeInv, State, BudgetType
<1>12. QED
  BY <1>7, <1>8, <1>10, <1>11, PublishStep

(* The sequence moves elsewhere, and the sessions stay.                      *)
LEMMA ElsewhereStep ==
  ASSUME Inv, UNCHANGED <<store, leader, cookie, lapses>>, BudgetType',
         server' \in [sequence : Nat, sessions : SUBSET Nat], LatestSessions',
         server'.sessions \subseteq server.sessions, tab' \in [Tabs -> Tab],
         \A u \in Tabs : Fits(u, tab'[u])
  PROVE  Inv'
<1>1. ASSUME NEW u \in Tabs PROVE Fits(u, tab[u])'
  <2>1. PICK z \in Tab : z = tab'[u] /\ Fits(u, z)
    OBVIOUS
  <2>2. Fits(u, z)'
    BY <2>1
    DEF Fits, LeadsTab, HintedTab, SignedTab, Covered, Attentive, WorkRemains, CanSync, Working,
        StandsIn
  <2>3. QED
    BY <2>1, <2>2
<1>2. TypeInv'
  BY DEF Inv, TypeInv, BudgetType
<1>3. QED
  BY <1>1, <1>2 DEF Inv

LEMMA RemoteChangeStep == ASSUME Inv, RemoteChange PROVE Inv'
<1>1. PICK s \in Nat : s = server.sequence + 1
  BY DEF Inv, TypeInv
<1>2. ASSUME NEW u \in Tabs PROVE tab'[u] \in Tab /\ Fits(u, tab'[u])
  <2>1. PICK x \in Tab : x = tab[u] /\ Fits(u, x)
    BY AtTab
  <2>2. PICK z : z = IF x.events = "live" THEN [x EXCEPT !.hint = s] ELSE x
    OBVIOUS
  <2>3. tab'[u] = z
    BY <1>1, <2>1, <2>2 DEF RemoteChange, Published
  <2>4. QED
    BY <2>1, <2>2, <2>3, HintFits
<1>3. tab' \in [Tabs -> Tab]
  BY <1>2 DEF RemoteChange, Published
<1>4. BudgetType'
  BY Spending DEF RemoteChange, Inv
<1>5. /\ server' \in [sequence : Nat, sessions : SUBSET Nat] /\ server'.sessions = server.sessions
      /\ UNCHANGED <<store, leader, cookie, lapses>>
  BY DEF RemoteChange, Inv, TypeInv
<1>6. LatestSessions'
  BY <1>5 DEF Inv, LatestSessions
<1>7. QED
  BY <1>2, <1>3, <1>4, <1>5, <1>6, ElsewhereStep

LEMMA RestoreStep == ASSUME Inv, Restore PROVE Inv'
<1>1. BudgetType'
  BY Spending DEF Restore, Inv
<1>2. /\ server' \in [sequence : Nat, sessions : SUBSET Nat] /\ server'.sessions = server.sessions
      /\ UNCHANGED <<tab, store, leader, cookie, lapses>>
  BY DEF Restore, Inv, TypeInv
<1>3. LatestSessions'
  BY <1>2 DEF Inv, LatestSessions
<1>4. tab' \in [Tabs -> Tab] /\ \A u \in Tabs : Fits(u, tab'[u])
  BY <1>2 DEF Inv, TypeInv
<1>5. QED
  BY <1>1, <1>2, <1>3, <1>4, ElsewhereStep

LEMMA RevokeSessionStep == ASSUME Inv, RevokeSession PROVE Inv'
<1>1. BudgetType'
  BY Spending DEF RevokeSession, Inv
<1>2. /\ server' \in [sequence : Nat, sessions : SUBSET Nat] /\ server'.sessions = {}
      /\ UNCHANGED <<tab, store, leader, cookie, lapses>>
  BY DEF RevokeSession, Inv, TypeInv
<1>3. LatestSessions'
  BY <1>2 DEF LatestSessions
<1>4. tab' \in [Tabs -> Tab] /\ \A u \in Tabs : Fits(u, tab'[u])
  BY <1>2 DEF Inv, TypeInv
<1>5. QED
  BY <1>1, <1>2, <1>3, <1>4, ElsewhereStep
-----------------------------------------------------------------------------
(* The timers and events of a tab                                            *)
LEMMA TimerStep == ASSUME Inv, NEW t \in Tabs, Timer(t) PROVE Inv'
<1>1. PICK x \in Tab : x = tab[t] /\ Fits(t, x) /\ x.open
  BY AtTab DEF Timer, Step
<1>2. PICK a : a = [x EXCEPT !.timer = FALSE, !.reconcile = FALSE]
  OBVIOUS
<1>3. PICK b : b = [x EXCEPT !.timer = FALSE]
  OBVIOUS
<1>4. PICK c : c = [x EXCEPT !.timer = FALSE, !.followUp = TRUE]
  OBVIOUS
<1>5. PICK r \in BOOLEAN : r = x.reconcile
  BY DEF Tab
<1>6. PICK y : y = IF ~x.visible THEN b ELSE IF x.pc # "none" THEN c ELSE Now(a, r, TRUE)
  OBVIOUS
<1>7. y \in Tab /\ Fits(t, y)
  <2>1. CASE ~x.visible
    <3>1. y \in Tab /\ Alike(x, y) /\ y.pc = x.pc /\ y.job = x.job
      BY <2>1, <1>3, <1>6 DEF Tab, Alike, Kept
    <3>2. QED
      BY <1>1, <2>1, <3>1
      DEF Fits, LeadsTab, HintedTab, SignedTab, Alike, Kept, Covered, Attentive, WorkRemains, CanSync,
          Working, InFlight, Requests, StandsIn
  <2>2. CASE x.visible /\ x.pc # "none"
    <3>1. y \in Tab /\ Alike(x, y) /\ y.pc = x.pc /\ y.job = x.job /\ y.followUp
      BY <2>2, <1>4, <1>6 DEF Tab, Alike, Kept
    <3>2. QED
      BY <1>1, <2>2, <3>1
      DEF Fits, LeadsTab, HintedTab, SignedTab, Alike, Kept, Covered, Attentive, WorkRemains, CanSync,
          Working, InFlight, Requests, StandsIn
  <2>3. CASE x.visible /\ x.pc = "none"
    <3>1. a \in Tab /\ Alike(x, a) /\ a.paused = x.paused /\ a.pc = "none"
      BY <2>3, <1>2 DEF Tab, Alike, Kept
    <3>2. /\ y \in Tab /\ Alike(a, y) /\ y.paused = a.paused /\ y.pc \in {"none", "asking"}
          /\ CanSync(a) /\ ~a.paused => y.pc = "asking"
      <4>1. PICK d \in BOOLEAN : d = TRUE
        OBVIOUS
      <4>2. y = Now(a, r, d)
        BY <2>3, <1>6, <4>1
      <4>3. QED
        BY <4>2, <3>1, NowEffect
    <3>3. QED
      BY <1>1, <2>3, <3>1, <3>2
      DEF Fits, LeadsTab, HintedTab, SignedTab, Alike, Kept, Covered, Attentive, WorkRemains, CanSync,
          Working, InFlight, Requests, StandsIn
  <2>4. QED
    BY <2>1, <2>2, <2>3
<1>8. Around /\ tab' = [tab EXCEPT ![t] = y]
  BY <1>1, <1>2, <1>3, <1>4, <1>5, <1>6, AtTab DEF Timer, Step, Set
<1>9. QED
  BY <1>7, <1>8, TabStep

LEMMA DeliverStep == ASSUME Inv, NEW t \in Tabs, Deliver(t) PROVE Inv'
<1>1. PICK x \in Tab : x = tab[t] /\ Fits(t, x)
  BY AtTab
<1>2. x.open
  BY <1>1 DEF Deliver, Step
<1>3. PICK k \in Nat : k = IF x.hint > x.known THEN x.hint ELSE x.known
  BY DEF Tab
<1>4. PICK y : y = [x EXCEPT !.hint = 0, !.reading = x.hint, !.known = k]
  OBVIOUS
<1>5. /\ y \in Tab /\ y.open = x.open /\ y.visible = x.visible /\ y.authRequired = x.authRequired
      /\ y.signing = x.signing /\ y.revision = x.revision /\ y.signed = x.signed
      /\ y.credential = x.credential /\ y.failed = x.failed /\ y.attention = x.attention
      /\ y.changeTimer = x.changeTimer /\ y.events = x.events /\ y.subscribed = x.subscribed
      /\ y.paused = x.paused /\ y.pc = x.pc /\ y.job = x.job /\ y.timer = x.timer
      /\ y.followUp = x.followUp /\ y.reading = x.hint /\ y.known = k
  BY <1>3, <1>4 DEF Tab
<1>6. /\ x.events = "live" /\ x.reading = 0
      /\ x.hint \in Nat /\ x.known \in Nat /\ store.cursor \in Nat
  BY <1>1 DEF Deliver, Tab, Inv, TypeInv, State
<1>7. k > store.cursor => y.reading = y.known \/ (x.known > store.cursor /\ x.reading # x.known /\ y.known = x.known)
  BY <1>3, <1>5, <1>6
<1>8. Fits(t, y)
  BY <1>1, <1>2, <1>5, <1>6, <1>7
  DEF Fits, LeadsTab, HintedTab, SignedTab, Alike, Kept, Covered, Attentive, WorkRemains, CanSync,
      Working, InFlight, Requests, StandsIn
<1>9. Around
  BY AtTab DEF Deliver, Step
<1>10. tab' = [tab EXCEPT ![t] = y]
  BY <1>1, <1>3, <1>4 DEF Deliver, Step, Set
<1>11. QED
  BY <1>5, <1>8, <1>9, <1>10, TabStep

LEMMA HandleChangeStep == ASSUME Inv, NEW t \in Tabs, HandleChange(t) PROVE Inv'
<1>1. PICK x \in Tab : x = tab[t] /\ Fits(t, x) /\ x.open /\ x.reading # 0
  BY AtTab DEF HandleChange, Step
<1>2. PICK a : a = [x EXCEPT !.reading = 0]
  OBVIOUS
<1>3. PICK y : y = IF x.reading <= store.cursor THEN Settle(a)
                   ELSE IF Working(a) THEN Schedule(a, FALSE) ELSE ScheduleChangeSync(a)
  OBVIOUS
<1>4. /\ a \in Tab /\ a.open = x.open /\ a.visible = x.visible /\ a.authRequired = x.authRequired
      /\ a.signing = x.signing /\ a.revision = x.revision /\ a.signed = x.signed
      /\ a.credential = x.credential /\ a.failed = x.failed /\ a.attention = x.attention
      /\ a.changeTimer = x.changeTimer /\ a.events = x.events /\ a.subscribed = x.subscribed
      /\ a.paused = x.paused /\ a.pc = x.pc /\ a.job = x.job /\ a.timer = x.timer
      /\ a.followUp = x.followUp /\ a.known = x.known
  BY <1>2 DEF Tab
<1>5. store.cursor \in Nat /\ x.reading \in Nat /\ x.known \in Nat
  BY DEF Inv, TypeInv, State, Tab
<1>6. y \in Tab /\ Fits(t, y)
  <2>1. CASE x.reading <= store.cursor
    <3>1. Fits(t, a)
      BY <1>1, <1>4, <1>5, <2>1
      DEF Fits, LeadsTab, HintedTab, SignedTab, Alike, Kept, Covered, Attentive, WorkRemains, CanSync,
          Working, InFlight, Requests, StandsIn
    <3>2. QED
      BY <1>1, <1>3, <1>4, <2>1, <3>1, SettleFits
  <2>2. CASE ~(x.reading <= store.cursor) /\ Working(a)
    <3>1. /\ y \in Tab /\ Alike(a, y) /\ y.paused = a.paused /\ y.pc = a.pc /\ y.job = a.job
          /\ CanSync(a) /\ ~a.paused /\ a.pc # "none" => y.followUp
      BY <1>3, <1>4, <2>2, ScheduleEffect
    <3>2. QED
      BY <1>1, <1>4, <2>2, <3>1
      DEF Fits, LeadsTab, HintedTab, SignedTab, Alike, Kept, Covered, Attentive, WorkRemains, CanSync,
          Working, InFlight, Requests, StandsIn
  <2>3. CASE ~(x.reading <= store.cursor) /\ ~Working(a)
    <3>1. y = [a EXCEPT !.changePending = TRUE, !.changeTimer = TRUE]
      BY <1>3, <1>4, <2>3 DEF ScheduleChangeSync, Tab
    <3>2. /\ y \in Tab /\ y.open = a.open /\ y.visible = a.visible /\ y.authRequired = a.authRequired
          /\ y.signing = a.signing /\ y.revision = a.revision /\ y.signed = a.signed
          /\ y.credential = a.credential /\ y.failed = a.failed /\ y.attention = a.attention
          /\ y.changeTimer /\ y.events = a.events /\ y.subscribed = a.subscribed
          /\ y.paused = a.paused /\ y.pc = a.pc /\ y.job = a.job /\ y.timer = a.timer
          /\ y.followUp = a.followUp /\ y.known = a.known
      BY <3>1, <1>4 DEF Tab
    <3>3. QED
      BY <1>1, <1>4, <2>3, <3>2
      DEF Fits, LeadsTab, HintedTab, SignedTab, Alike, Kept, Covered, Attentive, WorkRemains, CanSync,
          Working, InFlight, Requests, StandsIn
  <2>4. QED
    BY <2>1, <2>2, <2>3
<1>7. Around /\ tab' = [tab EXCEPT ![t] = y]
  BY <1>1, <1>2, <1>3, AtTab DEF HandleChange, Step, Set
<1>8. QED
  BY <1>6, <1>7, TabStep

LEMMA ChangeTimerStep == ASSUME Inv, NEW t \in Tabs, ChangeTimer(t) PROVE Inv'
<1>1. PICK x \in Tab : x = tab[t] /\ Fits(t, x) /\ x.open
  BY AtTab DEF ChangeTimer, Step
<1>2. PICK a : a = [x EXCEPT !.changeTimer = FALSE]
  OBVIOUS
<1>3. PICK b : b = [a EXCEPT !.changePending = FALSE]
  OBVIOUS
<1>4. PICK y : y = IF Working(a) THEN a ELSE Schedule(b, FALSE)
  OBVIOUS
<1>5. /\ b \in Tab /\ b.open = a.open /\ b.visible = a.visible /\ b.authRequired = a.authRequired
      /\ b.signing = a.signing /\ b.revision = a.revision /\ b.signed = a.signed
      /\ b.credential = a.credential /\ b.failed = a.failed /\ b.attention = a.attention
      /\ b.events = a.events /\ b.subscribed = a.subscribed /\ b.reading = a.reading
      /\ b.paused = a.paused /\ b.pc = a.pc /\ b.job = a.job /\ b.timer = a.timer
      /\ b.followUp = a.followUp /\ b.known = a.known
  BY <1>2, <1>3 DEF Tab
<1>6. /\ a \in Tab /\ a.open = x.open /\ a.visible = x.visible /\ a.authRequired = x.authRequired
      /\ a.signing = x.signing /\ a.revision = x.revision /\ a.signed = x.signed
      /\ a.credential = x.credential /\ a.failed = x.failed /\ a.attention = x.attention
      /\ a.events = x.events /\ a.subscribed = x.subscribed /\ a.reading = x.reading
      /\ a.paused = x.paused /\ a.pc = x.pc /\ a.job = x.job /\ a.timer = x.timer
      /\ a.followUp = x.followUp /\ a.known = x.known
  BY <1>2 DEF Tab
<1>7. y \in Tab /\ Fits(t, y)
  <2>1. CASE Working(a)
    <3>1. y = a
      BY <1>4, <2>1
    <3>2. LeadsTab(t, a) /\ SignedTab(t, a)
      BY <1>1, <1>6 DEF Fits, LeadsTab, SignedTab, Working, StandsIn
    <3>3. HintedTab(a)
      BY <1>1, <1>6, <2>1 DEF Fits, HintedTab, Covered, Attentive, WorkRemains, CanSync, Working
    <3>4. QED
      BY <1>6, <3>1, <3>2, <3>3 DEF Fits
  <2>2. CASE ~Working(a)
    <3>1. /\ y \in Tab /\ Alike(b, y) /\ y.paused = b.paused /\ y.pc = b.pc /\ y.job = b.job
          /\ (b.timer => y.timer) /\ (b.followUp => y.followUp)
          /\ CanSync(b) /\ ~b.paused =>
               IF b.pc = "none" THEN b.visible => y.timer ELSE y.followUp
      BY <1>4, <1>5, <2>2, ScheduleEffect
    <3>2. LeadsTab(t, y) /\ SignedTab(t, y)
      <4>1. /\ y.open /\ y.authRequired = x.authRequired /\ y.revision = x.revision
            /\ y.signed = x.signed /\ y.events = x.events /\ y.subscribed = x.subscribed
            /\ y.pc = x.pc /\ y.job = x.job
        BY <1>1, <1>5, <1>6, <3>1 DEF Alike, Kept
      <4>2. QED
        BY <1>1, <4>1 DEF Fits, LeadsTab, SignedTab, Working, StandsIn
    <3>3. HintedTab(y)
      BY <1>1, <1>5, <1>6, <3>1
      DEF Fits, HintedTab, Alike, Kept, Covered, Attentive, WorkRemains, CanSync
    <3>4. QED
      BY <3>1, <3>2, <3>3 DEF Fits
  <2>3. QED
    BY <2>1, <2>2
<1>8. Around /\ tab' = [tab EXCEPT ![t] = y]
  BY <1>1, <1>2, <1>3, <1>4, AtTab DEF ChangeTimer, Step, Set
<1>9. QED
  BY <1>7, <1>8, TabStep

LEMMA HeartbeatStep == ASSUME Inv, NEW t \in Tabs, Heartbeat(t) PROVE Inv'
<1>1. PICK x \in Tab : x = tab[t] /\ Fits(t, x)
  BY AtTab
<1>2. x.open
  BY <1>1 DEF Heartbeat, Step
<1>3. PICK y : y = Schedule(x, TRUE)
  OBVIOUS
<1>4. y \in Tab /\ Fits(t, y)
  BY <1>1, <1>2, <1>3, ScheduleEffect, Same
<1>5. Around
  BY AtTab DEF Heartbeat, Step
<1>6. tab' = [tab EXCEPT ![t] = y]
  BY <1>1, <1>3 DEF Heartbeat, Step, Set
<1>7. QED
  BY <1>4, <1>5, <1>6, TabStep

LEMMA ReopenedStep == ASSUME Inv, NEW t \in Tabs, Reopened(t) PROVE Inv'
<1>1. PICK x \in Tab : x = tab[t] /\ Fits(t, x)
  BY AtTab
<1>2. x.open
  BY <1>1 DEF Reopened, Step
<1>3. PICK a : a = [x EXCEPT !.events = "live", !.subscribed = cookie]
  OBVIOUS
<1>4. PICK y : y = IF a.failed THEN Schedule(a, TRUE) ELSE a
  OBVIOUS
<1>5. /\ a \in Tab /\ Kept(x, a) /\ a.events = "live" /\ a.subscribed = cookie
      /\ a.paused = x.paused /\ a.pc = x.pc /\ a.job = x.job /\ a.timer = x.timer
      /\ a.followUp = x.followUp
  BY <1>3 DEF Inv, TypeInv, Tab, Kept
<1>6. x.events = "dead" /\ cookie \in Nat
  BY <1>1 DEF Reopened, Inv, TypeInv
<1>7. Fits(t, a) /\ a.open
  BY <1>1, <1>2, <1>5, <1>6
  DEF Fits, LeadsTab, HintedTab, SignedTab, Alike, Kept, Covered, Attentive, WorkRemains, CanSync,
      Working, InFlight, Requests, StandsIn
<1>8. y \in Tab /\ Fits(t, y)
  BY <1>4, <1>5, <1>7, ScheduleEffect, Same
<1>9. Around
  BY AtTab DEF Reopened, Step
<1>10. tab' = [tab EXCEPT ![t] = y]
  BY <1>1, <1>3, <1>4 DEF Reopened, Step, Set
<1>11. QED
  BY <1>8, <1>9, <1>10, TabStep

LEMMA WatchdogStep == ASSUME Inv, NEW t \in Tabs, Watchdog(t) PROVE Inv'
<1>1. PICK x \in Tab : x = tab[t] /\ Fits(t, x)
  BY AtTab
<1>2. x.open
  BY <1>1 DEF Watchdog, Step
<1>3. PICK a : a = [x EXCEPT !.events = "none", !.subscribed = 0]
  OBVIOUS
<1>4. PICK y : y = Now(a, TRUE, FALSE)
  OBVIOUS
<1>5. /\ a \in Tab /\ Kept(x, a) /\ a.events = "none"
      /\ a.paused = x.paused /\ a.pc = x.pc /\ a.job = x.job /\ a.timer = x.timer
      /\ a.followUp = x.followUp
  BY <1>3 DEF Tab, Kept
<1>6. /\ y \in Tab /\ Alike(a, y) /\ y.paused = a.paused
      /\ a.pc # "none" => y.pc = a.pc /\ y.job = a.job
      /\ a.pc = "none" => y.pc \in {"none", "asking"}
      /\ (a.timer => y.timer) /\ (a.followUp => y.followUp)
      /\ CanSync(a) /\ ~a.paused => IF a.pc = "none" THEN y.pc = "asking" ELSE y.followUp
  <2>1. PICK d \in BOOLEAN : d = TRUE
    OBVIOUS
  <2>2. PICK e \in BOOLEAN : e = FALSE
    OBVIOUS
  <2>3. y = Now(a, d, e)
    BY <1>4, <2>1, <2>2
  <2>4. QED
    BY <2>3, <1>5, NowEffect
<1>7. Fits(t, y)
  BY <1>1, <1>2, <1>5, <1>6
  DEF Fits, LeadsTab, HintedTab, SignedTab, Alike, Kept, Covered, Attentive, WorkRemains, CanSync,
      Working, InFlight, Requests, StandsIn
<1>8. Around
  BY AtTab DEF Watchdog, Step
<1>9. tab' = [tab EXCEPT ![t] = y]
  BY <1>1, <1>3, <1>4 DEF Watchdog, Step, Set
<1>10. QED
  BY <1>6, <1>7, <1>8, <1>9, TabStep

(* The end of a stream, like a rejected request, speaks for its session only. *)
LEMMA Ended ==
  ASSUME Inv, NEW x \in Tab, NEW s \in Nat, x.signed <= s, s <= cookie, s \notin server.sessions
  PROVE  ~StandsIn(x)
<1>1. SUFFICES ASSUME x.signed \in server.sessions PROVE FALSE
  BY DEF StandsIn
<1>2. x.signed \in Nat /\ cookie \in Nat
  BY DEF Inv, TypeInv, Tab
<1>3. s \in x.signed .. cookie
  BY <1>2
<1>4. QED
  BY <1>1, <1>3 DEF Inv, LatestSessions

LEMMA SessionExpiredStep == ASSUME Inv, NEW t \in Tabs, SessionExpired(t) PROVE Inv'
<1>1. PICK x \in Tab : x = tab[t] /\ Fits(t, x)
  BY AtTab
<1>2. x.open
  BY <1>1, OpenTab DEF SessionExpired, Step
<1>3. PICK a : a = RequireAuthentication(x)
  OBVIOUS
<1>4. PICK y : y = CancelActive(a)
  OBVIOUS
<1>5. /\ a \in Tab /\ a.open = x.open /\ a.visible = x.visible /\ a.authRequired
      /\ a.signing = x.signing /\ a.revision = x.revision /\ a.signed = x.signed
      /\ a.credential = x.credential /\ a.pc = x.pc /\ a.job = x.job
      /\ a.events = "none" /\ a.known = 0
  BY <1>3, RequireEffect
<1>6. /\ y \in Tab /\ Alike(a, y) /\ y.pc = a.pc
      /\ y.job.session = a.job.session /\ y.job.revision = a.job.revision
  BY <1>4, <1>5, AbortEffect
<1>7. t \notin lapses.early => ~StandsIn(x)
  <2>1. x.subscribed \in Nat
    BY DEF Tab
  <2>2. x.events = "live" /\ x.subscribed \notin server.sessions
    BY <1>1 DEF SessionExpired
  <2>3. QED
    BY <1>1, <2>1, <2>2, Ended DEF Fits, SignedTab
<1>8. Fits(t, y)
  BY <1>1, <1>2, <1>5, <1>6, <1>7
  DEF Fits, LeadsTab, HintedTab, SignedTab, Alike, Kept, Covered, Attentive, WorkRemains, CanSync,
      Working, InFlight, Requests, StandsIn
<1>9. Around
  BY AtTab DEF SessionExpired, Step
<1>10. tab' = [tab EXCEPT ![t] = y]
  BY <1>1, <1>3, <1>4 DEF SessionExpired, Step, Set
<1>11. QED
  BY <1>6, <1>8, <1>9, <1>10, TabStep

LEMMA PeriodicStep == ASSUME Inv, NEW t \in Tabs, Periodic(t) PROVE Inv'
<1>1. PICK x \in Tab : x = tab[t] /\ Fits(t, x)
  BY AtTab
<1>2. x.open
  BY <1>1, OpenTab DEF Periodic, Step
<1>3. PICK r \in BOOLEAN : r <=> x.events # "live"
  BY Zenon
<1>4. PICK y : y = Schedule(x, r)
  OBVIOUS
<1>5. y \in Tab /\ Fits(t, y)
  BY <1>1, <1>2, <1>4, ScheduleEffect, Same
<1>6. Around
  BY AtTab DEF Periodic, Step
<1>7. tab' = [tab EXCEPT ![t] = y]
  BY <1>1, <1>3, <1>4 DEF Periodic, Step, Set
<1>8. QED
  BY <1>5, <1>6, <1>7, TabStep

-----------------------------------------------------------------------------
(* What the user does                                                        *)
LEMMA OnlineStep == ASSUME Inv, NEW t \in Tabs, Online(t) PROVE Inv'
<1>1. PICK x \in Tab : x = tab[t] /\ Fits(t, x)
  BY AtTab
<1>2. x.open
  BY <1>1, OpenTab DEF Online, Step
<1>3. PICK a : a = Connect(x)
  OBVIOUS
<1>4. PICK y : y = Schedule(a, TRUE)
  OBVIOUS
<1>5. a \in Tab /\ Fits(t, a) /\ a.open
  BY <1>1, <1>2, <1>3, ConnectFits DEF Kept
<1>6. y \in Tab /\ Fits(t, y)
  BY <1>4, <1>5, ScheduleEffect, Same
<1>7. Around
  BY Spending DEF Online, Step, Around, Inv, TypeInv, State
<1>8. tab' = [tab EXCEPT ![t] = y]
  BY <1>1, <1>3, <1>4 DEF Online, Step, Set
<1>9. QED
  BY <1>6, <1>7, <1>8, TabStep

LEMMA RetryStep == ASSUME Inv, NEW t \in Tabs, Retry(t) PROVE Inv'
<1>1. PICK x \in Tab : x = tab[t] /\ Fits(t, x)
  BY AtTab
<1>2. x.open
  BY <1>1, OpenTab DEF Retry, Step
<1>3. PICK a : a = Resume(x)
  OBVIOUS
<1>4. PICK d \in BOOLEAN : d = FALSE
  OBVIOUS
<1>5. PICK y : y = Now(a, d, d)
  OBVIOUS
<1>6. a \in Tab /\ Alike(x, a) /\ a.pc = x.pc /\ a.job = x.job /\ a.timer = x.timer
      /\ a.followUp = x.followUp /\ (Working(x) => a.paused = x.paused)
  BY <1>3 DEF Resume, Tab, Alike, Kept
<1>7. /\ y \in Tab /\ Alike(a, y) /\ y.paused = a.paused
      /\ a.pc # "none" => y.pc = a.pc /\ y.job = a.job
      /\ a.pc = "none" => y.pc \in {"none", "asking"}
      /\ (a.timer => y.timer) /\ (a.followUp => y.followUp)
      /\ CanSync(a) /\ ~a.paused => IF a.pc = "none" THEN y.pc = "asking" ELSE y.followUp
  BY <1>5, <1>6, NowEffect
<1>8. Fits(t, y)
  BY <1>1, <1>2, <1>6, <1>7
  DEF Fits, LeadsTab, HintedTab, SignedTab, Alike, Kept, Covered, Attentive, WorkRemains, CanSync,
      Working, InFlight, Requests, StandsIn
<1>9. Around
  BY AtTab DEF Retry, Step
<1>10. tab' = [tab EXCEPT ![t] = y]
  BY <1>1, <1>3, <1>4, <1>5 DEF Retry, Step, Set
<1>11. QED
  BY <1>7, <1>8, <1>9, <1>10, TabStep

LEMMA HideStep == ASSUME Inv, NEW t \in Tabs, Hide(t) PROVE Inv'
<1>1. PICK x \in Tab : x = tab[t] /\ Fits(t, x)
  BY AtTab
<1>2. x.open
  BY <1>1, OpenTab DEF Hide, Step
<1>3. PICK a : a = [x EXCEPT !.visible = FALSE]
  OBVIOUS
<1>4. PICK b : b = CancelScheduled(a)
  OBVIOUS
<1>5. PICK y : y = CancelActive(b)
  OBVIOUS
<1>6. a \in Tab /\ ~a.visible /\ a.open = x.open /\ a.authRequired = x.authRequired /\ a.signing = x.signing
      /\ a.revision = x.revision /\ a.signed = x.signed /\ a.credential = x.credential
      /\ a.failed = x.failed /\ a.attention = x.attention /\ a.reading = x.reading
      /\ a.known = x.known /\ a.changeTimer = x.changeTimer /\ a.events = x.events
      /\ a.subscribed = x.subscribed /\ a.paused = x.paused /\ a.pc = x.pc /\ a.job = x.job
      /\ a.timer = x.timer /\ a.followUp = x.followUp
  BY <1>3 DEF Tab
<1>7. b \in Tab /\ b.open = a.open /\ b.visible = a.visible /\ b.authRequired = a.authRequired
      /\ b.signing = a.signing /\ b.revision = a.revision /\ b.signed = a.signed
      /\ b.credential = a.credential /\ b.failed = a.failed /\ b.attention = a.attention
      /\ b.reading = a.reading /\ b.known = a.known /\ b.changeTimer = a.changeTimer
      /\ b.events = a.events /\ b.subscribed = a.subscribed /\ b.paused = a.paused
      /\ b.pc = a.pc /\ b.job = a.job
  BY <1>4, <1>6 DEF CancelScheduled, Tab
<1>8. /\ y \in Tab /\ Alike(b, y) /\ y.pc = b.pc
      /\ y.job.session = b.job.session /\ y.job.revision = b.job.revision
  BY <1>5, <1>7, AbortEffect
<1>9. Fits(t, y)
  <2>1. /\ y.open /\ ~y.visible /\ y.authRequired = x.authRequired /\ y.revision = x.revision
        /\ y.signed = x.signed /\ y.credential = x.credential /\ y.known = x.known
        /\ y.events = x.events /\ y.subscribed = x.subscribed /\ y.pc = x.pc
        /\ y.job.session = x.job.session /\ y.job.revision = x.job.revision
    BY <1>2, <1>6, <1>7, <1>8 DEF Alike, Kept
  <2>2. QED
    BY <1>1, <2>1
    DEF Fits, LeadsTab, HintedTab, SignedTab, Attentive, Working, StandsIn
<1>10. Around
  BY Spending DEF Hide, Step, Around, Inv, TypeInv, State
<1>11. tab' = [tab EXCEPT ![t] = y]
  BY <1>1, <1>3, <1>4, <1>5 DEF Hide, Step, Set
<1>12. QED
  BY <1>8, <1>9, <1>10, <1>11, TabStep

LEMMA ShowStep == ASSUME Inv, NEW t \in Tabs, Show(t) PROVE Inv'
<1>1. PICK x \in Tab : x = tab[t] /\ Fits(t, x)
  BY AtTab
<1>2. x.open
  BY <1>1, OpenTab DEF Show, Step
<1>3. PICK a : a = [x EXCEPT !.visible = TRUE]
  OBVIOUS
<1>4. PICK b : b = Connect(a)
  OBVIOUS
<1>5. PICK y : y = Schedule(b, FALSE)
  OBVIOUS
<1>6. a \in Tab /\ a.visible /\ a.open = x.open /\ a.authRequired = x.authRequired /\ a.signing = x.signing
      /\ a.revision = x.revision /\ a.signed = x.signed /\ a.credential = x.credential
      /\ a.failed = x.failed /\ a.attention = x.attention /\ a.reading = x.reading
      /\ a.known = x.known /\ a.changeTimer = x.changeTimer /\ a.events = x.events
      /\ a.subscribed = x.subscribed /\ a.paused = x.paused /\ a.pc = x.pc /\ a.job = x.job
      /\ a.timer = x.timer /\ a.followUp = x.followUp
  BY <1>3 DEF Tab
<1>7. LeadsTab(t, b) /\ SignedTab(t, b) /\ b \in Tab /\ b.open
      /\ (b.authRequired \/ b.credential \in {"waiting", "changing"} => b.events = "none" /\ b.known = 0)
  <2>1. PICK v \in BOOLEAN : v <=> cookie \in server.sessions
    BY Zenon
  <2>2. PICK s \in Nat : s = cookie
    BY DEF Inv, TypeInv
  <2>3. b = ConnectWith(a, v, s)
    BY <1>4, <2>1, <2>2 DEF Connect, ConnectWith
  <2>4. /\ b \in Tab /\ Kept(a, b) /\ b.pc = a.pc /\ b.job = a.job
        /\ \/ b.events = a.events /\ b.subscribed = a.subscribed
           \/ CanSync(a) /\ a.events = "none" /\ b.subscribed = s
    BY <1>6, <2>3, ConnectEffect
  <2>5. QED
    BY <1>1, <1>2, <1>6, <2>2, <2>4
    DEF Fits, LeadsTab, HintedTab, SignedTab, Kept, CanSync, Working, StandsIn
<1>8. /\ y \in Tab /\ Alike(b, y) /\ y.paused = b.paused /\ y.pc = b.pc /\ y.job = b.job
      /\ CanSync(b) /\ ~b.paused => IF b.pc = "none" THEN b.visible => y.timer ELSE y.followUp
  BY <1>5, <1>7, ScheduleEffect
<1>9. Fits(t, y)
  BY <1>7, <1>8
  DEF Fits, LeadsTab, HintedTab, SignedTab, Alike, Kept, Covered, Attentive, WorkRemains, CanSync,
      Working, InFlight, Requests, StandsIn
<1>10. Around
  BY AtTab DEF Show, Step
<1>11. tab' = [tab EXCEPT ![t] = y]
  BY <1>1, <1>3, <1>4, <1>5 DEF Show, Step, Set
<1>12. QED
  BY <1>8, <1>9, <1>10, <1>11, TabStep

LEMMA EditStep == ASSUME Inv, NEW t \in Tabs, Edit(t) PROVE Inv'
<1>1. PICK x \in Tab : x = tab[t] /\ Fits(t, x)
  BY AtTab
<1>2. x.open
  BY <1>1, OpenTab DEF Edit, Step
<1>3. PICK y : y = Schedule(x, FALSE)
  OBVIOUS
<1>4. y \in Tab /\ Fits(t, y)
  BY <1>1, <1>2, <1>3, ScheduleEffect, Same
<1>5. Around
  <2>1. store' \in State /\ store'.cursor = store.cursor
    BY DEF Edit, Inv, TypeInv, State
  <2>2. store'.cursor \in Nat
    BY <2>1 DEF State
  <2>3. QED
    BY <2>1, <2>2, Spending DEF Edit, Around, Inv, TypeInv
<1>6. tab' = [tab EXCEPT ![t] = y]
  BY <1>1, <1>3 DEF Edit, Step, Set
<1>7. QED
  BY <1>4, <1>5, <1>6, TabStep

LEMMA BreakStreamStep == ASSUME Inv, NEW t \in Tabs, BreakStream(t) PROVE Inv'
<1>1. PICK x \in Tab : x = tab[t] /\ Fits(t, x)
  BY AtTab
<1>2. x.open
  BY <1>1, OpenTab DEF BreakStream, Step
<1>3. PICK y : y = [x EXCEPT !.events = "dead", !.hint = 0]
  OBVIOUS
<1>4. y \in Tab /\ Kept(x, y) /\ y.events = "dead" /\ y.paused = x.paused /\ y.pc = x.pc
      /\ y.job = x.job /\ y.timer = x.timer /\ y.followUp = x.followUp
  BY <1>3 DEF Tab, Kept
<1>5. x.events = "live"
  BY <1>1 DEF BreakStream
<1>6. Fits(t, y)
  BY <1>1, <1>2, <1>4, <1>5
  DEF Fits, LeadsTab, HintedTab, SignedTab, Alike, Kept, Covered, Attentive, WorkRemains, CanSync,
      Working, InFlight, Requests, StandsIn
<1>7. Around
  BY Spending DEF BreakStream, Step, Around, Inv, TypeInv, State
<1>8. tab' = [tab EXCEPT ![t] = y]
  BY <1>1, <1>3 DEF BreakStream, Step, Set
<1>9. QED
  BY <1>4, <1>6, <1>7, <1>8, TabStep

-----------------------------------------------------------------------------
(* Signing in, and changing credentials                                      *)
LEMMA SignInStartsStep == ASSUME Inv, NEW t \in Tabs, SignInStarts(t) PROVE Inv'
<1>1. PICK x \in Tab : x = tab[t] /\ Fits(t, x)
  BY AtTab
<1>2. x.open
  BY <1>1, OpenTab DEF SignInStarts, Step
<1>3. PICK k \in Nat : k = x.revision + 1
  BY DEF Tab
<1>4. PICK y : y = [x EXCEPT !.authRequired = FALSE, !.signing = TRUE, !.revision = k]
  OBVIOUS
<1>5. y \in Tab /\ ~y.authRequired /\ y.revision = k /\ y.open = x.open /\ y.visible = x.visible /\ y.signed = x.signed
      /\ y.credential = x.credential /\ y.failed = x.failed /\ y.attention = x.attention
      /\ y.reading = x.reading /\ y.known = x.known /\ y.changeTimer = x.changeTimer
      /\ y.events = x.events /\ y.subscribed = x.subscribed /\ y.paused = x.paused
      /\ y.pc = x.pc /\ y.job = x.job /\ y.timer = x.timer /\ y.followUp = x.followUp
  BY <1>3, <1>4 DEF Tab
<1>6. x.authRequired /\ store.cursor \in Nat /\ x.revision \in Nat /\ x.job.revision \in Nat
  BY <1>1 DEF SignInStarts, Inv, TypeInv, State, Tab, Job
<1>7. Fits(t, y)
  BY <1>1, <1>2, <1>3, <1>5, <1>6
  DEF Fits, LeadsTab, HintedTab, SignedTab, Alike, Kept, Covered, Attentive, WorkRemains, CanSync,
      Working, InFlight, Requests, StandsIn
<1>8. Around
  BY Spending DEF SignInStarts, Step, Around, Inv, TypeInv, State
<1>9. tab' = [tab EXCEPT ![t] = y]
  BY <1>1, <1>3, <1>4 DEF SignInStarts, Step, Set
<1>10. QED
  BY <1>5, <1>7, <1>8, <1>9, TabStep

LEMMA SignInFailsStep == ASSUME Inv, NEW t \in Tabs, SignInFails(t) PROVE Inv'
<1>1. PICK x \in Tab : x = tab[t] /\ Fits(t, x)
  BY AtTab
<1>2. x.open
  BY <1>1, OpenTab DEF SignInFails, Step
<1>3. PICK y : y = [x EXCEPT !.signing = FALSE]
  OBVIOUS
<1>4. y \in Tab /\ y.open = x.open /\ y.visible = x.visible /\ y.authRequired = x.authRequired
      /\ y.revision = x.revision /\ y.signed = x.signed /\ y.credential = x.credential
      /\ y.failed = x.failed /\ y.attention = x.attention /\ y.reading = x.reading
      /\ y.known = x.known /\ y.changeTimer = x.changeTimer /\ y.events = x.events
      /\ y.subscribed = x.subscribed /\ y.paused = x.paused /\ y.pc = x.pc /\ y.job = x.job
      /\ y.timer = x.timer /\ y.followUp = x.followUp
  BY <1>3 DEF Tab
<1>5. Fits(t, y)
  BY <1>1, <1>2, <1>4
  DEF Fits, LeadsTab, HintedTab, SignedTab, Alike, Kept, Covered, Attentive, WorkRemains, CanSync,
      Working, InFlight, Requests, StandsIn
<1>6. Around
  BY Spending DEF SignInFails, Step, Around, Inv, TypeInv, State
<1>7. tab' = [tab EXCEPT ![t] = y]
  BY <1>1, <1>3 DEF SignInFails, Step, Set
<1>8. QED
  BY <1>4, <1>5, <1>6, <1>7, TabStep

LEMMA BeginCredentialChangeStep == ASSUME Inv, NEW t \in Tabs, BeginCredentialChange(t) PROVE Inv'
<1>1. PICK x \in Tab : x = tab[t] /\ Fits(t, x)
  BY AtTab
<1>2. x.open
  BY <1>1, OpenTab DEF BeginCredentialChange, Step
<1>3. PICK y : y = [x EXCEPT !.credential = "saving"]
  OBVIOUS
<1>4. y \in Tab /\ y.credential = "saving" /\ y.open = x.open /\ y.visible = x.visible /\ y.authRequired = x.authRequired
      /\ y.signing = x.signing /\ y.revision = x.revision /\ y.signed = x.signed
      /\ y.failed = x.failed /\ y.attention = x.attention /\ y.reading = x.reading
      /\ y.known = x.known /\ y.changeTimer = x.changeTimer /\ y.events = x.events
      /\ y.subscribed = x.subscribed /\ y.paused = x.paused /\ y.pc = x.pc /\ y.job = x.job
      /\ y.timer = x.timer /\ y.followUp = x.followUp
  BY <1>3 DEF Tab
<1>5. ~x.authRequired
  BY <1>1 DEF BeginCredentialChange, CanSync
<1>6. Fits(t, y)
  BY <1>1, <1>2, <1>4, <1>5
  DEF Fits, LeadsTab, HintedTab, SignedTab, Alike, Kept, Covered, Attentive, WorkRemains, CanSync,
      Working, InFlight, Requests, StandsIn
<1>7. Around
  BY Spending DEF BeginCredentialChange, Step, Around, Inv, TypeInv, State
<1>8. tab' = [tab EXCEPT ![t] = y]
  BY <1>1, <1>3 DEF BeginCredentialChange, Step, Set
<1>9. QED
  BY <1>4, <1>6, <1>7, <1>8, TabStep

LEMMA StopSyncStep == ASSUME Inv, NEW t \in Tabs, StopSync(t) PROVE Inv'
<1>1. PICK x \in Tab : x = tab[t] /\ Fits(t, x)
  BY AtTab
<1>2. x.open
  BY <1>1, OpenTab DEF StopSync, Step
<1>3. PICK a : a = CancelScheduled(x)
  OBVIOUS
<1>4. PICK b : b = CancelActive(a)
  OBVIOUS
<1>5. PICK c : c = [b EXCEPT !.events = "none", !.subscribed = 0, !.hint = 0]
  OBVIOUS
<1>6. PICK d : d = [c EXCEPT !.changeTimer = FALSE, !.changePending = FALSE, !.known = 0]
  OBVIOUS
<1>7. PICK y : y = [d EXCEPT !.credential = "waiting"]
  OBVIOUS
<1>8. a \in Tab /\ a.open = x.open /\ a.visible = x.visible /\ a.authRequired = x.authRequired
      /\ a.signing = x.signing /\ a.revision = x.revision /\ a.signed = x.signed
      /\ a.credential = x.credential /\ a.failed = x.failed /\ a.attention = x.attention
      /\ a.reading = x.reading /\ a.known = x.known /\ a.changeTimer = x.changeTimer
      /\ a.events = x.events /\ a.subscribed = x.subscribed /\ a.paused = x.paused
      /\ a.pc = x.pc /\ a.job = x.job
  BY <1>3 DEF CancelScheduled, Tab
<1>9. /\ b \in Tab /\ Alike(a, b) /\ b.pc = a.pc /\ b.paused = a.paused
      /\ b.job.session = a.job.session /\ b.job.revision = a.job.revision
  BY <1>4, <1>8, AbortEffect
<1>10. c \in Tab /\ c.events = "none" /\ c.open = b.open /\ c.visible = b.visible /\ c.authRequired = b.authRequired
      /\ c.signing = b.signing /\ c.revision = b.revision /\ c.signed = b.signed
      /\ c.credential = b.credential /\ c.failed = b.failed /\ c.attention = b.attention
      /\ c.reading = b.reading /\ c.known = b.known /\ c.changeTimer = b.changeTimer
      /\ c.paused = b.paused /\ c.pc = b.pc /\ c.job = b.job
  BY <1>5, <1>9 DEF Tab
<1>11. d \in Tab /\ d.known = 0 /\ d.open = c.open /\ d.visible = c.visible /\ d.authRequired = c.authRequired
      /\ d.signing = c.signing /\ d.revision = c.revision /\ d.signed = c.signed
      /\ d.credential = c.credential /\ d.failed = c.failed /\ d.attention = c.attention
      /\ d.reading = c.reading /\ d.events = c.events /\ d.subscribed = c.subscribed
      /\ d.paused = c.paused /\ d.pc = c.pc /\ d.job = c.job
  BY <1>6, <1>10 DEF Tab
<1>12. y \in Tab /\ y.credential = "waiting" /\ y.open = d.open /\ y.visible = d.visible /\ y.authRequired = d.authRequired
      /\ y.signing = d.signing /\ y.revision = d.revision /\ y.signed = d.signed
      /\ y.failed = d.failed /\ y.attention = d.attention /\ y.reading = d.reading
      /\ y.known = d.known /\ y.changeTimer = d.changeTimer /\ y.events = d.events
      /\ y.subscribed = d.subscribed /\ y.paused = d.paused /\ y.pc = d.pc /\ y.job = d.job
  BY <1>7, <1>11 DEF Tab
<1>13. Fits(t, y)
  <2>1. /\ y.open = x.open /\ y.authRequired = x.authRequired /\ y.revision = x.revision
        /\ y.signed = x.signed /\ y.credential = "waiting" /\ y.known = 0
        /\ y.events = "none" /\ y.pc = x.pc
        /\ y.job.session = x.job.session /\ y.job.revision = x.job.revision
    BY <1>8, <1>9, <1>10, <1>11, <1>12 DEF Alike, Kept
  <2>2. QED
    BY <1>1, <1>2, <2>1
    DEF Fits, LeadsTab, HintedTab, SignedTab, Attentive, CanSync, Working, StandsIn
<1>14. Around
  BY AtTab DEF StopSync, Step
<1>15. tab' = [tab EXCEPT ![t] = y]
  BY <1>1, <1>3, <1>4, <1>5, <1>6, <1>7 DEF StopSync, Step, Set, Disconnect, ResetPendingChanges
<1>16. QED
  BY <1>12, <1>13, <1>14, <1>15, TabStep

LEMMA WaitForIdleStep == ASSUME Inv, NEW t \in Tabs, WaitForIdle(t) PROVE Inv'
<1>1. PICK x \in Tab : x = tab[t] /\ Fits(t, x)
  BY AtTab
<1>2. x.open
  BY <1>1, OpenTab DEF WaitForIdle, Step
<1>3. PICK y : y = [x EXCEPT !.credential = "changing"]
  OBVIOUS
<1>4. y \in Tab /\ y.credential = "changing" /\ y.open = x.open /\ y.visible = x.visible /\ y.authRequired = x.authRequired
      /\ y.signing = x.signing /\ y.revision = x.revision /\ y.signed = x.signed
      /\ y.failed = x.failed /\ y.attention = x.attention /\ y.reading = x.reading
      /\ y.known = x.known /\ y.changeTimer = x.changeTimer /\ y.events = x.events
      /\ y.subscribed = x.subscribed /\ y.paused = x.paused /\ y.pc = x.pc /\ y.job = x.job
      /\ y.timer = x.timer /\ y.followUp = x.followUp
  BY <1>3 DEF Tab
<1>5. x.credential = "waiting"
  BY <1>1 DEF WaitForIdle
<1>6. Fits(t, y)
  BY <1>1, <1>2, <1>4, <1>5
  DEF Fits, LeadsTab, HintedTab, SignedTab, Alike, Kept, Covered, Attentive, WorkRemains, CanSync,
      Working, InFlight, Requests, StandsIn
<1>7. Around
  BY AtTab DEF WaitForIdle, Step
<1>8. tab' = [tab EXCEPT ![t] = y]
  BY <1>1, <1>3 DEF WaitForIdle, Step, Set
<1>9. QED
  BY <1>4, <1>6, <1>7, <1>8, TabStep

LEMMA EndCredentialChangeStep == ASSUME Inv, NEW t \in Tabs, EndCredentialChange(t) PROVE Inv'
<1>1. PICK x \in Tab : x = tab[t] /\ Fits(t, x)
  BY AtTab
<1>2. x.open
  BY <1>1, OpenTab DEF EndCredentialChange, Step
<1>3. PICK a : a = [x EXCEPT !.credential = "none"]
  OBVIOUS
<1>4. PICK b : b = Connect(a)
  OBVIOUS
<1>5. PICK y : y = IF x.authRequired THEN a ELSE Schedule(b, FALSE)
  OBVIOUS
<1>6. a \in Tab /\ a.credential = "none" /\ a.open = x.open /\ a.visible = x.visible /\ a.authRequired = x.authRequired
      /\ a.signing = x.signing /\ a.revision = x.revision /\ a.signed = x.signed
      /\ a.failed = x.failed /\ a.attention = x.attention /\ a.reading = x.reading
      /\ a.known = x.known /\ a.changeTimer = x.changeTimer /\ a.events = x.events
      /\ a.subscribed = x.subscribed /\ a.paused = x.paused /\ a.pc = x.pc /\ a.job = x.job
      /\ a.timer = x.timer /\ a.followUp = x.followUp
  BY <1>3 DEF Tab
<1>7. x.credential = "changing" /\ store.cursor \in Nat
  BY <1>1 DEF EndCredentialChange, Inv, TypeInv, State
<1>8. Fits(t, a) /\ a.open
  BY <1>1, <1>2, <1>6, <1>7
  DEF Fits, LeadsTab, HintedTab, SignedTab, Alike, Kept, Covered, Attentive, WorkRemains, CanSync,
      Working, InFlight, Requests, StandsIn
<1>9. b \in Tab /\ Fits(t, b) /\ b.open
  BY <1>4, <1>6, <1>8, ConnectFits DEF Kept
<1>10. y \in Tab /\ Fits(t, y)
  BY <1>5, <1>6, <1>8, <1>9, ScheduleEffect, Same
<1>11. Around
  BY AtTab DEF EndCredentialChange, Step
<1>12. tab' = [tab EXCEPT ![t] = y]
  BY <1>1, <1>3, <1>4, <1>5 DEF EndCredentialChange, Step, Set
<1>13. QED
  BY <1>10, <1>11, <1>12, TabStep
(* A tab as init() leaves it, and a closed one.                              *)
LEMMA FreshTab ==
  /\ Fresh \in Tab /\ Fresh.open /\ ~Fresh.authRequired /\ Fresh.pc = "none"
  /\ Fresh.events = "live" /\ Fresh.subscribed = 1 /\ Fresh.known = 0 /\ Fresh.signed = 0
  /\ Fresh.credential = "none"
<1>1. NoJob \in Job
  BY DEF NoJob, Job
<1>2. QED
  BY <1>1 DEF Fresh, Tab

LEMMA ClosedTab ==
  /\ Closed \in Tab /\ ~Closed.open /\ ~Closed.visible /\ Closed.pc = "none"
  /\ Closed.events = "none" /\ Closed.known = 0 /\ Closed.signed = 0
<1>1. PICK a : a = [Fresh EXCEPT !.open = FALSE, !.visible = FALSE, !.timer = FALSE]
  OBVIOUS
<1>2. PICK b : b = [a EXCEPT !.reconcile = FALSE, !.events = "none", !.subscribed = 0]
  OBVIOUS
<1>3. Closed = b
  BY <1>1, <1>2 DEF Closed
<1>4. /\ a \in Tab /\ ~a.open /\ ~a.visible /\ a.pc = "none" /\ a.known = 0 /\ a.signed = 0
  BY <1>1, FreshTab DEF Tab
<1>5. /\ b \in Tab /\ ~b.open /\ ~b.visible /\ b.pc = "none" /\ b.known = 0 /\ b.signed = 0
      /\ b.events = "none"
  BY <1>2, <1>4 DEF Tab
<1>6. QED
  BY <1>3, <1>5

(* A tab that is closed loses its web lock, and its lease is nobody's.       *)
LEMMA CloseStep == ASSUME Inv, NEW t \in Tabs, Close(t) PROVE Inv'
<1>1. PICK x \in Tab : x = tab[t] /\ Fits(t, x)
  BY AtTab
<1>2. PICK y \in Tab : y = Closed
  BY ClosedTab
<1>3. tab' = [tab EXCEPT ![t] = y]
  BY <1>2 DEF Close, Set
<1>4. BudgetType'
  BY Spending DEF Close, Inv
<1>5. /\ lapses' \in [outlived : SUBSET Tabs, early : SUBSET Tabs] /\ lapses'.early = lapses.early
      /\ leader' \in [owner : Tabs \cup {Absent}, fresh : BOOLEAN, locks : BOOLEAN]
      /\ UNCHANGED <<store, server, cookie>>
  BY DEF Close, Inv, TypeInv
<1>6. \A u \in Tabs \ {t} : Leads(u) => Leads(u)'
  BY DEF Close, Leads, Inv, TypeInv
<1>7. HintedTab(y) /\ SignedTab(t, y) /\ ~Working(y)
  <2>1. cookie \in Nat
    BY DEF Inv, TypeInv
  <2>2. QED
    BY <1>2, <2>1, ClosedTab
    DEF HintedTab, SignedTab, Attentive, Working, InFlight, Requests, StandsIn
<1>8. QED
  BY <1>2, <1>3, <1>4, <1>5, <1>6, <1>7, LeaderStep

(* A sign-in succeeds: its session is the newest, and what is under way is   *)
(* of an older revision, or the sign-in is marked.                           *)
LEMMA SignInSucceedsStep == ASSUME Inv, NEW t \in Tabs, SignInSucceeds(t) PROVE Inv'
<1>1. PICK x \in Tab : x = tab[t] /\ Fits(t, x)
  BY AtTab
<1>2. x.open /\ x.signing
  BY <1>1, OpenTab DEF SignInSucceeds
<1>3. PICK new \in Nat : new = cookie + 1
  BY DEF Inv, TypeInv
<1>4. PICK d \in BOOLEAN : d = TRUE
  OBVIOUS
<1>5. PICK a : a = [x EXCEPT !.signing = FALSE, !.authRequired = FALSE, !.signed = new]
  OBVIOUS
<1>6. PICK b : b = ConnectWith(a, d, new)
  OBVIOUS
<1>7. PICK y : y = Schedule(b, d)
  OBVIOUS
<1>8. /\ a \in Tab /\ ~a.authRequired /\ a.signed = new
      /\ a.open = x.open /\ a.visible = x.visible /\ a.revision = x.revision
      /\ a.credential = x.credential /\ a.failed = x.failed /\ a.attention = x.attention
      /\ a.reading = x.reading /\ a.known = x.known /\ a.changeTimer = x.changeTimer
      /\ a.events = x.events /\ a.subscribed = x.subscribed /\ a.paused = x.paused
      /\ a.pc = x.pc /\ a.job = x.job /\ a.timer = x.timer /\ a.followUp = x.followUp
  BY <1>3, <1>5 DEF Tab
<1>9. /\ b \in Tab /\ Kept(a, b) /\ b.paused = a.paused /\ b.pc = a.pc /\ b.job = a.job
      /\ b.timer = a.timer /\ b.followUp = a.followUp
      /\ \/ b.events = a.events /\ b.subscribed = a.subscribed
         \/ CanSync(a) /\ a.events = "none" /\ b.subscribed = new
  BY <1>6, <1>8, ConnectEffect
<1>10. /\ y \in Tab /\ Alike(b, y) /\ y.paused = b.paused /\ y.pc = b.pc /\ y.job = b.job
       /\ (b.timer => y.timer) /\ (b.followUp => y.followUp)
       /\ CanSync(b) /\ ~b.paused => IF b.pc = "none" THEN b.visible => y.timer ELSE y.followUp
  BY <1>4, <1>7, <1>9, ScheduleEffect
<1>11. /\ tab' = [tab EXCEPT ![t] = y]
       /\ cookie' = new /\ server' = [server EXCEPT !.sessions = @ \cup {new}]
       /\ lapses' = [lapses EXCEPT !.early = IF Overlaps(x) THEN @ \cup {t} ELSE @ \ {t}]
       /\ UNCHANGED <<store, leader, budget>>
  BY <1>1, <1>3, <1>4, <1>5, <1>6, <1>7 DEF SignInSucceeds, Set
<1>12. /\ lapses' \in [outlived : SUBSET Tabs, early : SUBSET Tabs]
       /\ lapses'.outlived = lapses.outlived
       /\ lapses'.early = IF Overlaps(x) THEN lapses.early \cup {t} ELSE lapses.early \ {t}
       /\ server'.sessions = server.sessions \cup {new}
  <2>1. lapses.early \cup {t} \in SUBSET Tabs /\ lapses.early \ {t} \in SUBSET Tabs
    BY DEF Inv, TypeInv
  <2>2. CASE Overlaps(x)
    BY <1>11, <2>1, <2>2 DEF Inv, TypeInv
  <2>3. CASE ~Overlaps(x)
    BY <1>11, <2>1, <2>3 DEF Inv, TypeInv
  <2>4. QED
    BY <2>2, <2>3
<1>13. TypeInv'
  BY <1>3, <1>10, <1>11, <1>12 DEF Inv, TypeInv
<1>14. LatestSessions'
  <2>1. cookie \in Nat /\ server.sessions \subseteq Nat
    BY DEF Inv, TypeInv
  <2>2. ASSUME NEW s \in server'.sessions
        PROVE  s <= cookie' /\ \A r \in s .. cookie' : r \in server'.sessions
    <3>1. CASE s \in server.sessions
      <4>1. s <= cookie /\ \A r \in s .. cookie : r \in server.sessions
        BY <3>1 DEF Inv, LatestSessions
      <4>2. \A r \in s .. new : r \in s .. cookie \/ r = new
        BY <1>3, <2>1, <3>1
      <4>3. QED
        BY <1>3, <1>11, <1>12, <2>1, <3>1, <4>1, <4>2
    <3>2. CASE s = new
      BY <1>11, <1>12, <3>2
    <3>3. QED
      BY <1>12, <2>2, <3>1, <3>2
  <2>3. QED
    BY <2>2 DEF LatestSessions
<1>15. ASSUME NEW u \in Tabs, u # t PROVE Fits(u, tab[u])'
  <2>1. PICK z \in Tab : z = tab[u] /\ Fits(u, z)
    BY AtTab
  <2>2. z = tab'[u]
    BY <1>11, <1>15, <2>1 DEF Inv, TypeInv
  <2>3. cookie \in Nat /\ z.signed \in Nat /\ z.job.session \in Nat /\ z.subscribed \in Nat
    BY DEF Inv, TypeInv, Tab, Job
  <2>4. LeadsTab(u, z)' /\ HintedTab(z)'
    BY <2>1, <1>11, <1>12
    DEF Fits, LeadsTab, HintedTab, Covered, Attentive, WorkRemains, CanSync, Working
  <2>5. SignedTab(u, z)'
    BY <2>1, <2>3, <1>3, <1>11, <1>12, <1>15 DEF Fits, SignedTab, StandsIn
  <2>6. QED
    BY <2>2, <2>4, <2>5 DEF Fits
<1>16. Fits(t, tab[t])'
  <2>1. y = tab'[t]
    BY <1>11 DEF Inv, TypeInv
  <2>2. LeadsTab(t, y)'
    BY <1>1, <1>2, <1>8, <1>9, <1>10, <1>11, <1>12 DEF Fits, LeadsTab, Alike, Kept, Working
  <2>3. HintedTab(y)
    BY <1>1, <1>8, <1>9, <1>10
    DEF Fits, HintedTab, Alike, Kept, Covered, Attentive, WorkRemains, CanSync, Working
  <2>4. HintedTab(y)'
    BY <2>3, <1>11 DEF HintedTab, Covered, Attentive, WorkRemains, CanSync, Working
  <2>5. cookie \in Nat /\ x.job.session \in Nat /\ x.subscribed \in Nat
    BY DEF Inv, TypeInv, Tab, Job
  <2>6. SignedTab(t, y)'
    BY <1>1, <1>3, <1>8, <1>9, <1>10, <1>11, <1>12, <2>5
    DEF Fits, SignedTab, Alike, Kept, StandsIn, Overlaps
  <2>7. QED
    BY <2>1, <2>2, <2>4, <2>6 DEF Fits
<1>17. QED
  BY <1>13, <1>14, <1>15, <1>16 DEF Inv

-----------------------------------------------------------------------------
(* The first state: whatever the bounds, every tab has a stream of the only  *)
(* session and nothing under way.                                            *)
LEMMA InitInv == Init => Inv
<1> SUFFICES ASSUME Init PROVE Inv
  OBVIOUS
<1>1. PICK bounds \in Budgets : tab = [t \in Tabs |-> IF t \in bounds.tabs THEN Fresh ELSE Closed]
                                /\ leader = [owner |-> Absent, fresh |-> TRUE, locks |-> bounds.locks]
                                /\ budget = bounds
  BY DEF Init
<1>2. /\ store = [cursor |-> 0, queue |-> {}]
      /\ server = [sequence |-> 0, sessions |-> {1}] /\ cookie = 1
      /\ lapses = [outlived |-> {}, early |-> {}]
  BY DEF Init
<1>3. bounds \in [tabs : SUBSET Tabs, locks : BOOLEAN, edits : 0 .. MaxEdits, changes : Nat,
                  events : Nat, faults : Nat, sessions : Nat]
  BY SchedulingAssumption
<1>4. BudgetType
  <2>1. 0 .. MaxEdits \subseteq Nat
    BY SchedulingAssumption
  <2>2. QED
    BY <1>1, <1>3, <2>1 DEF BudgetType
<1>5. TypeInv
  BY <1>1, <1>2, <1>3, <1>4, FreshTab, ClosedTab DEF TypeInv, BudgetType, State
<1>6. LatestSessions
  BY <1>2 DEF LatestSessions
<1>7. ASSUME NEW t \in Tabs PROVE Fits(t, tab[t])
  <2>1. PICK x \in Tab : x = tab[t] /\ x \in {Fresh, Closed}
    BY <1>1, FreshTab, ClosedTab
  <2>2. LeadsTab(t, x)
    BY <2>1, FreshTab, ClosedTab DEF LeadsTab, Working, InFlight, Requests
  <2>3. HintedTab(x)
    BY <2>1, <1>2, FreshTab, ClosedTab DEF HintedTab, WorkRemains
  <2>4. SignedTab(t, x)
    BY <2>1, <1>2, FreshTab, ClosedTab DEF SignedTab, StandsIn, Requests
  <2>5. QED
    BY <2>1, <2>2, <2>3, <2>4 DEF Fits
<1>8. QED
  BY <1>5, <1>6, <1>7 DEF Inv

LEMMA StutterStep == ASSUME Inv, UNCHANGED vars PROVE Inv'
<1>1. TypeInv' /\ LatestSessions'
  BY DEF Inv, TypeInv, LatestSessions, vars
<1>2. ASSUME NEW t \in Tabs PROVE Fits(t, tab[t])'
  <2>1. PICK x \in Tab : x = tab[t] /\ Fits(t, x)
    BY AtTab
  <2>2. Fits(t, x)'
    BY <2>1
    DEF vars, Fits, LeadsTab, HintedTab, SignedTab, Covered, Attentive, WorkRemains, CanSync, Working,
        StandsIn
  <2>3. QED
    BY <2>1, <2>2 DEF vars
<1>3. QED
  BY <1>1, <1>2 DEF Inv

LEMMA NextInv == Inv /\ [Next]_vars => Inv'
<1> SUFFICES ASSUME Inv, [Next]_vars PROVE Inv'
  OBVIOUS
<1>1. ASSUME NEW t \in Tabs, Lifecycle(t) PROVE Inv'
  BY <1>1, GrantedStep, RefusedStep, PulledStep, ReconciledStep, PushedStep, PushedAllStep, CheckStep,
     FinishStep, AbortedStep, UnauthorizedStep, ReleaseStep DEF Lifecycle
<1>2. ASSUME NEW t \in Tabs, Wakes(t) PROVE Inv'
  BY <1>2, TimerStep, DeliverStep, HandleChangeStep, ChangeTimerStep, HeartbeatStep, ReopenedStep,
     WatchdogStep, SessionExpiredStep, PeriodicStep DEF Wakes
<1>3. ASSUME NEW t \in Tabs, User(t) PROVE Inv'
  BY <1>3, OnlineStep, RetryStep, HideStep, ShowStep, CloseStep, EditStep, SignInStartsStep,
     SignInSucceedsStep, SignInFailsStep, BeginCredentialChangeStep, StopSyncStep, WaitForIdleStep,
     EndCredentialChangeStep DEF User
<1>4. ASSUME NEW t \in Tabs, NetworkFails(t) \/ BreakStream(t) \/ Renew(t) PROVE Inv'
  BY <1>4, NetworkFailsStep, BreakStreamStep, RenewStep
<1>5. CASE RemoteChange \/ Restore \/ RevokeSession \/ Expire
  BY <1>5, RemoteChangeStep, RestoreStep, RevokeSessionStep, ExpireStep
<1>6. CASE UNCHANGED vars
  BY <1>6, StutterStep
<1>7. QED
  BY <1>1, <1>2, <1>3, <1>4, <1>5, <1>6 DEF Next

(* Every reachable state satisfies the invariant.                            *)
THEOREM Invariant == Spec => []Inv
<1>1. QED
  BY InitInv, NextInv, PTL DEF Spec

(* Two tabs sync at the same time only when one of them outlived its lease:  *)
(* the lock or the fresh lease has one owner (leadership.js).                *)
THEOREM OneSyncAtATimeHolds == Spec => []OneSyncAtATime
<1>1. Inv => OneSyncAtATime
  BY DEF Inv, Fits, LeadsTab, OneSyncAtATime
<1>2. QED
  BY <1>1, Invariant, PTL

(* A change that an attentive tab knows of and has not pulled has a timer, a *)
(* reader or a sync that will look for it (server-events.js, coordinator.js). *)
THEOREM WakeupKeptHolds == Spec => []WakeupKept
<1>1. Inv => WakeupKept
  <2> SUFFICES ASSUME Inv, NEW t \in Tabs, Attentive(tab[t]), WorkRemains(tab[t])
               PROVE  LET x == tab[t]
                      IN  x.timer \/ x.changeTimer \/ x.reading # 0 \/ x.pc # "none"
    BY DEF WakeupKept
  <2>1. Covered(tab[t])
    BY DEF Inv, Fits, HintedTab
  <2>2. tab[t].known # 0
    BY DEF Inv, TypeInv, State, Tab, WorkRemains
  <2>3. QED
    BY <2>1, <2>2 DEF Covered, Requests
<1>2. QED
  BY <1>1, Invariant, PTL

(* A sign-in whose session is valid is not undone by what is answered or     *)
(* ends later, unless it succeeded beside a request of its own revision or a *)
(* stream of the session before it (api-client.js).                          *)
THEOREM NewSignInStandsHolds == Spec => []NewSignInStands
<1>1. Inv => NewSignInStands
  BY DEF Inv, Fits, SignedTab, NewSignInStands
<1>2. QED
  BY <1>1, Invariant, PTL
=============================================================================
