--------------------------- MODULE SyncScheduling ---------------------------
(***************************************************************************)
(* When the tabs of one browser synchronise: the coordinator of each tab   *)
(* (sync/coordinator.js), the leadership between tabs                      *)
(* (sync/leadership.js), the change hints of the server (event/broker.go,  *)
(* server/events.go, sync/server-events.js) and what app.js connects them  *)
(* to: visibility, the periodic check, signing in and changing             *)
(* credentials.                                                            *)
(*                                                                         *)
(* What a sync does to notes is modelled elsewhere (ChangePull,            *)
(* OfflineSync). Here a pull brings the cursor to the server's sequence,   *)
(* and a push empties the queue. A request is sent when the coordinator    *)
(* enters its step and answered when it leaves it. Times are left out: a   *)
(* timer that is set fires some time.                                      *)
(***************************************************************************)
EXTENDS Integers, FiniteSets

CONSTANTS
  Tabs,
  Absent,
  MaxEdits,  \* bound: edits in this browser
  Budgets    \* bounds of a behaviour: what may happen in it how often

(* tabs are the open ones, locks whether the browser has web locks; edits    *)
(* are made here, changes elsewhere; events hide or close a tab or are the   *)
(* browser's online event; faults are failed requests, broken streams,       *)
(* frozen tabs and restored backups; sessions are revocations, sign-ins and  *)
(* changes of credentials.                                                   *)
ASSUME SchedulingAssumption ==
  /\ IsFiniteSet(Tabs) /\ Absent \notin Tabs
  /\ MaxEdits \in Nat
  /\ Budgets \subseteq [tabs : SUBSET Tabs, locks : BOOLEAN, edits : 0 .. MaxEdits,
                        changes : Nat, events : Nat, faults : Nat, sessions : Nat]

VARIABLES
  tab,     \* what a tab holds in memory
  store,   \* IndexedDB: the cursor and the queue
  leader,  \* the web lock or the lease
  server,  \* the sequence of its feed and the session it accepts
  cookie,  \* the session of the browser
  budget,  \* what is left of the bounds
  lapses   \* history: tabs that outlived their lease at work, and tabs whose
           \* sign-in succeeded beside a request or a stream of the old session

vars == <<tab, store, leader, server, cookie, budget, lapses>>

-----------------------------------------------------------------------------
(* pc: no lifecycle, leadership asked for, the steps of perform, and the end *)
(* of the lifecycle in which leadership is given back.                       *)
Requests == {"pull", "reconcile", "push", "repull"}
InFlight == Requests \cup {"check", "finish"}

(* A sync: whether a timer started it and with which options, what perform   *)
(* keeps in variables, and under which session its last request was sent.    *)
NoJob == [timed |-> FALSE, requested |-> FALSE, reconcile |-> FALSE, pushed |-> FALSE,
          previous |-> Absent, session |-> 0, revision |-> 0, aborted |-> FALSE,
          synced |-> FALSE]

(* A tab as init() leaves it. revision is the API client's                   *)
(* authenticationRevision; signed, a history, the session it signed in to;   *)
(* credential: none, saving, waiting or changing; timer and reconcile:       *)
(* scheduleTimer and scheduleOptions; followUp: pendingWhileInFlight;        *)
(* events: the stream, none, live or dead, opened with the session           *)
(* subscribed; hint: what the broker's channel holds, 0 if nothing; reading: *)
(* a hint that waits for the cursor.                                         *)
Fresh == [open |-> TRUE, visible |-> TRUE, authRequired |-> FALSE, signing |-> FALSE,
          revision |-> 0, signed |-> 0, credential |-> "none", pc |-> "none", job |-> NoJob,
          timer |-> TRUE, reconcile |-> TRUE, followUp |-> FALSE,
          paused |-> FALSE, failed |-> FALSE, attention |-> FALSE,
          events |-> "live", subscribed |-> 1, hint |-> 0, reading |-> 0,
          known |-> 0, changeTimer |-> FALSE, changePending |-> FALSE]

Closed == [Fresh EXCEPT !.open = FALSE, !.visible = FALSE, !.timer = FALSE, !.reconcile = FALSE,
                        !.events = "none", !.subscribed = 0]

(* The end of init() in every tab, with a valid session.                     *)
Init ==
  \E bounds \in Budgets :
    /\ tab = [t \in Tabs |-> IF t \in bounds.tabs THEN Fresh ELSE Closed]
    /\ store = [cursor |-> 0, queue |-> {}]
    /\ leader = [owner |-> Absent, fresh |-> TRUE, locks |-> bounds.locks]
    /\ server = [sequence |-> 0, sessions |-> {1}]
    /\ cookie = 1
    /\ budget = bounds
    /\ lapses = [outlived |-> {}, early |-> {}]

Spend(bound) == budget[bound] > 0 /\ budget' = [budget EXCEPT ![bound] = @ - 1]

-----------------------------------------------------------------------------
(* The coordinator, as functions on what a tab holds                         *)
Working(x)  == x.pc \in InFlight
CanSync(x)  == x.credential = "none" /\ ~x.authRequired
CancelScheduled(x) == [x EXCEPT !.timer = FALSE, !.reconcile = FALSE, !.followUp = FALSE]
CancelActive(x)    == [x EXCEPT !.job.aborted = @ \/ x.pc \in Requests]

(* schedule: an intent that finds a sync in progress waits for its end.      *)
Schedule(x, reconcile) ==
  IF ~CanSync(x) \/ x.paused THEN x
  ELSE IF x.pc # "none" THEN [x EXCEPT !.reconcile = @ \/ reconcile, !.followUp = TRUE]
  ELSE [x EXCEPT !.reconcile = @ \/ reconcile, !.timer = @ \/ x.visible]

(* now: asks for leadership, unless a sync is in progress.                   *)
Now(x, reconcile, timed) ==
  IF ~CanSync(x) \/ x.paused THEN x
  ELSE IF x.pc # "none" THEN [x EXCEPT !.reconcile = @ \/ reconcile, !.followUp = TRUE]
  ELSE [x EXCEPT !.reconcile = @ \/ reconcile, !.pc = "asking",
                 !.job = [NoJob EXCEPT !.timed = timed, !.requested = reconcile]]

Resume(x) == IF Working(x) THEN x ELSE [x EXCEPT !.paused = FALSE]

(* server-events.js                                                          *)
ConnectWith(x, accepted, session) ==
  IF CanSync(x) /\ x.events = "none"
  THEN [x EXCEPT !.events = IF accepted THEN "live" ELSE "dead", !.subscribed = session,
                 !.hint = 0]
  ELSE x
Connect(x) == ConnectWith(x, cookie \in server.sessions, cookie)

ResetPendingChanges(x) == [x EXCEPT !.changeTimer = FALSE, !.changePending = FALSE, !.known = 0]

Disconnect(x) ==
  ResetPendingChanges([x EXCEPT !.events = "none", !.subscribed = 0, !.hint = 0])

ScheduleChangeSync(x) ==
  [x EXCEPT !.changePending = TRUE, !.changeTimer = @ \/ ~Working(x)]

WorkRemains(x) == x.known > store.cursor

Settle(x) == IF x.known <= store.cursor THEN [x EXCEPT !.known = 0] ELSE x

(* requireAuthentication; a session that was revoked also aborts requests.   *)
RequireAuthentication(x) ==
  Disconnect(CancelScheduled([x EXCEPT !.authRequired = TRUE]))

-----------------------------------------------------------------------------
(* A lifecycle: leadership, the requests of perform, and the end.            *)
Set(t, x) == tab' = [tab EXCEPT ![t] = x]

(* The request of a step is sent when the step is entered.                   *)
Enter(x, pc) == [x EXCEPT !.pc = pc, !.job.session = cookie, !.job.revision = x.revision,
                          !.job.aborted = FALSE]

(* What follows the requests: the check, the end, and giving up leadership.  *)
Leave(x, pc) == [x EXCEPT !.pc = pc, !.job.session = 0, !.job.revision = 0, !.job.aborted = FALSE]

End(x, synced) ==
  [x EXCEPT !.pc = "release", !.job = [NoJob EXCEPT !.timed = x.job.timed,
                                                    !.requested = x.job.requested,
                                                    !.synced = synced]]

\* Mutated: a lease never runs out.
Available_Forever(t) == leader.owner \in {Absent, t}
Available(t) == leader.owner \in {Absent, t} \/ ~leader.fresh

TakeIntent(x) == [x EXCEPT !.reconcile = FALSE, !.followUp = FALSE]

(* leadership(() => perform(takePendingIntent()))                            *)
Granted(t) ==
  LET x == tab[t]
      y == [TakeIntent(x) EXCEPT !.job.reconcile = x.reconcile]
  IN  /\ x.pc = "asking" /\ Available(t)
      /\ leader' = [leader EXCEPT !.owner = t, !.fresh = TRUE]
      /\ Set(t, IF CanSync(x) THEN Enter([y EXCEPT !.timer = FALSE], "pull") ELSE End(y, FALSE))
      /\ lapses' = [lapses EXCEPT !.outlived = @ \ {t}]
      /\ UNCHANGED <<store, server, cookie, budget>>

(* onUnavailable asks for another run.                                       *)
Refused(t) ==
  /\ tab[t].pc = "asking" /\ ~Available(t)
  /\ Set(t, End(Schedule(tab[t], FALSE), FALSE))
  /\ UNCHANGED <<store, leader, server, cookie, budget, lapses>>

(* A request of the tab is under way that the server accepts.                *)
Accepted(t) == ~tab[t].job.aborted /\ tab[t].job.session \in server.sessions

Pulled(t) ==
  LET x == tab[t]
  IN  /\ x.pc \in {"pull", "repull"} /\ Accepted(t)
      /\ store' = IF store.cursor < server.sequence
                  THEN [store EXCEPT !.cursor = server.sequence] ELSE store
      /\ Set(t, IF x.pc = "repull" THEN Leave(x, "check")
                ELSE IF ~CanSync(x) THEN End(x, FALSE)
                ELSE Enter(x, IF x.job.reconcile THEN "reconcile" ELSE "push"))
      /\ UNCHANGED <<leader, server, cookie, budget, lapses>>

Reconciled(t) ==
  /\ tab[t].pc = "reconcile" /\ Accepted(t)
  /\ Set(t, Enter(tab[t], "push"))
  /\ UNCHANGED <<store, leader, server, cookie, budget, lapses>>

(* Publish: a channel keeps the newest hint.                                 *)
Published(tabs, sequence) ==
  [t \in Tabs |-> IF tabs[t].events = "live" THEN [tabs[t] EXCEPT !.hint = sequence] ELSE tabs[t]]

Pushed(t) ==
  /\ tab[t].pc = "push" /\ store.queue # {} /\ Accepted(t)
  /\ store'  = [store EXCEPT !.queue = {}]
  /\ server' = [server EXCEPT !.sequence = @ + 1]
  /\ tab' = Published([tab EXCEPT ![t] = [Enter(@, "push") EXCEPT !.job.pushed = TRUE]],
                      server.sequence + 1)
  /\ UNCHANGED <<leader, cookie, budget, lapses>>

PushedAll(t) ==
  /\ tab[t].pc = "push" /\ store.queue = {}
  /\ Set(t, IF tab[t].job.pushed THEN Enter(tab[t], "repull") ELSE Leave(tab[t], "check"))
  /\ UNCHANGED <<store, leader, server, cookie, budget, lapses>>

\* Mutated: a round that changed nothing is tried again.
Check_Forever(t) ==
  LET x == tab[t]
      y == Settle(TakeIntent(x))
  IN  /\ x.pc = "check"
      /\ Set(t, IF ~(x.reconcile \/ store.queue # {} \/ WorkRemains(x))
                THEN [y EXCEPT !.pc = "finish", !.failed = FALSE, !.attention = FALSE]
                ELSE IF CanSync(x)
                THEN Enter([y EXCEPT !.job.reconcile = x.reconcile, !.job.pushed = FALSE], "pull")
                ELSE End(y, FALSE))
      /\ UNCHANGED <<store, leader, server, cookie, budget, lapses>>

(* remainingWork: what came in meanwhile is done at once, unless the last    *)
(* round left everything as it was.                                          *)
Check(t) ==
  LET x       == tab[t]
      y       == Settle(TakeIntent(x))
      current == [cursor |-> store.cursor, queue |-> store.queue]
      remains == x.reconcile \/ store.queue # {} \/ WorkRemains(x)
  IN  /\ x.pc = "check"
      /\ Set(t, IF ~remains
                THEN [y EXCEPT !.pc = "finish", !.failed = FALSE, !.attention = FALSE]
                ELSE IF x.job.previous = current
                THEN End(CancelScheduled([y EXCEPT !.paused = TRUE, !.failed = FALSE]), FALSE)
                ELSE IF CanSync(x)
                THEN Enter([y EXCEPT !.job.previous = current, !.job.reconcile = x.reconcile,
                                     !.job.pushed = FALSE], "pull")
                ELSE End(y, FALSE))
      /\ UNCHANGED <<store, leader, server, cookie, budget, lapses>>

(* The dashboard has been refreshed.                                         *)
Finish(t) ==
  /\ tab[t].pc = "finish"
  /\ Set(t, End(Connect(tab[t]), TRUE))
  /\ UNCHANGED <<store, leader, server, cookie, budget, lapses>>

-----------------------------------------------------------------------------
(* How a request fails: aborted, with a status that needs attention, without *)
(* a response, or rejected. A rejection of an older sign-in is ignored.      *)
Asking(t) == tab[t].pc \in Requests /\ (tab[t].pc = "push" => store.queue # {})

Aborted(t) ==
  /\ Asking(t) /\ tab[t].job.aborted
  /\ Set(t, End(tab[t], FALSE))
  /\ UNCHANGED <<store, leader, server, cookie, budget, lapses>>

NetworkFails(t) ==
  /\ Asking(t)
  /\ Spend("faults")
  /\ \E refused \in BOOLEAN :
       Set(t, End([tab[t] EXCEPT !.failed = ~refused, !.attention = @ \/ refused], FALSE))
  /\ UNCHANGED <<store, leader, server, cookie, lapses>>

\* Mutated: every rejection counts.
Superseded_Never(x) == FALSE
Superseded(x) == x.job.revision # x.revision

Unauthorized(t) ==
  LET x == tab[t]
  IN  /\ Asking(t) /\ x.job.session \notin server.sessions
      /\ Set(t, End(IF Superseded(x) THEN x
                    ELSE RequireAuthentication([x EXCEPT !.failed = FALSE]), FALSE))
      /\ UNCHANGED <<store, leader, server, cookie, budget, lapses>>

(* The end of a lifecycle: leadership is given back, what was asked for      *)
(* meanwhile is scheduled, and a failed sync that a timer started is         *)
(* retried.                                                                  *)
FollowUp(x) == IF x.followUp THEN Schedule(TakeIntent(x), x.reconcile) ELSE x

Retried(x, job) ==
  IF job.timed /\ ~job.synced /\ x.failed THEN Schedule(x, job.requested) ELSE x

\* Mutated: the lease is deleted whoever owns it.
Release_AnyLease(t) ==
  LET x == tab[t]
  IN  /\ x.pc = "release"
      /\ leader' = [leader EXCEPT !.owner = Absent, !.fresh = TRUE]
      /\ Set(t, Retried(FollowUp([x EXCEPT !.pc = "none", !.job = NoJob]), x.job))
      /\ UNCHANGED <<store, server, cookie, budget, lapses>>

Release(t) ==
  LET x == tab[t]
  IN  /\ x.pc = "release"
      /\ leader' = IF leader.owner = t THEN [leader EXCEPT !.owner = Absent, !.fresh = TRUE]
                   ELSE leader
      /\ Set(t, Retried(FollowUp([x EXCEPT !.pc = "none", !.job = NoJob]), x.job))
      /\ UNCHANGED <<store, server, cookie, budget, lapses>>

(* The lease: renewed as long as the owner's timers run.                     *)
Renew(t) ==
  /\ ~leader.locks /\ leader.owner = t /\ Working(tab[t]) /\ ~leader.fresh
  /\ leader' = [leader EXCEPT !.fresh = TRUE]
  /\ UNCHANGED <<tab, store, server, cookie, budget, lapses>>

Expire ==
  /\ ~leader.locks /\ leader.owner # Absent /\ leader.fresh
  /\ leader' = [leader EXCEPT !.fresh = FALSE]
  /\ IF tab[leader.owner].open
     THEN Spend("faults") /\ lapses' = [lapses EXCEPT !.outlived = @ \cup {leader.owner}]
     ELSE UNCHANGED <<budget, lapses>>
  /\ UNCHANGED <<tab, store, server, cookie>>

-----------------------------------------------------------------------------
(* The timers and events of a tab                                            *)
Step(t, x) == tab[t].open /\ Set(t, x) /\ UNCHANGED <<store, leader, server, cookie, lapses>>

Timer(t) ==
  LET x == tab[t]
      y == [x EXCEPT !.timer = FALSE, !.reconcile = FALSE]
  IN  /\ x.timer
      /\ Step(t, IF ~x.visible THEN [x EXCEPT !.timer = FALSE]
                 ELSE IF x.pc # "none" THEN [x EXCEPT !.timer = FALSE, !.followUp = TRUE]
                 ELSE Now(y, x.reconcile, TRUE))
      /\ UNCHANGED budget

(* handleChange: the sequence is noted, then the cursor is read.             *)
Deliver(t) ==
  LET x == tab[t]
  IN  /\ x.events = "live" /\ x.hint # 0 /\ x.reading = 0 /\ x.subscribed \in server.sessions
      /\ Step(t, [x EXCEPT !.hint = 0, !.reading = x.hint,
                           !.known = IF x.hint > @ THEN x.hint ELSE @])
      /\ UNCHANGED budget

\* Mutated: a sync in progress is taken to include the change.
HandleChange_Trusts(t) ==
  LET x == [tab[t] EXCEPT !.reading = 0]
  IN  /\ tab[t].reading # 0
      /\ Step(t, IF tab[t].reading <= store.cursor THEN Settle(x)
                 ELSE IF Working(x) THEN x ELSE ScheduleChangeSync(x))
      /\ UNCHANGED budget

HandleChange(t) ==
  LET x == [tab[t] EXCEPT !.reading = 0]
  IN  /\ tab[t].reading # 0
      /\ Step(t, IF tab[t].reading <= store.cursor THEN Settle(x)
                 ELSE IF Working(x) THEN Schedule(x, FALSE) ELSE ScheduleChangeSync(x))
      /\ UNCHANGED budget

ChangeTimer(t) ==
  LET x == [tab[t] EXCEPT !.changeTimer = FALSE]
  IN  /\ tab[t].changeTimer
      /\ Step(t, IF Working(x) THEN x ELSE Schedule([x EXCEPT !.changePending = FALSE], FALSE))
      /\ UNCHANGED budget

(* A heartbeat, and the opening of a stream that the browser reconnected.    *)
Heartbeat(t) ==
  /\ tab[t].events = "live" /\ tab[t].failed
  /\ Step(t, Schedule(tab[t], TRUE))
  /\ UNCHANGED budget

Reopened(t) ==
  LET x == [tab[t] EXCEPT !.events = "live", !.subscribed = cookie]
  IN  /\ tab[t].events = "dead" /\ cookie \in server.sessions
      /\ Step(t, IF x.failed THEN Schedule(x, TRUE) ELSE x)
      /\ UNCHANGED budget

Watchdog(t) ==
  /\ tab[t].events = "dead"
  /\ Step(t, Now([tab[t] EXCEPT !.events = "none", !.subscribed = 0], TRUE, FALSE))
  /\ UNCHANGED budget

(* The server ends the stream of a session it no longer accepts.             *)
SessionExpired(t) ==
  /\ tab[t].events = "live" /\ tab[t].subscribed \notin server.sessions
  /\ Step(t, CancelActive(RequireAuthentication(tab[t])))
  /\ UNCHANGED budget

Periodic(t) ==
  /\ tab[t].visible /\ ~Working(tab[t])
  /\ Step(t, Schedule(tab[t], tab[t].events # "live"))
  /\ UNCHANGED budget

Online(t) ==
  /\ Spend("events")
  /\ Step(t, Schedule(Connect(tab[t]), TRUE))

(* The user asks for a retry, in a tab that shows the offline notice.        *)
Retry(t) ==
  /\ tab[t].visible /\ (tab[t].failed \/ tab[t].paused)
  /\ Step(t, Now(Resume(tab[t]), FALSE, FALSE))
  /\ UNCHANGED budget

Hide(t) ==
  /\ tab[t].visible
  /\ Spend("events")
  /\ Step(t, CancelActive(CancelScheduled([tab[t] EXCEPT !.visible = FALSE])))

Show(t) ==
  /\ ~tab[t].visible
  /\ Step(t, Schedule(Connect([tab[t] EXCEPT !.visible = TRUE]), FALSE))
  /\ UNCHANGED budget

(* The browser drops the web lock of a tab that is closed; a lease stays.    *)
Close(t) ==
  /\ tab[t].open
  /\ Spend("events")
  /\ Set(t, Closed)
  /\ leader' = IF leader.locks /\ leader.owner = t THEN [leader EXCEPT !.owner = Absent] ELSE leader
  /\ UNCHANGED <<store, server, cookie, lapses>>

(* The stream breaks; the browser reconnects by itself.                      *)
BreakStream(t) ==
  /\ tab[t].events = "live"
  /\ Spend("faults")
  /\ Step(t, [tab[t] EXCEPT !.events = "dead", !.hint = 0])

-----------------------------------------------------------------------------
(* Notes: a save in this tab, which asks for a sync, a change elsewhere, and *)
(* a server that was restored from a backup.                                 *)
Edit(t) ==
  /\ tab[t].visible
  /\ Spend("edits")
  /\ Set(t, Schedule(tab[t], FALSE))
  /\ store' = [store EXCEPT !.queue = @ \cup {budget.edits}]
  /\ UNCHANGED <<leader, server, cookie, lapses>>

RemoteChange ==
  /\ Spend("changes")
  /\ server' = [server EXCEPT !.sequence = @ + 1]
  /\ tab' = Published(tab, server.sequence + 1)
  /\ UNCHANGED <<store, leader, cookie, lapses>>

Restore ==
  /\ server.sequence > 0
  /\ Spend("faults")
  /\ server' = [server EXCEPT !.sequence = @ - 1]
  /\ UNCHANGED <<tab, store, leader, cookie, lapses>>

-----------------------------------------------------------------------------
(* Signing in, and changing the vault's credentials. Another device revokes  *)
(* the session of this browser.                                              *)
RevokeSession ==
  /\ server.sessions # {}
  /\ Spend("sessions")
  /\ server' = [server EXCEPT !.sessions = {}]
  /\ UNCHANGED <<tab, store, leader, cookie, lapses>>

(* The form no longer requires authentication, and the request to log in     *)
(* makes every request sent before it an old one.                            *)
SignInStarts(t) ==
  /\ tab[t].authRequired /\ ~tab[t].signing /\ tab[t].visible
  /\ Spend("sessions")
  /\ Step(t, [tab[t] EXCEPT !.authRequired = FALSE, !.signing = TRUE, !.revision = @ + 1])

(* A request that carries the old cookie and the revision of the new sign-in, *)
(* or a stream that was opened with the old cookie.                          *)
Overlaps(x) ==
  \/ x.pc \in Requests /\ x.job.revision = x.revision
  \/ x.events = "live"

SignInSucceeds(t) ==
  LET new == cookie + 1
  IN  /\ tab[t].signing
      /\ cookie' = new
      /\ server' = [server EXCEPT !.sessions = @ \cup {new}]
      /\ Set(t, Schedule(ConnectWith([tab[t] EXCEPT !.signing = FALSE, !.authRequired = FALSE,
                                                    !.signed = new], TRUE, new), TRUE))
      /\ lapses' = [lapses EXCEPT !.early = IF Overlaps(tab[t]) THEN @ \cup {t} ELSE @ \ {t}]
      /\ UNCHANGED <<store, leader, budget>>

SignInFails(t) ==
  /\ tab[t].signing
  /\ Spend("faults")
  /\ Step(t, [tab[t] EXCEPT !.signing = FALSE])

(* beforeCredentialChange pauses syncing, saves the open note, stops what is *)
(* scheduled and under way, and waits until the coordinator is idle.         *)
BeginCredentialChange(t) ==
  /\ tab[t].visible /\ CanSync(tab[t])
  /\ Spend("sessions")
  /\ Step(t, [tab[t] EXCEPT !.credential = "saving"])

StopSync(t) ==
  /\ tab[t].credential = "saving"
  /\ Step(t, [Disconnect(CancelActive(CancelScheduled(tab[t]))) EXCEPT !.credential = "waiting"])
  /\ UNCHANGED budget

WaitForIdle(t) ==
  /\ tab[t].credential = "waiting" /\ tab[t].pc = "none"
  /\ Step(t, [tab[t] EXCEPT !.credential = "changing"])
  /\ UNCHANGED budget

EndCredentialChange(t) ==
  LET x == [tab[t] EXCEPT !.credential = "none"]
  IN  /\ tab[t].credential = "changing"
      /\ Step(t, IF x.authRequired THEN x ELSE Schedule(Connect(x), FALSE))
      /\ UNCHANGED budget

-----------------------------------------------------------------------------
Lifecycle(t) ==
  \/ Granted(t) \/ Refused(t) \/ Pulled(t) \/ Reconciled(t) \/ Pushed(t) \/ PushedAll(t)
  \/ Check(t) \/ Finish(t) \/ Aborted(t) \/ Unauthorized(t) \/ Release(t)

Wakes(t) ==
  \/ Timer(t) \/ Deliver(t) \/ HandleChange(t) \/ ChangeTimer(t) \/ Heartbeat(t) \/ Reopened(t)
  \/ Watchdog(t) \/ SessionExpired(t) \/ Periodic(t)

User(t) ==
  \/ Online(t) \/ Retry(t) \/ Hide(t) \/ Show(t) \/ Close(t) \/ Edit(t)
  \/ SignInStarts(t) \/ SignInSucceeds(t) \/ SignInFails(t)
  \/ BeginCredentialChange(t) \/ StopSync(t) \/ WaitForIdle(t) \/ EndCredentialChange(t)

Next ==
  \/ \E t \in Tabs : Lifecycle(t) \/ Wakes(t) \/ User(t) \/ NetworkFails(t) \/ BreakStream(t)
                     \/ Renew(t)
  \/ RemoteChange \/ Restore \/ RevokeSession \/ Expire

(* Requests are answered, timers fire, the browser reconnects its stream and *)
(* a lease that nobody renews runs out.                                      *)
Fairness ==
  /\ \A t \in Tabs :
       /\ WF_vars(Lifecycle(t)) /\ WF_vars(Renew(t))
       /\ WF_vars(Timer(t)) /\ WF_vars(HandleChange(t)) /\ WF_vars(ChangeTimer(t))
       /\ WF_vars(Reopened(t) \/ Watchdog(t)) /\ WF_vars(Periodic(t))
       /\ WF_vars(SignInSucceeds(t) \/ SignInFails(t))
  /\ WF_vars(Expire /\ ~tab[leader.owner].open)

Spec == Init /\ [][Next]_vars /\ Fairness

-----------------------------------------------------------------------------
(* Two tabs sync at a time only when one of them outlived its lease at work  *)
(* (leadership.js: 'vylk-sync', and the lease with its owner's check).       *)
OneSyncAtATime ==
  \A t, u \in Tabs : t # u /\ Working(tab[t]) /\ Working(tab[u])
                       => {t, u} \cap lapses.outlived # {}

(* A change that a tab was told of and has not pulled leads to a sync by     *)
(* itself: a timer runs, or a sync that will look for it (server-events.js:  *)
(* handleChange, coordinator.js: remainingWork and the follow-up).           *)
Attentive(x) ==
  x.visible /\ CanSync(x) /\ ~x.paused /\ ~x.failed /\ ~x.attention
WakeupKept ==
  \A t \in Tabs :
    LET x == tab[t]
    IN  Attentive(x) /\ WorkRemains(x)
          => x.timer \/ x.changeTimer \/ x.reading # 0 \/ x.pc # "none"

(* A sign-in whose session is still good is not undone, whatever requests    *)
(* from before it are answered later (api-client.js:                         *)
(* assertCurrentAuthentication).                                             *)
StandsIn(x) == x.signed # 0 /\ x.signed \in server.sessions
NewSignInStands ==
  \A t \in Tabs : StandsIn(tab[t]) /\ t \notin lapses.early => ~tab[t].authRequired
SignInStands ==
  \A t \in Tabs : StandsIn(tab[t]) => ~tab[t].authRequired

(* Every sync ends: what makes no progress is not tried for ever             *)
(* (coordinator.js: sync_no_progress).                                       *)
EveryRunEnds == \A t \in Tabs : tab[t].pc # "none" ~> tab[t].pc = "none"

(* When a tab stays usable, edits reach the server and the browser catches   *)
(* up with it, also after lost hints, failed requests and a leader that is   *)
(* gone.                                                                     *)
Usable(x) == x.visible /\ CanSync(x) /\ ~x.paused
CaughtUp  == store.queue = {} /\ store.cursor >= server.sequence
Converges == (\E t \in Tabs : <>[]Usable(tab[t])) => []<>CaughtUp

=============================================================================
