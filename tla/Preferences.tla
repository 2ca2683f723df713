---------------------------- MODULE Preferences ----------------------------
(***************************************************************************)
(* The preferences of a user, one versioned document on the server         *)
(* (preference/preference.go), and the browsers that change them           *)
(* (ui/preferences-store.js, sync/preference-conflicts.js).  A change is   *)
(* shown at once, queued as a patch of whole fields with the values they   *)
(* had, and merged with the patch already waiting.  The server checks a    *)
(* patch field by field if the document has changed since; a browser whose *)
(* patch was refused keeps of it what does not disagree with the document. *)
(* Patches are delivered in order and take effect once (NoteServer).       *)
(***************************************************************************)
EXTENDS Integers, SequencesExt

CONSTANTS
  Devices,     \* browsers
  Plain,       \* fields with one value
  Nested,      \* the entries of a field that is a map (keyboardShortcuts)
  Values,
  Default,     \* the value "restore defaults" gives every setting
  None,
  MaxEdits,    \* bound: changes made on all devices
  MaxLoads,    \* bound: downloads of the document by one device at a time
  MaxRevision  \* bound: the revisions of the document

VARIABLES
  document,    \* the server's preferences: rev, val
  device,      \* the browsers
  author,      \* history: who wrote each setting last, in which revision
  blind,       \* history: values a user replaced without having seen them
  edited       \* changes made so far

preferenceVars == <<document, device, author, blind, edited>>

Settings == Plain \cup Nested
Fields == {{p} : p \in Plain} \cup {Nested}

\* The fields a change of these settings touches, as one set of settings.
Touched(settings) == UNION {f \in Fields : f \cap settings # {}}

\* val on the settings of S alone
On(S, val) == [s \in S |-> val[s]]

\* over, where it is defined, else under
Over(over, under) ==
  [s \in DOMAIN over \cup DOMAIN under |-> IF s \in DOMAIN over THEN over[s] ELSE under[s]]

\* A prefs.save operation.  rev: base_revision; want: _sync_patch; was: _sync_base;
\* sent: attempted_at; result, at: what the server made of it, and the revision it got.
\* seen and skipped are history: the revision up to which its user had seen every change,
\* and whether an acknowledgement had taken the browser past a change it never had.
Patch(rev, want, was, seen, skipped) ==
  [rev |-> rev, want |-> want, was |-> was, sent |-> FALSE, result |-> None, at |-> 0,
   seen |-> seen, skipped |-> skipped]

\* A browser.  rev, val: the preferences it shows; saving: patches not yet in the queue;
\* loads: downloads under way; ack: what it is doing about the answer to its first patch.
\* History: upto, the revision up to which it knows every change; skipped, whether an
\* acknowledgement named another revision than the next; choice, what its user last chose,
\* until that is settled.
Resting(rev, val, upto) ==
  [rev |-> rev, val |-> val, saving |-> <<>>, queue |-> <<>>, loads |-> {}, ack |-> None,
   upto |-> upto, skipped |-> upto # rev, choice |-> [s \in Settings |-> None]]

Untouched == [s \in Settings |-> Default]

\* Device d chose v for setting p, and then e, which has not loaded it since, w for q: the
\* acknowledgement has made revision 3 that of e.
Skipped(d, p, v, e, q, w) ==
  LET shown == Over([s \in {q} |-> w], Untouched)
      chosen == [s \in {p} |-> v]
  IN /\ document = [rev |-> 3, val |-> Over(chosen, shown)]
     /\ device = [x \in Devices |->
          CASE x = d -> Resting(2, Over(chosen, Untouched), 2)
            [] x = e -> Resting(3, shown, 1)
            [] OTHER -> Resting(1, Untouched, 1)]
     /\ author = [s \in Settings |-> CASE s = p -> [by |-> d, at |-> 2]
                                       [] s = q -> [by |-> e, at |-> 3]
                                       [] OTHER -> [by |-> None, at |-> 1]]

\* At first nothing was chosen, or two devices have, in different fields, and of the bound
\* on changes one is gone.
Init ==
  /\ blind = {}
  /\ \/ /\ document = [rev |-> 1, val |-> Untouched]
        /\ device = [d \in Devices |-> Resting(1, Untouched, 1)]
        /\ author = [s \in Settings |-> [by |-> None, at |-> 1]]
        /\ edited = 0
     \/ \E d, e \in Devices, p \in Plain, q \in Nested, v, w \in Values \ {Default} :
          d # e /\ Skipped(d, p, v, e, q, w) /\ edited = 1

(***************************************************************************)
(* The user changes settings.                                              *)
(***************************************************************************)
\* persist: the change is shown, and the patch is on its way to the queue.
Persist(d, new) ==
  LET me == device[d]
      touched == Touched(DOMAIN new)
      want == On(touched, Over(new, me.val))
  IN /\ edited < MaxEdits /\ edited' = edited + 1
     /\ \E s \in DOMAIN new : new[s] # me.val[s]
     /\ device' = [device EXCEPT ![d].val = Over(new, @),
                     ![d].saving = Append(@, Patch(me.rev, want, On(touched, me.val), me.upto, me.skipped)),
                     ![d].choice = [s \in Settings |->
                       IF s \in DOMAIN new THEN new[s]
                       ELSE IF s \in touched /\ me.val[s] # @[s] THEN None    \* undone
                       ELSE @[s]]]
     /\ UNCHANGED <<document, author, blind>>

\* restoreDefaultPrefs
RestoreDefaults(d) == Persist(d, [s \in Settings |-> Default])

\* mergeQueuedPreferencePayload: the newer values, the older bases.
MergeQueued(waiting, new) ==
  [waiting EXCEPT !.want = Over(new.want, @), !.was = Over(@, new.was)]

\* queueOperationInStores: a patch joins the last one unless that was sent.
Queued(queue, new) ==
  IF queue # <<>> /\ ~Last(queue).sent
  THEN [queue EXCEPT ![Len(queue)] = MergeQueued(@, new)]
  ELSE Append(queue, new)

QueueSave(d) ==
  /\ device[d].saving # <<>>
  /\ device' = [device EXCEPT ![d].queue = Queued(@, Head(device[d].saving)),
                              ![d].saving = Tail(@)]
  /\ UNCHANGED <<document, author, blind, edited>>

(***************************************************************************)
(* The push.                                                               *)
(***************************************************************************)
\* claim: what is sent is not changed any more.
Claim(d) ==
  /\ \E i \in DOMAIN device[d].queue : ~device[d].queue[i].sent
  /\ device' = [device EXCEPT ![d].queue = [i \in DOMAIN @ |-> [@[i] EXCEPT !.sent = TRUE]]]
  /\ UNCHANGED <<document, author, blind, edited>>

\* Mutated: what other devices changed is not looked at.
Conflicting_Never(patch) == FALSE

\* PatchConflicts: a field is neither what the patch was based on nor what it asks for.
Conflicting(patch) ==
  \E f \in Fields : f \subseteq DOMAIN patch.want
    /\ On(f, document.val) # On(f, patch.was) /\ On(f, document.val) # On(f, patch.want)

\* jsonEqual compares what is written: a map's entries may come in another order.
Refusable(patch) == Conflicting(patch) \/ Nested \subseteq DOMAIN patch.want

Due(queue, i) ==
  queue[i].sent /\ queue[i].result = None /\ \A j \in 1 .. i - 1 : queue[j].result # None

\* applySyncOperation for prefs.save
Refuse(d) ==
  \E i \in DOMAIN device[d].queue :
    LET patch == device[d].queue[i]
    IN /\ Due(device[d].queue, i)
       /\ patch.rev # document.rev /\ Refusable(patch)
       /\ device' = [device EXCEPT ![d].queue[i].result = "conflict"]
       /\ UNCHANGED <<document, author, blind, edited>>

\* One of these patches is still to bring the user's choice to the server.
Waits(me, patches, s) ==
  \E patch \in patches :
    s \in DOMAIN patch.want /\ patch.want[s] = me.choice[s] /\ patch.result # "applied"

\* The user's choices but for those settled
Open(me, settled) == [s \in Settings |-> IF s \in settled THEN None ELSE me.choice[s]]

\* The user's choices that a patch carries
Carried(me, patch) == {s \in DOMAIN patch.want : me.choice[s] = patch.want[s]}

Apply(d) ==
  \E i \in DOMAIN device[d].queue :
    LET patch == device[d].queue[i]
        changed == {s \in DOMAIN patch.want : patch.want[s] # document.val[s]}
    IN /\ Due(device[d].queue, i) /\ document.rev < MaxRevision
       /\ patch.rev = document.rev \/ ~Conflicting(patch)
       /\ document' = [rev |-> document.rev + 1, val |-> Over(patch.want, document.val)]
       /\ author' = [s \in Settings |-> IF s \in changed THEN [by |-> d, at |-> document'.rev]
                                     ELSE author[s]]
       /\ blind' = blind \cup {[skipped |-> patch.skipped] : s \in
            {s \in changed : /\ document.val[s] # patch.was[s]
                             /\ author[s].by # d /\ author[s].at > patch.seen}}
       /\ device' = [device EXCEPT ![d].queue[i] = [patch EXCEPT !.result = "applied",
                                                                       !.at = document'.rev],
                                   ![d].upto = IF @ = document.rev THEN document'.rev ELSE @,
                                   ![d].choice = Open(device[d], Carried(device[d], patch))]
       /\ UNCHANGED edited

(***************************************************************************)
(* The answer to the first patch of the queue.  An answer that was lost is *)
(* given again; one the server has forgotten is "compacted".               *)
(***************************************************************************)
\* applyPreferencesRevision, then the patch is removed.
Acknowledge(d) ==
  LET queue == device[d].queue
  IN /\ queue # <<>> /\ device[d].ack = None /\ Head(queue).result = "applied"
     /\ device' = [device EXCEPT ![d].rev = Head(queue).at, ![d].ack = [step |-> "remove"],
                                 ![d].skipped = @ \/ Head(queue).at # device[d].rev + 1]
     /\ UNCHANGED <<document, author, blind, edited>>

AcknowledgeCompacted(d) ==
  LET queue == device[d].queue
  IN /\ queue # <<>> /\ device[d].ack = None /\ Head(queue).result # None
     /\ device' = [device EXCEPT ![d].ack = [step |-> "remove"],
          ![d].choice = IF Head(queue).result = "conflict"
                        THEN Open(device[d], Carried(device[d], Head(queue))) ELSE @]
     /\ UNCHANGED <<document, author, blind, edited>>

RemovePatch(d) ==
  /\ device[d].ack = [step |-> "remove"]
  /\ device' = [device EXCEPT ![d].ack = None, ![d].queue = Tail(@)]
  /\ UNCHANGED <<document, author, blind, edited>>

\* resolve: the document is read, what agrees with it is queued again in the transaction
\* that removes the patch, and the result is shown.
ReadDocument(d) ==
  LET queue == device[d].queue
  IN /\ queue # <<>> /\ device[d].ack = None /\ Head(queue).result = "conflict"
     /\ device' = [device EXCEPT ![d].ack = [step |-> "resolve", document |-> document]]
     /\ UNCHANGED <<document, author, blind, edited>>

\* Mutated: the map is kept as a whole or not at all.
Agreeing_Whole(patch, now) ==
  {s \in DOMAIN patch.want : /\ patch.was[s] # patch.want[s]
                             /\ On(Touched({s}), now) = On(Touched({s}), patch.was)}

\* What the patch changes and the document did not change otherwise; the map is compared
\* entry by entry (mergeNestedPatch).
Agreeing(patch, now) ==
  {s \in DOMAIN patch.want : /\ patch.was[s] # patch.want[s]
                             /\ now[s] = patch.was[s] \/ (s \in Nested /\ now[s] = patch.want[s])}

Resolve(d) ==
  LET me == device[d]
      now == me.ack.document
      patch == Head(me.queue)
      kept == Agreeing(patch, now.val)
      next == [s \in Settings |-> IF s \in kept THEN patch.want[s] ELSE now.val[s]]
      again == Patch(now.rev, On(Touched(kept), next), On(Touched(kept), now.val), now.rev, FALSE)
      queue == IF kept = {} THEN Tail(me.queue) ELSE Queued(Tail(me.queue), again)
      \* A choice is in force, disagrees with the document, or met an older patch, which is
      \* merged over a newer one that waits and, in the map, takes the other entries along.
      settled == {s \in DOMAIN patch.want :
                    /\ ~Waits(me, Range(me.saving) \cup Range(queue), s)
                    /\ \/ now.val[s] # patch.was[s] \/ now.val[s] = me.choice[s]
                       \/ s \in DOMAIN again.want /\ next[s] # me.choice[s]}
  IN /\ me.ack # None /\ me.ack.step = "resolve"
     /\ device' = [device EXCEPT ![d].queue = queue, ![d].choice = Open(me, settled),
                     ![d].ack = [step |-> "show", document |-> [rev |-> now.rev, val |-> next]]]
     /\ UNCHANGED <<document, author, blind, edited>>

Show(d) ==
  LET me == device[d]
  IN /\ me.ack # None /\ me.ack.step = "show"
     /\ device' = [device EXCEPT ![d].rev = me.ack.document.rev, ![d].val = me.ack.document.val,
                                 ![d].upto = me.ack.document.rev, ![d].skipped = FALSE,
                                 ![d].ack = None]
     /\ UNCHANGED <<document, author, blind, edited>>

(***************************************************************************)
(* Downloads: load asks for the document, then whether a patch waits, and  *)
(* shows the document if none did.  A download that fails changes nothing. *)
(***************************************************************************)
Load(me) == [me EXCEPT !.loads = @ \cup {[document |-> document, checked |-> FALSE]}]

\* handleChange: a hint, published after every batch of patches that changed something
\* and lost if the stream is down, is ignored unless newer than what the browser has.
Hint(d) ==
  /\ document.rev > device[d].rev /\ Cardinality(device[d].loads) < MaxLoads
  /\ device' = [device EXCEPT ![d] = Load(@)]
  /\ UNCHANGED <<document, author, blind, edited>>

CheckPending(d) ==
  \E load \in device[d].loads :
    /\ ~load.checked
    /\ device' = [device EXCEPT ![d].loads =
         (@ \ {load}) \cup IF device[d].queue = <<>> THEN {[load EXCEPT !.checked = TRUE]} ELSE {}]
    /\ UNCHANGED <<document, author, blind, edited>>

Loaded(d) ==
  \E load \in device[d].loads :
    /\ load.checked
    /\ device' = [device EXCEPT ![d].loads = @ \ {load}, ![d].rev = load.document.rev,
                                ![d].val = load.document.val, ![d].upto = load.document.rev,
                                ![d].skipped = FALSE]
    /\ UNCHANGED <<document, author, blind, edited>>

\* The page is loaded again, with the preferences it kept in local storage; a patch that
\* was not queued is gone.
Reload(d) ==
  LET me == device[d]
      gone == {s \in Settings : ~Waits(me, Range(me.queue), s)}
  IN /\ device' = [device EXCEPT ![d] =
          Load([me EXCEPT !.saving = <<>>, !.loads = {}, !.ack = None, !.choice = Open(me, gone)])]
     /\ UNCHANGED <<document, author, blind, edited>>

Next ==
  \E d \in Devices :
       \/ \E s \in Settings, v \in Values : Persist(d, [t \in {s} |-> v])
       \/ RestoreDefaults(d) \/ QueueSave(d) \/ Claim(d) \/ Refuse(d) \/ Apply(d)
       \/ Acknowledge(d) \/ AcknowledgeCompacted(d) \/ RemovePatch(d)
       \/ ReadDocument(d) \/ Resolve(d) \/ Show(d)
       \/ Hint(d) \/ CheckPending(d) \/ Loaded(d) \/ Reload(d)

Spec == Init /\ [][Next]_preferenceVars

\* Two devices change the preferences, each unaware of the other.  A patch of one replaces
\* what the other chose, and its user never saw, in one way only: the patch was made after
\* an acknowledgement had named another revision than the next, which the browser took
\* for its own without the changes before it, so that the server compares nothing
\* (sync/acknowledgements.js:90, sync_ops.go:291).  No merge of patches in the queue, no
\* refused patch that is queued again, no download and no restart is another.
NoBlindOverwrite == \A b \in blind : b.skipped

\* What a user chose last waits in a patch, was applied, or gave way to the choice of
\* another device.  Left out is what the page's end, a forgotten answer or the user's own
\* earlier patch undoes (core/offline-store.js:581, sync/preference-conflicts.js:24).
ChoicesAccounted ==
  \A d \in Devices : \A s \in Settings :
    device[d].choice[s] # None =>
      Waits(device[d], Range(device[d].saving) \cup Range(device[d].queue), s)
=============================================================================
