-------------------------- MODULE VaultClient_proofs --------------------------
(***************************************************************************)
(* The local vault: the marker tells the form of every local record, from  *)
(* an invariant that says what a task at each step has (a configuration, a *)
(* key) and that what a conversion has done stays done.                    *)
(***************************************************************************)
EXTENDS MCClient, TLAPS, WellFoundedInduction

-----------------------------------------------------------------------------
(* Types, and the parts of the invariant.                                    *)
Converting == {"convertNotes", "convertQueue", "convertState", "converted"}
Unlocking == {"unlock", "discard", "mark", "unlocked"} \cup Converting
Booting == {"bootFetch", "inspect", "cacheBoot"}
Starts == {"start", "signIn", "migrated", "migrate", "reset", "changed", "lock"}

(* The steps at which a task of any kind may be, and all of them.            *)
FreeSteps ==
  {"idle", "startApp", "forget", "lock", "page", "notes", "apply", "claim", "header", "send",
   "acknowledge", "credential", "switchFetch"}
Steps ==
  FreeSteps \cup Booting \cup Unlocking \cup
    {"identify", "serverID", "switch", "logout", "switchVerify", "resume", "resumeMarker",
     "resumeCheck", "login",
     "wrappers", "cacheWraps", "migrationStart", "stage", "verify", "commit", "resetPost",
     "resetDiscard"}
Purposes == Starts \cup {"peer", "none", "sync", "switch", "change"}

VaultNumbers == 0 .. MaxVaults
Modes == {"legacy", "preparing", "encrypted"}
Config == {c \in [mode : Modes, vault : VaultNumbers, gen : Nat, inst : Nat] :
             c.mode # "legacy" => c.vault # 0}
Wraps == [vault : VaultNumbers, gen : Nat]
MarkerType == [value : 0 .. 2, vault : VaultNumbers]
LocalNote == [form : VaultNumbers, inst : Nat, crossed : BOOLEAN]
LocalEdit == [id : Nat, form : VaultNumbers, inst : Nat, vault : VaultNumbers]

DiskType ==
  [identity : Nat, initial : BOOLEAN, origin : Nat, srv : [value : Nat, form : VaultNumbers],
   marker : MarkerType, boot : Config \cup {None}, wraps : Wraps \cup {None}, root : VaultNumbers,
   notes : SUBSET LocalNote, queue : SUBSET LocalEdit, late : BOOLEAN]

TabType ==
  [pc : Steps, then : Purposes, config : Config \cup {None}, root : VaultNumbers, local : VaultNumbers,
   bound : Int, expected : Nat, target : Config \cup {None}, screen : {"login", "app"}, sees : Nat,
   got : Config \cup {None}, key : VaultNumbers, wraps : Wraps \cup {None}, ops : SUBSET LocalEdit,
   inst : Nat, saw : MarkerType \cup {None}, told : BOOLEAN]

DatabaseType ==
  {d \in [mode : Modes, vault : VaultNumbers, gen : Nat, staged : {"none", "staged", "verified"}] :
     d.mode # "legacy" => d.vault # 0}

VaultEvents == {"edits", "faults", "signIns", "changes", "elsewhere", "syncs"}

WorldTypes ==
  /\ server \in [V!Databases -> DatabaseType]
  /\ net \in [live : V!Databases, cookie : V!Databases \cup {0}]
  /\ spent \in [VaultEvents -> Nat]

(* What a task is for, by the step it is at.                                 *)
TaskFits(x) ==
  /\ x.pc \in Booting => x.then \in Starts \/ (x.then = "peer" /\ x.pc # "cacheBoot")
  /\ x.pc \in {"resume", "resumeMarker", "resumeCheck"} => x.then = "start"
  /\ x.pc = "login" => x.then \in {"signIn", "migrated"}
  /\ x.pc \in {"wrappers", "cacheWraps"} => x.then \in {"signIn", "migrated", "reset", "changed"}
  /\ x.pc \in {"migrationStart", "stage", "verify", "commit"} => x.then = "migrate"
  /\ x.pc \in {"resetPost", "resetDiscard"} => x.then = "reset"
  /\ x.pc \in Unlocking => x.then \in {"migrate", "reset", "start", "signIn"}

(* The configuration a task has by then, and the key.                        *)
KeysFit(x) ==
  /\ x.pc \in {"inspect", "identify", "serverID", "cacheBoot", "switch", "logout", "switchVerify"} => x.got # None
  /\ x.pc \in {"cacheBoot", "login", "wrappers", "cacheWraps", "resume", "migrationStart"} => x.config # None
  /\ x.pc = "resume" => V!Encrypted(x)
  /\ x.pc \in {"wrappers", "cacheWraps"} /\ x.then = "signIn" => V!Encrypted(x)
  /\ x.pc = "cacheWraps" /\ x.then = "reset" => x.config.vault = x.key
  /\ x.pc \in {"resumeMarker", "resumeCheck"} \cup Unlocking \/ x.then \in {"migrate", "reset"} => x.key # 0

(* Every record is in the form that the marker tells, or the data are being  *)
(* converted.                                                                *)
FormsFit(d) ==
  \A form \in VaultNumbers :
    \/ \E r \in d.notes : r.form = form
    \/ \E o \in d.queue : o.form = form
    \/ d.srv.value # 0 /\ d.srv.form = form
    => CASE d.marker.value = 2 -> form \in {0, d.marker.vault}
         [] d.marker.value = 1 -> form = d.marker.vault
         [] OTHER -> form = 0

(* What a tab's conversion to its key has done.                              *)
NotesIn(d, form) == \A r \in d.notes : r.form = form
QueueIn(d, form) == \A o \in d.queue : o.form = form
StateIn(d, form) == d.srv.value # 0 => d.srv.form = form
Converted(d, x) ==
  /\ x.pc \in {"convertQueue", "convertState", "converted"} => NotesIn(d, x.key)
  /\ x.pc \in {"convertState", "converted"} => QueueIn(d, x.key)
  /\ x.pc = "converted" => StateIn(d, x.key)

(* While a tab converts, what it has done stays done until another tab's     *)
(* discard or switch, which it notices or was told of.                       *)
ConversionFits(d, x) ==
  x.pc \in Converting /\ ~x.told =>
    d.marker.value # 0 /\ (d.marker = V!Marker(2, x.key) => Converted(d, x))

(* A vault's marker names it, and a discard leaves nothing.                  *)
MarkerFits(d) ==
  /\ d.marker.value = 1 => d.marker.vault # 0
  /\ d.marker = V!Marker(2, 0) => d.notes = {} /\ d.queue = {} /\ d.srv.value = 0

Sound(x) == x \in TabType /\ TaskFits(x) /\ KeysFit(x)
Steady(x) == Sound(x) /\ x.pc \notin Converting

VaultInv ==
  /\ disk \in DiskType
  /\ tab \in [Tabs -> TabType]
  /\ \A t \in Tabs : Sound(tab[t])
  /\ WorldTypes
  /\ MarkerFits(disk)
  /\ ~disk.late => FormsFit(disk) /\ \A t \in Tabs : ConversionFits(disk, tab[t])

(* A non-empty set of naturals has a least element.                          *)
LEMMA LeastNat ==
  ASSUME NEW X, X \subseteq Nat, X # {}
  PROVE  \E x \in X : \A y \in X : x <= y
<1> DEFINE R == OpToRel(<, Nat)
<1>1. IsWellFoundedOn(R, Nat)
  BY Zenon, NatLessThanWellFounded
<1>2. \A x, y \in X : <<y, x>> \in R <=> y < x
  BY DEF OpToRel
<1> HIDE DEF R
<1>3. PICK x \in X : \A y \in X : ~(<<y, x>> \in R)
  BY <1>1, WFMin
<1>4. \A y \in X : ~(y < x)
  BY <1>2, <1>3
<1> QED BY <1>4

-----------------------------------------------------------------------------
(* Tasks: what the operators that end one or begin the next one return.      *)
LEMMA ZeroVault == 0 \in VaultNumbers /\ VaultNumbers \subseteq Nat /\ None \notin Config
BY VaultAssumption DEF VaultNumbers, Config, Modes

LEMMA MarkerTyped == ASSUME NEW v \in VaultNumbers, NEW k \in 0 .. 2
                     PROVE  V!Marker(k, v) \in MarkerType
BY DEF V!Marker, MarkerType

LEMMA FreshSteady == Steady(V!Fresh) /\ ~V!Fresh.told
<1>1. V!Marker(0, 0) \in MarkerType
  BY ZeroVault, MarkerTyped
<1>2. V!Fresh \in TabType
  <2>1. "bootFetch" \in Steps /\ "start" \in Purposes
    BY DEF Steps, Booting, Purposes, Starts
  <2> QED BY <1>1, <2>1, ZeroVault DEF V!Fresh, TabType
<1>3. V!Fresh.pc = "bootFetch" /\ V!Fresh.then = "start" /\ ~V!Fresh.told
  BY DEF V!Fresh
<1> QED BY <1>2, <1>3 DEF Steady, Sound, TaskFits, KeysFit, Booting, Starts, Unlocking, Converting

LEMMA EndedSteady ==
  ASSUME NEW x \in TabType
  PROVE  /\ V!Ended(x) \in TabType /\ Steady(V!Ended(x))
         /\ V!Ended(x).pc = "idle" /\ V!Ended(x).then = "none" /\ V!Ended(x).told = x.told
<1>1. V!Marker(0, 0) \in MarkerType
  BY ZeroVault, MarkerTyped
<1>2. V!Ended(x) \in TabType /\ V!Ended(x).pc = "idle" /\ V!Ended(x).then = "none"
      /\ V!Ended(x).told = x.told
  <2>1. "idle" \in Steps /\ "none" \in Purposes
    BY DEF Steps, FreeSteps, Purposes
  <2> QED BY <1>1, <2>1, ZeroVault DEF V!Ended, TabType
<1> QED BY <1>2 DEF Steady, Sound, TaskFits, KeysFit, Booting, Unlocking, Converting

(* y is x gone on to the step pc, for the purpose then.                      *)
Moved(y, x, pc, then) ==
  /\ y \in TabType /\ y.pc = pc /\ y.then = then
  /\ y.config = x.config /\ y.got = x.got /\ y.key = x.key /\ y.told = x.told

LEMMA AtMoved ==
  ASSUME NEW x \in TabType, NEW pc \in Steps
  PROVE  Moved(V!At(x, pc), x, pc, x.then)
BY DEF V!At, TabType, Moved

LEMMA BeginMoved ==
  ASSUME NEW x \in TabType, NEW pc \in Steps, NEW then \in Purposes
  PROVE  Moved(V!Begin(x, then, pc), x, pc, then)
BY DEF V!Begin, TabType, Moved

(* A task that has what its new step needs.                                  *)
LEMMA MovedSteady ==
  ASSUME NEW x, NEW y, NEW pc, NEW then, Moved(y, x, pc, then), pc \notin Converting,
         pc \in Booting => then \in Starts \/ (then = "peer" /\ pc # "cacheBoot"),
         pc \in {"resume", "resumeMarker", "resumeCheck"} => then = "start",
         pc = "login" => then \in {"signIn", "migrated"},
         pc \in {"wrappers", "cacheWraps"} => then \in {"signIn", "migrated", "reset", "changed"},
         pc \in {"migrationStart", "stage", "verify", "commit"} => then = "migrate",
         pc \in {"resetPost", "resetDiscard"} => then = "reset",
         pc \in Unlocking => then \in {"migrate", "reset", "start", "signIn"},
         pc \in {"inspect", "identify", "serverID", "cacheBoot", "switch", "logout", "switchVerify"} =>
           x.got # None,
         pc \in {"cacheBoot", "login", "wrappers", "cacheWraps", "resume", "migrationStart"} =>
           x.config # None,
         pc = "resume" => V!Encrypted(x),
         pc \in {"wrappers", "cacheWraps"} /\ then = "signIn" => V!Encrypted(x),
         pc = "cacheWraps" /\ then = "reset" => x.config.vault = x.key,
         pc \in {"resumeMarker", "resumeCheck"} \cup Unlocking \/ then \in {"migrate", "reset"} => x.key # 0
  PROVE  Steady(y) /\ y.told = x.told
<1>1. V!Encrypted(y) <=> V!Encrypted(x)
  BY DEF Moved, V!Encrypted
<1>2. y \in TabType /\ y.pc = pc /\ y.then = then /\ y.config = x.config /\ y.got = x.got
      /\ y.key = x.key /\ y.told = x.told
  BY DEF Moved
<1>3. TaskFits(y)
  BY <1>2 DEF TaskFits
<1>4. KeysFit(y)
  BY <1>1, <1>2 DEF KeysFit
<1> QED BY <1>2, <1>3, <1>4 DEF Steady, Sound

LEMMA FreeSteady ==
  ASSUME NEW x \in TabType, x.pc \in FreeSteps, x.then \in {"migrate", "reset"} => x.key # 0
  PROVE  Steady(x)
BY DEF FreeSteps, Steady, Sound, TaskFits, KeysFit, Unlocking, Booting, Converting

(* bootstrap ends and its caller goes on.                                    *)
LEMMA AfterBootstrapSteady ==
  ASSUME NEW x \in TabType, x.then \in Starts, x.config # None,
         x.then \in {"migrate", "reset"} => x.key # 0
  PROVE  Steady(V!AfterBootstrap(x)) /\ V!AfterBootstrap(x).told = x.told
<1> USE DEF Unlocking, Booting, Converting
<1>1. CASE x.then = "start"
  <2>1. CASE x.config.mode = "preparing"
    <3>1. V!AfterBootstrap(x) = V!Ended(x)
      BY <1>1, <2>1 DEF V!AfterBootstrap
    <3> QED BY <3>1, EndedSteady
  <2>2. CASE x.config.mode # "preparing" /\ V!Encrypted(x)
    <3>1. V!AfterBootstrap(x) = V!At(x, "resume")
      BY <1>1, <2>2 DEF V!AfterBootstrap
    <3>2. Moved(V!At(x, "resume"), x, "resume", x.then)
      BY AtMoved DEF Steps, FreeSteps
    <3> QED BY <1>1, <2>2, <3>1, <3>2, MovedSteady
  <2>3. CASE x.config.mode # "preparing" /\ ~V!Encrypted(x)
    <3>1. V!AfterBootstrap(x) = V!At(x, "startApp")
      BY <1>1, <2>3 DEF V!AfterBootstrap
    <3>2. Moved(V!At(x, "startApp"), x, "startApp", x.then)
      BY AtMoved DEF Steps, FreeSteps
    <3> QED BY <1>1, <3>1, <3>2, MovedSteady
  <2> QED BY <2>1, <2>2, <2>3
<1>2. CASE x.then \in {"signIn", "migrated"}
  <2>1. V!AfterBootstrap(x) = V!At(x, "login")
    BY <1>2 DEF V!AfterBootstrap
  <2>2. Moved(V!At(x, "login"), x, "login", x.then)
    BY AtMoved DEF Steps, FreeSteps
  <2> QED BY <1>2, <2>1, <2>2, MovedSteady
<1>3. CASE x.then = "migrate"
  <2>1. V!AfterBootstrap(x) = V!At(x, "stage")
    BY <1>3 DEF V!AfterBootstrap
  <2>2. Moved(V!At(x, "stage"), x, "stage", x.then)
    BY AtMoved DEF Steps, FreeSteps
  <2> QED BY <1>3, <2>1, <2>2, MovedSteady
<1>4. CASE x.then \in {"reset", "changed"}
  <2>1. V!AfterBootstrap(x) = V!At(x, "wrappers")
    BY <1>4 DEF V!AfterBootstrap
  <2>2. Moved(V!At(x, "wrappers"), x, "wrappers", x.then)
    BY AtMoved DEF Steps, FreeSteps
  <2> QED BY <1>4, <2>1, <2>2, MovedSteady
<1>5. CASE x.then = "lock"
  <2>1. V!AfterBootstrap(x) = V!At(x, "lock")
    BY <1>5 DEF V!AfterBootstrap
  <2>2. Moved(V!At(x, "lock"), x, "lock", x.then)
    BY AtMoved DEF Steps, FreeSteps
  <2> QED BY <1>5, <2>1, <2>2, MovedSteady
<1> QED BY <1>1, <1>2, <1>3, <1>4, <1>5 DEF Starts

LEMMA BootstrappedSteady ==
  ASSUME NEW x \in TabType, x.then \in Starts \cup {"peer"}, x.got # None,
         x.then \in {"migrate", "reset"} => x.key # 0
  PROVE  Steady(V!Bootstrapped(x)) /\ V!Bootstrapped(x).told = x.told
<1>1. CASE x.then = "peer"
  <2>1. V!Bootstrapped(x) = V!Ended(x)
    BY <1>1 DEF V!Bootstrapped
  <2> QED BY <2>1, EndedSteady
<1>2. CASE x.then # "peer"
  <2>1. PICK y : y = [x EXCEPT !.config = x.got]
    OBVIOUS
  <2>2. /\ y \in TabType /\ y.then = x.then /\ y.config = x.got /\ y.got = x.got /\ y.key = x.key
        /\ y.told = x.told
    BY <2>1 DEF TabType
  <2>3. V!Bootstrapped(x) = IF x.got.mode = "legacy" THEN V!AfterBootstrap(y) ELSE V!At(y, "cacheBoot")
    BY <1>2, <2>1 DEF V!Bootstrapped
  <2>4. Steady(V!AfterBootstrap(y)) /\ V!AfterBootstrap(y).told = x.told
    BY <1>2, <2>2, AfterBootstrapSteady
  <2>5. Steady(V!At(y, "cacheBoot")) /\ V!At(y, "cacheBoot").told = x.told
    <3>1. Moved(V!At(y, "cacheBoot"), y, "cacheBoot", y.then)
      BY <2>2, AtMoved DEF Steps, Booting
    <3> QED BY <1>2, <2>2, <3>1, MovedSteady DEF Unlocking, Booting, Converting
  <2> QED BY <2>3, <2>4, <2>5
<1> QED BY <1>1, <1>2

(* The keys a sign-in or a reset gets are those of a vault.                  *)
LEMMA UnwrapSteady ==
  ASSUME NEW x \in TabType, NEW w \in Wraps \cup {None}, x.config # None, x.config.vault # 0,
         x.then \in {"signIn", "reset"}
  PROVE  Steady(V!Unwrap(x, w)) /\ V!Unwrap(x, w).told = x.told
<1>1. CASE w = None \/ w.vault # V!VaultOf(x.config) \/ w.gen # x.config.gen
  <2>1. V!Unwrap(x, w) = V!Ended(x)
    BY <1>1 DEF V!Unwrap
  <2> QED BY <2>1, EndedSteady
<1>2. CASE ~(w = None \/ w.vault # V!VaultOf(x.config) \/ w.gen # x.config.gen)
  <2>1. V!Unwrap(x, w) = [x EXCEPT !.key = w.vault, !.pc = "unlock"]
    BY <1>2 DEF V!Unwrap
  <2>2. w.vault \in VaultNumbers /\ w.vault = x.config.vault
    BY <1>2 DEF Wraps, V!VaultOf
  <2>3. /\ V!Unwrap(x, w) \in TabType /\ V!Unwrap(x, w).pc = "unlock"
        /\ V!Unwrap(x, w).key = w.vault /\ V!Unwrap(x, w).then = x.then
        /\ V!Unwrap(x, w).told = x.told
    <3>1. PICK k \in VaultNumbers : k = w.vault
      BY <2>2
    <3>2. V!Unwrap(x, w) = [x EXCEPT !.key = k, !.pc = "unlock"]
      BY <2>1, <3>1
    <3>3. "unlock" \in Steps
      BY DEF Steps, Unlocking
    <3> QED BY <3>1, <3>2, <3>3 DEF TabType
  <2> QED BY <2>2, <2>3 DEF Steady, Sound, TaskFits, KeysFit, Unlocking, Booting, Converting
<1> QED BY <1>1, <1>2

LEMMA EncryptedVault ==
  ASSUME NEW x \in TabType, V!Encrypted(x)
  PROVE  x.config # None /\ x.config.vault # 0 /\ x.config.vault \in VaultNumbers
BY DEF V!Encrypted, TabType, Config

LEMMA NeedAuthenticationSteady ==
  ASSUME NEW x \in TabType
  PROVE  Steady(V!NeedAuthentication(x)) /\ V!NeedAuthentication(x).told = x.told
<1>1. PICK e : e = V!Ended(x)
  OBVIOUS
<1>2. e \in TabType /\ Steady(e) /\ e.pc = "idle" /\ e.then = "none" /\ e.told = x.told
  BY <1>1, EndedSteady
<1>3. Steady(V!Begin(e, "lock", "bootFetch")) /\ V!Begin(e, "lock", "bootFetch").told = x.told
  <2>1. Moved(V!Begin(e, "lock", "bootFetch"), e, "bootFetch", "lock")
    BY <1>2, BeginMoved DEF Steps, Booting, Purposes, Starts
  <2> QED BY <1>2, <2>1, MovedSteady DEF Unlocking, Booting, Converting, Starts
<1>4. PICK s : s = [e EXCEPT !.screen = "login"]
  OBVIOUS
<1>5. s \in TabType /\ s.pc = "idle" /\ s.then = "none" /\ s.told = x.told
  <2>1. e \in TabType
    BY <1>2
  <2> QED BY <1>2, <2>1, <1>4 DEF TabType
<1>6. Steady(s)
  BY <1>5 DEF Steady, Sound, TaskFits, KeysFit, Unlocking, Booting, Converting
<1>7. V!NeedAuthentication(x) \in {e, V!Begin(e, "lock", "bootFetch"), s}
  BY <1>1, <1>4 DEF V!NeedAuthentication
<1> QED BY <1>2, <1>3, <1>5, <1>6, <1>7

(* A task whose request gets no answer.                                      *)
LEMMA UnreachedSteady ==
  ASSUME disk \in DiskType, NEW x, Sound(x)
  PROVE  Steady(V!Unreached(x)) /\ V!Unreached(x).told = x.told
<1> USE DEF Sound, TaskFits, KeysFit, Unlocking, Booting, Converting
<1>0. /\ x \in TabType /\ Steady(V!Ended(x)) /\ V!Ended(x).told = x.told
      /\ disk.boot \in Config \cup {None} /\ disk.wraps \in Wraps \cup {None}
  BY EndedSteady DEF DiskType
<1>1. CASE x.pc = "bootFetch" /\ x.then = "peer"
  BY <1>0, <1>1 DEF V!Unreached
<1>2. CASE x.pc = "bootFetch" /\ x.then # "peer" /\ disk.boot # None
  <2>1. PICK y : y = [x EXCEPT !.config = disk.boot, !.saw = None]
    OBVIOUS
  <2>2. /\ y \in TabType /\ y.then = x.then /\ y.config = disk.boot /\ y.key = x.key
        /\ y.told = x.told
    BY <1>0, <2>1 DEF TabType
  <2>3. V!Unreached(x) = V!AfterBootstrap(y)
    BY <1>2, <2>1 DEF V!Unreached
  <2>4. x.then \in Starts
    BY <1>2 DEF Booting
  <2> QED BY <1>0, <1>2, <2>2, <2>3, <2>4, AfterBootstrapSteady
<1>3. CASE x.pc = "bootFetch" /\ disk.boot = None /\ x.then = "lock"
  <2>1. V!Unreached(x) = V!At(x, "lock")
    BY <1>3 DEF V!Unreached
  <2>2. Moved(V!At(x, "lock"), x, "lock", x.then)
    BY <1>0, AtMoved DEF Steps, FreeSteps
  <2> QED BY <1>0, <1>3, <2>1, <2>2, MovedSteady
<1>4. CASE x.pc = "bootFetch" /\ disk.boot = None /\ x.then = "start"
  <2>1. V!Unreached(x) \in {V!At(x, "startApp"), V!Ended(x)}
    BY <1>4 DEF V!Unreached
  <2>2. Moved(V!At(x, "startApp"), x, "startApp", x.then)
    BY <1>0, AtMoved DEF Steps, FreeSteps
  <2>3. Steady(V!At(x, "startApp")) /\ V!At(x, "startApp").told = x.told
    BY <1>4, <2>2, MovedSteady DEF Unlocking, Booting, Converting
  <2> QED BY <1>0, <2>1, <2>3
<1>5. CASE x.pc = "resumeCheck"
  <2>1. V!Unreached(x) = V!At(x, "unlock")
    BY <1>5 DEF V!Unreached
  <2>2. Moved(V!At(x, "unlock"), x, "unlock", x.then)
    BY <1>0, AtMoved DEF Steps, FreeSteps
  <2> QED BY <1>0, <1>5, <2>1, <2>2, MovedSteady
<1>6. CASE x.pc \in {"login", "wrappers"} /\ x.then = "signIn" /\ V!Encrypted(x)
  <2>1. PICK y : y = [x EXCEPT !.got = None]
    OBVIOUS
  <2>2. y \in TabType /\ y.then = x.then /\ y.config = x.config /\ y.told = x.told
    BY <1>0, <2>1 DEF TabType
  <2>3. V!Unreached(x) = V!Unwrap(y, disk.wraps)
    BY <1>6, <2>1 DEF V!Unreached
  <2>4. PICK w : w = disk.wraps
    OBVIOUS
  <2>5. x.config # None /\ x.config.vault # 0
    BY <1>0, <1>6, EncryptedVault
  <2> QED BY <1>0, <1>6, <2>2, <2>3, <2>4, <2>5, UnwrapSteady
<1>7. CASE ~ \/ x.pc = "bootFetch" /\ x.then = "peer"
             \/ x.pc = "bootFetch" /\ x.then # "peer" /\ disk.boot # None
             \/ x.pc = "bootFetch" /\ disk.boot = None /\ x.then = "lock"
             \/ x.pc = "bootFetch" /\ disk.boot = None /\ x.then = "start"
             \/ x.pc = "resumeCheck"
             \/ x.pc \in {"login", "wrappers"} /\ x.then = "signIn" /\ V!Encrypted(x)
  <2>1. V!Unreached(x) = V!Ended(x)
    BY <1>7 DEF V!Unreached
  <2> QED BY <1>0, <2>1
<1> QED BY <1>1, <1>2, <1>3, <1>4, <1>5, <1>6, <1>7

-----------------------------------------------------------------------------
(* The local data.                                                           *)
LEMMA ConsistentForms ==
  disk \in DiskType /\ ~disk.late => (V!LocalVaultConsistent <=> FormsFit(disk))
<1> SUFFICES ASSUME disk \in DiskType, ~disk.late PROVE V!LocalVaultConsistent <=> FormsFit(disk)
  OBVIOUS
<1> DEFINE forms == {r.form : r \in disk.notes} \cup {o.form : o \in disk.queue} \cup
                    (IF disk.srv.value = 0 THEN {} ELSE {disk.srv.form})
<1>1. forms \subseteq VaultNumbers
  BY DEF DiskType, LocalNote, LocalEdit
<1>2. \A form : form \in forms <=> \/ \E r \in disk.notes : r.form = form
                                   \/ \E o \in disk.queue : o.form = form
                                   \/ disk.srv.value # 0 /\ disk.srv.form = form
  OBVIOUS
<1>3. V!LocalVaultConsistent <=>
        CASE disk.marker.value = 2 -> forms \subseteq {0, disk.marker.vault}
          [] disk.marker.value = 1 -> forms \subseteq {disk.marker.vault}
          [] OTHER -> forms \subseteq {0}
  BY DEF V!LocalVaultConsistent
<1> HIDE DEF forms
<1>4. V!LocalVaultConsistent <=>
        \A form \in forms : CASE disk.marker.value = 2 -> form \in {0, disk.marker.vault}
                              [] disk.marker.value = 1 -> form = disk.marker.vault
                              [] OTHER -> form = 0
  BY <1>3
<1> QED BY <1>1, <1>2, <1>4 DEF FormsFit

(* What is written in a transaction that withOfflineStore has admitted is in *)
(* the form of the local data.                                               *)
Written(t, form) == V!Unlocked(tab[t]) /\ form = tab[t].local

(* The invariant after a step of tab t, from what the step makes of the      *)
(* local store.                                                              *)
LEMMA DiskStep ==
  ASSUME VaultInv, NEW t \in Tabs, NEW y, Sound(y), tab' = [tab EXCEPT ![t] = y], WorldTypes',
         disk' \in DiskType, MarkerFits(disk'), ~disk'.late => FormsFit(disk'),
         ~disk'.late => ConversionFits(disk', y),
         ~disk'.late => \A u \in Tabs \ {t} : ConversionFits(disk', tab[u])
  PROVE  VaultInv'
<1>1. tab \in [Tabs -> TabType]
  BY DEF VaultInv
<1>2. y \in TabType /\ tab' \in [Tabs -> TabType] /\ tab'[t] = y /\ \A u \in Tabs \ {t} : tab'[u] = tab[u]
  BY <1>1 DEF Sound
<1>3. \A u \in Tabs : Sound(tab'[u])
  BY <1>2 DEF VaultInv
<1>4. ~disk'.late => \A u \in Tabs : ConversionFits(disk', tab'[u])
  BY <1>2
<1> QED BY <1>2, <1>3, <1>4 DEF VaultInv

LEMMA DataStep ==
  ASSUME VaultInv, NEW t \in Tabs, NEW y, Sound(y), tab' = [tab EXCEPT ![t] = y], WorldTypes',
         disk' \in DiskType, disk'.marker = disk.marker, disk.late => disk'.late,
         \A r \in disk'.notes : r \in disk.notes \/ Written(t, r.form),
         \A o \in disk'.queue : o \in disk.queue \/ Written(t, o.form),
         disk'.srv = disk.srv \/ Written(t, disk'.srv.form),
         y.pc \in Converting /\ ~y.told /\ ~disk'.late => disk.marker.value = 1
  PROVE  VaultInv'
<1>1. /\ disk \in DiskType /\ tab \in [Tabs -> TabType] /\ tab[t] \in TabType
      /\ disk.marker \in MarkerType /\ disk'.marker \in MarkerType
  BY DEF VaultInv, DiskType
<1>2. MarkerFits(disk)
  BY DEF VaultInv
<1>3. \A key : V!Marker(2, key).value = 2
  BY DEF V!Marker
<1>4. V!Unlocked(tab[t]) => \/ disk.marker.value = 1 /\ tab[t].local = disk.marker.vault
                            \/ disk.marker.value = 0 /\ tab[t].local = 0
  BY <1>1, <1>2 DEF V!Unlocked, MarkerFits, MarkerType, VaultNumbers
<1>5. MarkerFits(disk')
  <2>1. ASSUME disk.marker = V!Marker(2, 0)
        PROVE  disk'.notes = {} /\ disk'.queue = {} /\ disk'.srv.value = 0
    <3>1. ~V!Unlocked(tab[t])
      BY <1>3, <1>4, <2>1
    <3> QED BY <1>2, <2>1, <3>1 DEF MarkerFits, Written
  <2> QED BY <1>2, <2>1 DEF MarkerFits
<1>6. ASSUME ~disk'.late PROVE FormsFit(disk')
  <2>1. FormsFit(disk)
    BY <1>6 DEF VaultInv
  <2> SUFFICES ASSUME NEW form \in VaultNumbers,
                      \/ \E r \in disk'.notes : r.form = form
                      \/ \E o \in disk'.queue : o.form = form
                      \/ disk'.srv.value # 0 /\ disk'.srv.form = form
               PROVE  CASE disk.marker.value = 2 -> form \in {0, disk.marker.vault}
                        [] disk.marker.value = 1 -> form = disk.marker.vault
                        [] OTHER -> form = 0
    BY DEF FormsFit
  <2>2. CASE Written(t, form)
    BY <1>1, <1>4, <2>2 DEF Written, MarkerType
  <2>3. CASE ~Written(t, form)
    BY <2>1, <2>3 DEF FormsFit
  <2> QED BY <2>2, <2>3
<1>7. ~disk'.late => ConversionFits(disk', y)
  BY <1>3 DEF ConversionFits
<1>8. ASSUME ~disk'.late, NEW u \in Tabs \ {t} PROVE ConversionFits(disk', tab[u])
  <2>0. PICK x : x = tab[u]
    OBVIOUS
  <2>1. ConversionFits(disk, x)
    BY <1>8, <2>0 DEF VaultInv
  <2>2. disk.marker = V!Marker(2, x.key) => ~V!Unlocked(tab[t])
    BY <1>3, <1>4
  <2>3. disk.marker = V!Marker(2, x.key) /\ Converted(disk, x) => Converted(disk', x)
    BY <2>2 DEF Converted, NotesIn, QueueIn, StateIn, Written
  <2> QED BY <2>0, <2>1, <2>3 DEF ConversionFits
<1> QED BY <1>5, <1>6, <1>7, <1>8, DiskStep

(* A step that leaves the local records alone.                               *)
LEMMA QuietStep ==
  ASSUME VaultInv, NEW t \in Tabs, NEW y, Steady(y), V!Become(t, y), disk' = disk, WorldTypes'
  PROVE  VaultInv'
<1>1. tab' = [tab EXCEPT ![t] = y]
  BY DEF V!Become
<1>2. disk \in DiskType
  BY DEF VaultInv
<1> QED BY <1>1, <1>2, DataStep DEF Steady

LEMMA TabSound ==
  ASSUME VaultInv, NEW t \in Tabs
  PROVE  tab[t] \in TabType /\ TaskFits(tab[t]) /\ KeysFit(tab[t]) /\ Sound(tab[t])
BY DEF VaultInv, Sound

-----------------------------------------------------------------------------
(* Requests: their answer, or none.                                          *)
LEMMA SpendTyped ==
  ASSUME VaultInv, NEW what \in VaultEvents, V!Spend(what)
  PROVE  spent' \in [VaultEvents -> Nat]
<1>1. spent \in [VaultEvents -> Nat] /\ spent' = [spent EXCEPT ![what] = @ + 1]
  BY DEF VaultInv, WorldTypes, V!Spend
<1> QED BY <1>1

LEMMA AnsweredSteady ==
  ASSUME VaultInv, NEW t \in Tabs, NEW y, Steady(y), V!Answered(t, y)
  PROVE  spent' \in [VaultEvents -> Nat] /\ \E z : Steady(z) /\ V!Become(t, z)
<1>1. CASE V!Become(t, y) /\ UNCHANGED spent
  BY <1>1 DEF VaultInv, WorldTypes
<1>2. CASE V!Spend("faults") /\ V!Become(t, V!Unreached(tab[t]))
  <2>1. PICK x : x = tab[t]
    OBVIOUS
  <2>2. PICK z : z = V!Unreached(tab[t])
    OBVIOUS
  <2>3. Steady(z)
    BY <2>1, <2>2, TabSound, UnreachedSteady DEF VaultInv
  <2>4. spent' \in [VaultEvents -> Nat]
    BY <1>2, SpendTyped DEF VaultEvents
  <2> QED BY <1>2, <2>2, <2>3, <2>4
<1> QED BY <1>1, <1>2 DEF V!Answered

LEMMA AskedSteady ==
  ASSUME VaultInv, NEW t \in Tabs, NEW y, Steady(y), V!Asked(t, y)
  PROVE  \E z : Steady(z) /\ V!Become(t, z)
<1>1. PICK z : z = V!NeedAuthentication(tab[t])
  OBVIOUS
<1>2. PICK x : x = tab[t]
  OBVIOUS
<1>3. Steady(z)
  BY <1>1, <1>2, TabSound, NeedAuthenticationSteady
<1> QED BY <1>1, <1>3 DEF V!Asked

LEMMA BootstrapTyped ==
  ASSUME VaultInv
  PROVE  V!Bootstrap \in Config /\ V!Bootstrap # None /\ V!Live \in DatabaseType
<1>1. V!Live \in DatabaseType
  BY DEF V!Live, VaultInv, WorldTypes
<1>2. net.live \in Nat
  BY DEF VaultInv, WorldTypes, V!Databases
<1>3. V!Bootstrap \in Config
  BY <1>1, <1>2 DEF V!Bootstrap, Config, DatabaseType
<1> QED BY <1>1, <1>3, ZeroVault

LEMMA NewVaultTyped ==
  ASSUME VaultInv, V!NewVault <= MaxVaults
  PROVE  V!NewVault \in VaultNumbers /\ V!NewVault # 0
<1>1. MaxVaults \in Nat /\ V!Vaults \subseteq VaultNumbers /\ V!Vaults # {}
  <2>1. \A d \in V!Databases : server[d].vault \in VaultNumbers
    BY DEF VaultInv, WorldTypes, DatabaseType
  <2>2. \A t \in Tabs : tab[t].key \in VaultNumbers
    BY DEF VaultInv, TabType
  <2>3. disk.marker.vault \in VaultNumbers
    BY DEF VaultInv, DiskType, MarkerType
  <2> QED BY <2>1, <2>2, <2>3, VaultAssumption DEF V!Vaults
<1>2. \E v \in V!Vaults : \A w \in V!Vaults : w <= v
  <2> DEFINE Z == {MaxVaults - v : v \in V!Vaults}
  <2>1. Z \subseteq Nat /\ Z # {}
    <3>1. \A v \in VaultNumbers : MaxVaults - v \in Nat
      BY <1>1 DEF VaultNumbers
    <3> QED BY <1>1, <3>1
  <2>2. PICK z \in Z : \A y \in Z : z <= y
    <3> HIDE DEF Z
    <3> QED BY <2>1, LeastNat
  <2>3. PICK v \in V!Vaults : z = MaxVaults - v
    OBVIOUS
  <2>4. \A w \in V!Vaults : MaxVaults - v <= MaxVaults - w
    BY <2>2, <2>3
  <2> QED BY <1>1, <2>4 DEF VaultNumbers
<1>3. PICK top : top = CHOOSE v \in V!Vaults : \A w \in V!Vaults : w <= v
  OBVIOUS
<1>4. top \in VaultNumbers /\ V!NewVault = 1 + top
  BY <1>1, <1>2, <1>3 DEF V!NewVault
<1> QED BY <1>1, <1>4 DEF VaultNumbers

(* A transaction of the local store takes place or ends its task.            *)
LEMMA BoundOutcome ==
  ASSUME VaultInv, NEW t \in Tabs, NEW fits, NEW d \in DiskType, NEW x, Sound(x),
         V!BoundWhen(t, fits, d, x)
  PROVE  \E y :
           /\ Sound(y) /\ tab' = [tab EXCEPT ![t] = y]
           /\ \/ /\ fits /\ y.pc = x.pc /\ y.key = x.key /\ y.told = x.told
                 /\ disk' = [d EXCEPT !.late = @ \/ tab[t].told]
              \/ disk' = disk /\ Steady(y)
<1>1. tab[t] \in TabType /\ disk \in DiskType /\ x \in TabType
  BY TabSound DEF VaultInv, Sound
<1>2. PICK b \in Int : b = V!Bind(tab[t])
  <2>1. disk.identity \in Int /\ tab[t].bound \in Int
    BY <1>1 DEF DiskType, TabType
  <2> QED BY <2>1 DEF V!Bind
<1>3. PICK z : z = [tab[t] EXCEPT !.bound = V!Bind(tab[t])]
  OBVIOUS
<1>4. z \in TabType /\ z.bound = b /\ z.told = tab[t].told
  BY <1>1, <1>2, <1>3 DEF TabType
<1>5. CASE V!Fenced(tab[t]) /\ fits
  <2>1. /\ disk' = [d EXCEPT !.late = @ \/ tab[t].told]
        /\ tab' = [tab EXCEPT ![t] = [x EXCEPT !.bound = b]]
    BY <1>3, <1>4, <1>5 DEF V!BoundWhen, V!Become
  <2>2. PICK y : y = [x EXCEPT !.bound = b]
    OBVIOUS
  <2>3. /\ y \in TabType /\ y.pc = x.pc /\ y.key = x.key /\ y.told = x.told
        /\ y.then = x.then /\ y.config = x.config /\ y.got = x.got
    BY <1>1, <2>2 DEF TabType
  <2>4. Sound(y)
    BY <2>3 DEF Sound, TaskFits, KeysFit, V!Encrypted
  <2> QED BY <1>5, <2>1, <2>2, <2>3, <2>4
<1>6. CASE ~(V!Fenced(tab[t]) /\ fits)
  <2>1. PICK y : y = V!Ended(z)
    OBVIOUS
  <2>2. disk' = disk /\ tab' = [tab EXCEPT ![t] = y]
    BY <1>3, <1>6, <2>1 DEF V!BoundWhen, V!Become
  <2>3. Steady(y)
    BY <1>4, <2>1, EndedSteady
  <2> QED BY <2>2, <2>3 DEF Steady
<1> QED BY <1>5, <1>6

-----------------------------------------------------------------------------
(* Steps that leave the local store alone.                                   *)
LEMMA WorldKept ==
  ASSUME VaultInv, UNCHANGED <<server, net>>,
         spent' = spent \/ \E what \in VaultEvents : V!Spend(what)
  PROVE  WorldTypes'
<1>1. spent' \in [VaultEvents -> Nat]
  BY SpendTyped DEF VaultInv, WorldTypes
<1> QED BY <1>1 DEF VaultInv, WorldTypes

(* A task goes on without a request, or with one that is only read.          *)
LEMMA BeginSteps ==
  ASSUME VaultInv, NEW t \in Tabs,
         \/ V!SignIn(t) \/ V!Sync(t) \/ V!VerifyPeer(t) \/ V!ConfirmSwitch(t)
         \/ V!ChangeCredential(t)
  PROVE  VaultInv'
<1>1. PICK then \in {"signIn", "sync", "peer", "switch", "change"},
           pc \in {"bootFetch", "page", "switchFetch", "credential"} :
        /\ V!Become(t, V!Begin(tab[t], then, pc))
        /\ pc = "bootFetch" => then \in {"signIn", "peer"}
  BY DEF V!SignIn, V!Sync, V!VerifyPeer, V!ConfirmSwitch, V!ChangeCredential
<1>2. /\ disk' = disk /\ UNCHANGED <<server, net>>
      /\ \E what \in VaultEvents : V!Spend(what)
  BY DEF V!SignIn, V!Sync, V!VerifyPeer, V!ConfirmSwitch, V!ChangeCredential, VaultEvents
<1>3. PICK x, y : x = tab[t] /\ y = V!Begin(x, then, pc)
  OBVIOUS
<1>4. x \in TabType
  BY <1>3, TabSound
<1>5. Moved(y, x, pc, then)
  BY <1>3, <1>4, BeginMoved DEF Steps, FreeSteps, Booting, Purposes, Starts
<1>6. Steady(y)
  BY <1>1, <1>5, MovedSteady DEF Booting, Starts, Unlocking, Converting
<1> QED BY <1>1, <1>2, <1>3, <1>6, WorldKept, QuietStep

LEMMA RestartSteps ==
  ASSUME VaultInv, NEW t \in Tabs, V!Told(t) \/ V!Reload(t)
  PROVE  VaultInv'
<1>1. PICK y : y = V!Fresh
  OBVIOUS
<1>2. V!Become(t, y) /\ disk' = disk /\ WorldTypes'
  BY <1>1, WorldKept DEF V!Told, V!Reload, VaultEvents
<1> QED BY <1>1, <1>2, FreshSteady, QuietStep

LEMMA NoAnswerStep ==
  ASSUME VaultInv, NEW t \in Tabs, V!NoAnswer(t)
  PROVE  VaultInv'
<1>1. PICK x, y : x = tab[t] /\ y = V!Unreached(tab[t])
  OBVIOUS
<1>2. Steady(y)
  BY <1>1, TabSound, UnreachedSteady DEF VaultInv
<1>3. V!Become(t, y) /\ disk' = disk /\ WorldTypes'
  BY <1>1, WorldKept DEF V!NoAnswer, VaultEvents
<1> QED BY <1>2, <1>3, QuietStep

LEMMA FetchBootstrapStep ==
  ASSUME VaultInv, NEW t \in Tabs, V!FetchBootstrap(t)
  PROVE  VaultInv'
<1>1. PICK x, b : x = tab[t] /\ b = V!Bootstrap
  OBVIOUS
<1>2. x \in TabType /\ TaskFits(x) /\ KeysFit(x) /\ b \in Config /\ b # None
  BY <1>1, TabSound, BootstrapTyped
<1>3. PICK y : y = [x EXCEPT !.got = b, !.pc = "inspect"]
  OBVIOUS
<1>4. V!Become(t, y) /\ disk' = disk /\ WorldTypes' /\ x.pc = "bootFetch"
  BY <1>1, <1>3, WorldKept DEF V!FetchBootstrap
<1>5. /\ y \in TabType /\ y.pc = "inspect" /\ y.got = b /\ y.then = x.then /\ y.key = x.key
  <2>1. "inspect" \in Steps
    BY DEF Steps, Booting
  <2> QED BY <1>2, <1>3, <2>1 DEF TabType
<1>6. Steady(y)
  BY <1>2, <1>4, <1>5 DEF Steady, Sound, TaskFits, KeysFit, Booting, Unlocking, Converting
<1> QED BY <1>4, <1>6, QuietStep

LEMMA LocalGoesOn ==
  ASSUME VaultInv, NEW t \in Tabs, V!ResumeMarker(t) \/ V!ResumeCheck(t) \/ V!Unlock(t)
  PROVE  VaultInv'
<1>1. PICK x : x = tab[t]
  OBVIOUS
<1>2. x \in TabType /\ TaskFits(x) /\ KeysFit(x)
  BY <1>1, TabSound
<1>3. PICK pc \in {"resumeCheck", "unlock", "forget", "discard", "unlocked", "mark"} :
        V!Become(t, V!At(x, pc)) /\ (pc = "resumeCheck" => x.pc = "resumeMarker")
  BY <1>1 DEF V!ResumeMarker, V!ResumeCheck, V!Unlock
<1>4. disk' = disk /\ WorldTypes' /\ x.pc \in {"resumeMarker", "resumeCheck", "unlock"}
  BY <1>1, WorldKept DEF V!ResumeMarker, V!ResumeCheck, V!Unlock
<1>5. PICK y : y = V!At(x, pc)
  OBVIOUS
<1>6. Moved(y, x, pc, x.then)
  BY <1>2, <1>5, AtMoved DEF Steps, Unlocking, FreeSteps
<1>7. /\ x.then \in {"migrate", "reset", "start", "signIn"} /\ x.key # 0
      /\ pc = "resumeCheck" => x.then = "start"
  BY <1>2, <1>3, <1>4 DEF TaskFits, KeysFit, Unlocking
<1>8. Steady(y)
  BY <1>6, <1>7, MovedSteady DEF Booting, Unlocking, Converting
<1> QED BY <1>3, <1>4, <1>5, <1>8, QuietStep

LEMMA LoginStep ==
  ASSUME VaultInv, NEW t \in Tabs, V!Login(t)
  PROVE  VaultInv'
<1>1. PICK x, l : x = tab[t] /\ l = net.live
  OBVIOUS
<1>2. x \in TabType /\ TaskFits(x) /\ KeysFit(x) /\ x.pc = "login" /\ l \in V!Databases
  BY <1>1, TabSound DEF V!Login, VaultInv, WorldTypes
<1>3. x.then \in {"signIn", "migrated"} /\ x.config \in Config /\ x.config # None
  BY <1>2 DEF TaskFits, KeysFit, TabType
<1>4. PICK c : c = [x.config EXCEPT !.inst = l]
  OBVIOUS
<1>5. c \in Config /\ c # None
  BY <1>2, <1>3, <1>4, ZeroVault DEF Config, V!Databases
<1>6. PICK y : y = [x EXCEPT !.got = c]
  OBVIOUS
<1>7. /\ y \in TabType /\ y.then = x.then /\ y.config = x.config /\ y.got = c /\ y.key = x.key
  BY <1>2, <1>5, <1>6 DEF TabType
<1>8. PICK z \in {V!At(y, "wrappers"), V!Ended(x), V!At(y, "identify")} :
        /\ z = V!At(y, "wrappers") => V!Encrypted(x)
        /\ z = IF V!Encrypted(x) THEN V!At(y, "wrappers")
               ELSE IF x.config.mode = "preparing" THEN V!Ended(x) ELSE V!At(y, "identify")
  <2>1. V!At(y, "wrappers") # V!At(y, "identify") /\ V!At(y, "wrappers") # V!Ended(x)
    <3>1. V!At(y, "wrappers").pc = "wrappers" /\ V!At(y, "identify").pc = "identify"
      BY <1>7, AtMoved DEF Moved, Steps
    <3> QED BY <1>2, <3>1, EndedSteady
  <2> QED BY <2>1
<1>9. Steady(z)
  <2>1. CASE z = V!At(y, "wrappers")
    <3>1. Moved(z, y, "wrappers", y.then)
      BY <1>7, <2>1, AtMoved DEF Steps
    <3>2. V!Encrypted(y)
      BY <1>7, <1>8, <2>1 DEF V!Encrypted
    <3> QED BY <1>3, <1>7, <3>1, <3>2, MovedSteady DEF Booting, Unlocking, Converting
  <2>2. CASE z = V!Ended(x)
    BY <1>2, <2>2, EndedSteady
  <2>3. CASE z = V!At(y, "identify")
    <3>1. Moved(z, y, "identify", y.then)
      BY <1>7, <2>3, AtMoved DEF Steps
    <3> QED BY <1>3, <1>5, <1>7, <3>1, MovedSteady DEF Booting, Unlocking, Converting
  <2> QED BY <2>1, <2>2, <2>3
<1>10. CASE net' = [net EXCEPT !.cookie = net.live] /\ V!Answered(t, z)
  <2>1. net' \in [live : V!Databases, cookie : V!Databases \cup {0}]
    BY <1>10 DEF VaultInv, WorldTypes
  <2>2. disk' = disk /\ server' = server
    BY DEF V!Login
  <2>3. WorldTypes' /\ \E u : Steady(u) /\ V!Become(t, u)
    BY <1>9, <1>10, <2>1, <2>2, AnsweredSteady DEF VaultInv, WorldTypes
  <2> QED BY <2>2, <2>3, QuietStep
<1>11. CASE V!Become(t, V!Ended(x)) /\ UNCHANGED <<net, spent>>
  <2>1. disk' = disk /\ WorldTypes'
    BY <1>11, WorldKept DEF V!Login
  <2> QED BY <1>2, <1>11, <2>1, EndedSteady, QuietStep
<1>12. \/ net' = [net EXCEPT !.cookie = net.live] /\ V!Answered(t, z)
       \/ V!Become(t, V!Ended(x)) /\ UNCHANGED <<net, spent>>
  BY <1>1, <1>4, <1>6, <1>8 DEF V!Login
<1> QED BY <1>10, <1>11, <1>12

LEMMA FetchWrappersStep ==
  ASSUME VaultInv, NEW t \in Tabs, V!FetchWrappers(t)
  PROVE  VaultInv'
<1>1. PICK x, w : x = tab[t] /\ w = V!Wrappers
  OBVIOUS
<1>2. x \in TabType /\ TaskFits(x) /\ KeysFit(x) /\ x.pc = "wrappers"
  BY <1>1, TabSound DEF V!FetchWrappers
<1>3. w \in Wraps
  BY <1>1, BootstrapTyped DEF V!Wrappers, Wraps, DatabaseType
<1>4. PICK y : y = [x EXCEPT !.wraps = w, !.pc = "cacheWraps"]
  OBVIOUS
<1>5. /\ y \in TabType /\ y.pc = "cacheWraps" /\ y.then = x.then /\ y.config = x.config
      /\ y.got = x.got /\ y.key = x.key /\ y.told = x.told
  <2>1. "cacheWraps" \in Steps
    BY DEF Steps
  <2> QED BY <1>2, <1>3, <1>4, <2>1 DEF TabType
<1>6. x.then = "reset" => x.key # 0
  BY <1>2 DEF KeysFit
<1>7. PICK z \in {y, V!Ended(x)} : /\ V!Asked(t, z)
                                   /\ z = y => x.then # "reset" \/ x.config.vault = x.key
  <2>1. PICK made \in BOOLEAN :
          /\ made => x.then # "reset" \/ x.config.vault = x.key
          /\ V!Asked(t, IF made THEN y ELSE V!Ended(x))
    BY <1>1, <1>4 DEF V!FetchWrappers
  <2>2. y # V!Ended(x)
    BY <1>2, <1>5, EndedSteady
  <2> QED BY <2>1, <2>2
<1>8. Steady(z)
  <2>1. CASE z = y
    <3>1. Moved(y, x, "cacheWraps", x.then)
      BY <1>5 DEF Moved
    <3>2. x.then \in {"signIn", "migrated", "reset", "changed"} /\ x.config # None
          /\ (x.then = "signIn" => V!Encrypted(x))
      BY <1>2 DEF TaskFits, KeysFit
    <3> QED BY <1>6, <1>7, <2>1, <3>1, <3>2, MovedSteady DEF Booting, Unlocking, Converting
  <2>2. CASE z = V!Ended(x)
    BY <1>2, <2>2, EndedSteady
  <2> QED BY <2>1, <2>2
<1>9. disk' = disk /\ WorldTypes'
  BY WorldKept DEF V!FetchWrappers
<1> QED BY <1>7, <1>8, <1>9, AskedSteady, QuietStep

LEMMA LockStep ==
  ASSUME VaultInv, NEW t \in Tabs, V!Lock(t)
  PROVE  VaultInv'
<1>1. PICK x : x = tab[t]
  OBVIOUS
<1>2. PICK y : y = [x EXCEPT !.root = 0, !.local = 0, !.pc = "forget"]
  OBVIOUS
<1>3. V!Become(t, y) /\ disk' = disk /\ WorldTypes'
  BY <1>1, <1>2, WorldKept DEF V!Lock
<1>4. x \in TabType /\ KeysFit(x)
  BY <1>1, TabSound
<1>5. y \in TabType /\ y.pc = "forget" /\ y.then = x.then /\ y.key = x.key
  <2>1. "forget" \in Steps /\ 0 \in VaultNumbers
    BY ZeroVault DEF Steps, FreeSteps
  <2> QED BY <1>2, <1>4, <2>1 DEF TabType
<1>6. Steady(y)
  BY <1>4, <1>5, FreeSteady DEF FreeSteps, KeysFit
<1> QED BY <1>3, <1>6, QuietStep

LEMMA FetchPageStep ==
  ASSUME VaultInv, NEW t \in Tabs, V!FetchPage(t)
  PROVE  VaultInv'
<1>1. PICK x, b, l : x = tab[t] /\ b = V!Bootstrap /\ l = net.live
  OBVIOUS
<1>2. /\ x \in TabType /\ TaskFits(x) /\ KeysFit(x) /\ b \in Config /\ l \in V!Databases
      /\ x.pc = "page"
  BY <1>1, TabSound, BootstrapTyped DEF VaultInv, WorldTypes, V!FetchPage
<1>3. PICK base : base = IF x.config = None THEN [b EXCEPT !.mode = "legacy", !.vault = 0] ELSE x.config
  OBVIOUS
<1>4. base \in Config
  <2>1. 0 \in VaultNumbers
    BY ZeroVault
  <2> QED BY <1>2, <1>3, <2>1 DEF Config, Modes, TabType
<1>5. PICK c : c = [base EXCEPT !.inst = l]
  OBVIOUS
<1>6. c \in Config /\ c # None
  BY <1>2, <1>4, <1>5, ZeroVault DEF Config, V!Databases
<1>7. PICK y : y = [x EXCEPT !.got = c, !.pc = "identify"]
  OBVIOUS
<1>8. y \in TabType /\ y.pc = "identify" /\ y.got = c /\ y.then = x.then /\ y.key = x.key
  <2>1. "identify" \in Steps
    BY DEF Steps
  <2> QED BY <1>2, <1>6, <1>7, <2>1 DEF TabType
<1>9. Steady(y)
  BY <1>2, <1>6, <1>8 DEF Steady, Sound, TaskFits, KeysFit, Booting, Unlocking, Converting
<1>10. V!Asked(t, y) /\ disk' = disk /\ WorldTypes'
  BY <1>1, <1>3, <1>5, <1>7, WorldKept DEF V!FetchPage
<1> QED BY <1>9, <1>10, AskedSteady, QuietStep

LEMMA FetchNotesStep ==
  ASSUME VaultInv, NEW t \in Tabs, V!FetchNotes(t)
  PROVE  VaultInv'
<1>1. PICK x, l : x = tab[t] /\ l = net.live
  OBVIOUS
<1>2. x \in TabType /\ KeysFit(x) /\ l \in Nat
  BY <1>1, TabSound DEF VaultInv, WorldTypes, V!Databases
<1>3. PICK y : y = [x EXCEPT !.inst = l, !.pc = "apply"]
  OBVIOUS
<1>4. y \in TabType /\ y.pc = "apply" /\ y.then = x.then /\ y.key = x.key
  <2>1. "apply" \in Steps
    BY DEF Steps, FreeSteps
  <2> QED BY <1>2, <1>3, <2>1 DEF TabType
<1>5. Steady(y) /\ Steady(V!Ended(x))
  BY <1>2, <1>4, FreeSteady, EndedSteady DEF FreeSteps, KeysFit
<1>6. PICK z \in {y, V!Ended(x)} : V!Asked(t, z)
  BY <1>1, <1>3 DEF V!FetchNotes
<1>7. disk' = disk /\ WorldTypes'
  BY WorldKept DEF V!FetchNotes
<1> QED BY <1>5, <1>6, <1>7, AskedSteady, QuietStep

LEMMA PushStep ==
  ASSUME VaultInv, NEW t \in Tabs, V!Push(t)
  PROVE  VaultInv'
<1>1. PICK x : x = tab[t]
  OBVIOUS
<1>2. x \in TabType /\ KeysFit(x)
  BY <1>1, TabSound
<1>3. Moved(V!At(x, "acknowledge"), x, "acknowledge", x.then)
  BY <1>2, AtMoved DEF Steps, FreeSteps
<1>4. Steady(V!At(x, "acknowledge")) /\ Steady(V!Ended(x))
  BY <1>2, <1>3, FreeSteady, EndedSteady DEF FreeSteps, KeysFit, Moved
<1>5. /\ disk' = disk /\ UNCHANGED <<server, net>>
      /\ V!Answered(t, V!At(x, "acknowledge")) \/ (V!Asked(t, V!Ended(x)) /\ UNCHANGED spent)
  BY <1>1 DEF V!Push
<1>6. spent' \in [VaultEvents -> Nat] /\ \E z : Steady(z) /\ V!Become(t, z)
  BY <1>4, <1>5, AnsweredSteady, AskedSteady DEF VaultInv, WorldTypes
<1>7. WorldTypes'
  BY <1>5, <1>6 DEF VaultInv, WorldTypes
<1> QED BY <1>5, <1>6, <1>7, QuietStep

(* The server and the session.                                               *)
LEMMA ServerTyped ==
  ASSUME VaultInv, NEW l, l = net.live, NEW d \in DatabaseType, server' = [server EXCEPT ![l] = d]
  PROVE  server' \in [V!Databases -> DatabaseType]
BY DEF VaultInv, WorldTypes

LEMMA CookieTyped ==
  ASSUME VaultInv, NEW c \in V!Databases \cup {0}, net' = [net EXCEPT !.cookie = c]
  PROVE  net' \in [live : V!Databases, cookie : V!Databases \cup {0}]
BY DEF VaultInv, WorldTypes

LEMMA LiveTyped ==
  ASSUME VaultInv
  PROVE  net.live \in V!Databases /\ V!Live = server[net.live] /\ V!Live \in DatabaseType
BY DEF VaultInv, WorldTypes, V!Live

(* A request that an answer or its loss ends, or that the server refuses.    *)
LEMMA RequestStep ==
  ASSUME VaultInv, NEW t \in Tabs, NEW y, Steady(y), disk' = disk,
         server' \in [V!Databases -> DatabaseType],
         net' \in [live : V!Databases, cookie : V!Databases \cup {0}],
         \/ V!Answered(t, y)
         \/ (V!Asked(t, y) \/ V!Become(t, y)) /\ UNCHANGED spent
  PROVE  VaultInv'
<1>1. spent' \in [VaultEvents -> Nat] /\ \E z : Steady(z) /\ V!Become(t, z)
  BY AnsweredSteady, AskedSteady DEF VaultInv, WorldTypes
<1>2. WorldTypes'
  BY <1>1 DEF WorldTypes
<1> QED BY <1>1, <1>2, QuietStep

LEMMA WorldNow ==
  ASSUME VaultInv
  PROVE  /\ server \in [V!Databases -> DatabaseType]
         /\ net \in [live : V!Databases, cookie : V!Databases \cup {0}]
BY DEF VaultInv, WorldTypes

LEMMA KeyedSteady ==
  ASSUME NEW x \in TabType, NEW k \in VaultNumbers \ {0}, x.config # None,
         NEW then \in {"migrate", "reset"}, NEW pc,
         pc = IF then = "migrate" THEN "migrationStart" ELSE "resetPost"
  PROVE  Steady([V!Begin(x, then, pc) EXCEPT !.key = k])
<1>1. PICK y : y = V!Begin(x, then, pc)
  OBVIOUS
<1>2. Moved(y, x, pc, then)
  BY <1>1, BeginMoved DEF Steps, Purposes, Starts
<1>3. PICK z : z = [y EXCEPT !.key = k]
  OBVIOUS
<1>4. z \in TabType /\ z.pc = pc /\ z.then = then /\ z.config = x.config /\ z.key = k
  BY <1>2, <1>3 DEF Moved, TabType
<1>5. Steady(z)
  BY <1>4 DEF Steady, Sound, TaskFits, KeysFit, Booting, Unlocking, Converting
<1> QED BY <1>1, <1>3, <1>5

LEMMA MigrateStep ==
  ASSUME VaultInv, NEW t \in Tabs, V!Migrate(t) \/ V!Reset(t)
  PROVE  VaultInv'
<1>1. PICK x : x = tab[t]
  OBVIOUS
<1>2. x \in TabType
  BY <1>1, TabSound
<1>3. disk' = disk /\ WorldTypes' /\ x.config # None
  BY <1>1, WorldKept DEF V!Migrate, V!Reset, V!MayChange, VaultEvents
<1>4. x.config \in Config
  BY <1>2, <1>3 DEF TabType
<1>5. PICK k \in VaultNumbers \ {0}, then \in {"migrate", "reset"} :
        V!Become(t, [V!Begin(x, then, IF then = "migrate" THEN "migrationStart" ELSE "resetPost")
                       EXCEPT !.key = k])
  <2>1. CASE V!Migrate(t) /\ x.config.mode = "preparing"
    <3>1. V!Become(t, [V!Begin(x, "migrate", "migrationStart") EXCEPT !.key = x.config.vault])
      BY <1>1, <2>1 DEF V!Migrate
    <3>2. PICK k \in VaultNumbers \ {0} : k = x.config.vault
      BY <1>4, <2>1 DEF Config
    <3> QED BY <3>1, <3>2
  <2>2. CASE V!Migrate(t) /\ x.config.mode # "preparing"
    <3>1. /\ V!NewVault <= MaxVaults
          /\ V!Become(t, [V!Begin(x, "migrate", "migrationStart") EXCEPT !.key = V!NewVault])
      BY <1>1, <2>2 DEF V!Migrate
    <3>2. PICK k \in VaultNumbers \ {0} : k = V!NewVault
      BY <3>1, NewVaultTyped
    <3> QED BY <3>1, <3>2
  <2>3. CASE V!Reset(t)
    <3>1. /\ V!NewVault <= MaxVaults
          /\ V!Become(t, [V!Begin(x, "reset", "resetPost") EXCEPT !.key = V!NewVault])
      BY <1>1, <2>3 DEF V!Reset
    <3>2. PICK k \in VaultNumbers \ {0} : k = V!NewVault
      BY <3>1, NewVaultTyped
    <3> QED BY <3>1, <3>2
  <2> QED BY <2>1, <2>2, <2>3
<1>6. PICK pc : pc = IF then = "migrate" THEN "migrationStart" ELSE "resetPost"
  OBVIOUS
<1>7. PICK y : y = [V!Begin(x, then, pc) EXCEPT !.key = k]
  OBVIOUS
<1>8. Steady(y)
  BY <1>2, <1>3, <1>6, <1>7, KeyedSteady
<1> QED BY <1>3, <1>5, <1>6, <1>7, <1>8, QuietStep

LEMMA MigrationStartStep ==
  ASSUME VaultInv, NEW t \in Tabs, V!MigrationStart(t)
  PROVE  VaultInv'
<1>1. PICK x, l, k : x = tab[t] /\ l = net.live /\ k = x.key
  OBVIOUS
<1>2. x \in TabType /\ TaskFits(x) /\ KeysFit(x) /\ x.pc = "migrationStart"
  BY <1>1, TabSound DEF V!MigrationStart
<1>3. x.then = "migrate" /\ k \in VaultNumbers /\ k # 0
  BY <1>1, <1>2 DEF TaskFits, KeysFit, TabType
<1>4. disk' = disk /\ net' = net
  BY DEF V!MigrationStart
<1>5. CASE /\ server' = [server EXCEPT ![net.live].mode = "preparing", ![net.live].vault = x.key]
           /\ V!Answered(t, V!At(x, IF x.config.mode = "preparing" THEN "stage" ELSE "bootFetch"))
  <2>1. PICK d : d = [server[l] EXCEPT !.mode = "preparing", !.vault = k]
    OBVIOUS
  <2>2. d \in DatabaseType
    BY <1>1, <1>3, <2>1, LiveTyped DEF DatabaseType, Modes
  <2>3. server' = [server EXCEPT ![l] = d]
    BY <1>1, <1>5, <2>1
  <2>4. server' \in [V!Databases -> DatabaseType]
    BY <1>1, <2>2, <2>3, ServerTyped
  <2>5. PICK pc \in {"stage", "bootFetch"} : V!Answered(t, V!At(x, pc))
    BY <1>5
  <2>6. PICK y : y = V!At(x, pc)
    OBVIOUS
  <2>7. Moved(y, x, pc, x.then)
    BY <1>2, <2>6, AtMoved DEF Steps, Booting
  <2>8. Steady(y)
    BY <1>1, <1>3, <2>7, MovedSteady DEF Booting, Starts, Unlocking, Converting
  <2> QED BY <1>4, <2>4, <2>5, <2>6, <2>8, RequestStep, WorldNow
<1>6. CASE V!Asked(t, V!Ended(x)) /\ UNCHANGED <<server, spent>>
  BY <1>2, <1>4, <1>6, EndedSteady, RequestStep, WorldNow
<1>7. \/ /\ server' = [server EXCEPT ![net.live].mode = "preparing", ![net.live].vault = x.key]
         /\ V!Answered(t, V!At(x, IF x.config.mode = "preparing" THEN "stage" ELSE "bootFetch"))
      \/ V!Asked(t, V!Ended(x)) /\ UNCHANGED <<server, spent>>
  BY <1>1 DEF V!MigrationStart
<1> QED BY <1>5, <1>6, <1>7

LEMMA StagingSteps ==
  ASSUME VaultInv, NEW t \in Tabs, V!StageNote(t) \/ V!VerifyNote(t)
  PROVE  VaultInv'
<1>1. PICK x, l : x = tab[t] /\ l = net.live
  OBVIOUS
<1>2. x \in TabType /\ TaskFits(x) /\ KeysFit(x) /\ x.pc \in {"stage", "verify"}
  BY <1>1, TabSound DEF V!StageNote, V!VerifyNote
<1>3. x.then = "migrate" /\ x.key # 0
  BY <1>2 DEF TaskFits, KeysFit
<1>4. disk' = disk /\ net' = net /\ spent' = spent
  BY DEF V!StageNote, V!VerifyNote
<1>5. \A pc \in {"stage", "verify", "unlock"} : Steady(V!At(x, pc))
  <2> SUFFICES ASSUME NEW pc \in {"stage", "verify", "unlock"} PROVE Steady(V!At(x, pc))
    OBVIOUS
  <2>1. PICK y : y = V!At(x, pc)
    OBVIOUS
  <2>2. Moved(y, x, pc, x.then)
    BY <1>2, <2>1, AtMoved DEF Steps, Unlocking
  <2>3. Steady(y)
    BY <1>3, <2>2, MovedSteady DEF Booting, Unlocking, Converting
  <2> QED BY <2>1, <2>3
<1>6. CASE \E s \in {"staged", "verified"}, pc \in {"stage", "verify"} :
             server' = [server EXCEPT ![net.live].staged = s] /\ V!Become(t, V!At(x, pc))
  <2>1. PICK s \in {"staged", "verified"}, pc \in {"stage", "verify"} :
             server' = [server EXCEPT ![net.live].staged = s] /\ V!Become(t, V!At(x, pc))
    BY <1>6
  <2>2. PICK d : d = [server[l] EXCEPT !.staged = s]
    OBVIOUS
  <2>3. d \in DatabaseType
    BY <1>1, <2>2, LiveTyped DEF DatabaseType
  <2>4. server' = [server EXCEPT ![l] = d]
    BY <1>1, <2>1, <2>2
  <2>5. server' \in [V!Databases -> DatabaseType]
    BY <1>1, <2>3, <2>4, ServerTyped
  <2>6. PICK y : y = V!At(x, pc)
    OBVIOUS
  <2> QED BY <1>4, <1>5, <2>1, <2>5, <2>6, RequestStep, WorldNow
<1>7. CASE \E y : Steady(y) /\ V!Asked(t, y) /\ UNCHANGED server
  BY <1>4, <1>7, RequestStep, WorldNow
<1>8. Steady(V!Ended(x))
  BY <1>2, EndedSteady
<1>9. \/ \E s \in {"staged", "verified"}, pc \in {"stage", "verify"} :
           server' = [server EXCEPT ![net.live].staged = s] /\ V!Become(t, V!At(x, pc))
      \/ V!Asked(t, V!At(x, "unlock")) /\ UNCHANGED server
      \/ V!Asked(t, V!Ended(x)) /\ UNCHANGED server
  BY <1>1 DEF V!StageNote, V!VerifyNote
<1> QED BY <1>5, <1>6, <1>7, <1>8, <1>9

LEMMA CommitMigrationStep ==
  ASSUME VaultInv, NEW t \in Tabs, V!CommitMigration(t)
  PROVE  VaultInv'
<1>1. PICK x, l : x = tab[t] /\ l = net.live
  OBVIOUS
<1>2. x \in TabType
  BY <1>1, TabSound
<1>3. CASE /\ V!Live.mode = "preparing"
           /\ server' = [server EXCEPT ![net.live].mode = "encrypted"]
           /\ net' = [net EXCEPT !.cookie = 0]
           /\ V!Answered(t, V!Begin(x, "migrated", "bootFetch"))
  <2>1. PICK d : d = [server[l] EXCEPT !.mode = "encrypted"]
    OBVIOUS
  <2>2. d \in DatabaseType
    BY <1>1, <1>3, <2>1, LiveTyped DEF DatabaseType, Modes
  <2>3. server' = [server EXCEPT ![l] = d]
    BY <1>1, <1>3, <2>1
  <2>4. server' \in [V!Databases -> DatabaseType]
    BY <1>1, <2>2, <2>3, ServerTyped
  <2>5. net' \in [live : V!Databases, cookie : V!Databases \cup {0}]
    BY <1>3, CookieTyped
  <2>6. PICK y : y = V!Begin(x, "migrated", "bootFetch")
    OBVIOUS
  <2>7. Moved(y, x, "bootFetch", "migrated")
    BY <1>2, <2>6, BeginMoved DEF Steps, Booting, Purposes, Starts
  <2>8. Steady(y)
    BY <2>7, MovedSteady DEF Booting, Starts, Unlocking, Converting
  <2>9. disk' = disk
    BY DEF V!CommitMigration
  <2> QED BY <1>3, <2>4, <2>5, <2>6, <2>8, <2>9, RequestStep
<1>4. CASE V!Asked(t, V!Ended(x)) /\ UNCHANGED <<server, net, spent>>
  <2>1. disk' = disk
    BY DEF V!CommitMigration
  <2> QED BY <1>2, <1>4, <2>1, EndedSteady, RequestStep, WorldNow
<1> QED BY <1>1, <1>3, <1>4 DEF V!CommitMigration

LEMMA PostResetStep ==
  ASSUME VaultInv, NEW t \in Tabs, V!PostReset(t)
  PROVE  VaultInv'
<1>1. PICK x, l, k : x = tab[t] /\ l = net.live /\ k = x.key
  OBVIOUS
<1>2. x \in TabType /\ TaskFits(x) /\ KeysFit(x) /\ x.pc = "resetPost" /\ disk' = disk
  BY <1>1, TabSound DEF V!PostReset
<1>3. x.then = "reset" /\ k \in VaultNumbers /\ k # 0
  BY <1>1, <1>2 DEF TaskFits, KeysFit, TabType
<1>4. CASE /\ server' = [server EXCEPT ![net.live].vault = x.key, ![net.live].gen = 1]
           /\ net' = [net EXCEPT !.cookie = net.live]
           /\ V!Answered(t, V!At(x, "resetDiscard"))
  <2>1. PICK d : d = [server[l] EXCEPT !.vault = k, !.gen = 1]
    OBVIOUS
  <2>2. d \in DatabaseType
    BY <1>1, <1>3, <2>1, LiveTyped DEF DatabaseType, Modes
  <2>3. server' = [server EXCEPT ![l] = d]
    BY <1>1, <1>4, <2>1
  <2>4. server' \in [V!Databases -> DatabaseType]
    BY <1>1, <2>2, <2>3, ServerTyped
  <2>5. net' \in [live : V!Databases, cookie : V!Databases \cup {0}]
    BY <1>1, <1>4, CookieTyped, LiveTyped
  <2>6. PICK y : y = V!At(x, "resetDiscard")
    OBVIOUS
  <2>7. Moved(y, x, "resetDiscard", x.then)
    BY <1>2, <2>6, AtMoved DEF Steps
  <2>8. Steady(y)
    BY <1>1, <1>3, <2>7, MovedSteady DEF Booting, Unlocking, Converting
  <2> QED BY <1>2, <1>4, <2>4, <2>5, <2>6, <2>8, RequestStep
<1>5. CASE V!Become(t, V!Ended(x)) /\ UNCHANGED <<server, net, spent>>
  BY <1>2, <1>5, EndedSteady, RequestStep, WorldNow
<1> QED BY <1>1, <1>4, <1>5 DEF V!PostReset

LEMMA PostCredentialStep ==
  ASSUME VaultInv, NEW t \in Tabs, V!PostCredential(t)
  PROVE  VaultInv'
<1>1. PICK x, l : x = tab[t] /\ l = net.live
  OBVIOUS
<1>2. x \in TabType /\ disk' = disk /\ net' = net
  BY <1>1, TabSound DEF V!PostCredential
<1>3. CASE /\ server' = [server EXCEPT ![net.live].gen = @ + 1]
           /\ V!Answered(t, V!Begin(x, "changed", "bootFetch"))
  <2>1. PICK d : d = [server[l] EXCEPT !.gen = @ + 1]
    OBVIOUS
  <2>2. d \in DatabaseType
    BY <1>1, <2>1, LiveTyped DEF DatabaseType, Modes
  <2>3. server' = [server EXCEPT ![l] = d]
    BY <1>1, <1>3, <2>1
  <2>4. server' \in [V!Databases -> DatabaseType]
    BY <1>1, <2>2, <2>3, ServerTyped
  <2>5. PICK y : y = V!Begin(x, "changed", "bootFetch")
    OBVIOUS
  <2>6. Moved(y, x, "bootFetch", "changed")
    BY <1>2, <2>5, BeginMoved DEF Steps, Booting, Purposes, Starts
  <2>7. Steady(y)
    BY <2>6, MovedSteady DEF Booting, Starts, Unlocking, Converting
  <2> QED BY <1>2, <1>3, <2>4, <2>5, <2>7, RequestStep, WorldNow
<1>4. CASE V!Asked(t, V!Ended(x)) /\ UNCHANGED <<server, spent>>
  BY <1>2, <1>4, EndedSteady, RequestStep, WorldNow
<1> QED BY <1>1, <1>3, <1>4 DEF V!PostCredential

LEMMA SwitchFetchStep ==
  ASSUME VaultInv, NEW t \in Tabs, V!SwitchFetch(t)
  PROVE  VaultInv'
<1>1. PICK x, b : x = tab[t] /\ b = V!Bootstrap
  OBVIOUS
<1>2. x \in TabType /\ KeysFit(x) /\ b \in Config /\ b # None
  BY <1>1, TabSound, BootstrapTyped
<1>3. PICK pc \in {"identify", "logout", "switch"} :
        V!Become(t, [x EXCEPT !.got = b, !.pc = pc])
  BY <1>1 DEF V!SwitchFetch
<1>4. PICK y : y = [x EXCEPT !.got = b, !.pc = pc]
  OBVIOUS
<1>5. y \in TabType /\ y.pc = pc /\ y.got = b /\ y.then = x.then /\ y.key = x.key
  <2>1. pc \in Steps
    BY DEF Steps
  <2> QED BY <1>2, <1>4, <2>1 DEF TabType
<1>6. Steady(y)
  BY <1>2, <1>5 DEF Steady, Sound, TaskFits, KeysFit, Booting, Unlocking, Converting
<1>7. disk' = disk /\ WorldTypes'
  BY WorldKept DEF V!SwitchFetch
<1> QED BY <1>3, <1>4, <1>6, <1>7, QuietStep

LEMMA EndSessionStep ==
  ASSUME VaultInv, NEW t \in Tabs, V!EndSession(t)
  PROVE  VaultInv'
<1>1. PICK x, y : x = tab[t] /\ y = V!At(x, "switchVerify")
  OBVIOUS
<1>2. x \in TabType /\ KeysFit(x) /\ x.pc = "logout"
  BY <1>1, TabSound DEF V!EndSession
<1>3. Moved(y, x, "switchVerify", x.then)
  BY <1>1, <1>2, AtMoved DEF Steps
<1>4. Steady(y)
  BY <1>2, <1>3, MovedSteady DEF Booting, Unlocking, Converting, KeysFit
<1>5. net' \in [live : V!Databases, cookie : V!Databases \cup {0}]
  BY CookieTyped DEF V!EndSession
<1>6. disk' = disk /\ server' = server /\ V!Answered(t, y)
  BY <1>1 DEF V!EndSession
<1> QED BY <1>4, <1>5, <1>6, RequestStep, WorldNow

(* The world around the browser.                                             *)
LEMMA WorldSteps ==
  ASSUME VaultInv, V!SwapDatabase \/ V!ChangedElsewhere
  PROVE  VaultInv'
<1>1. spent' \in [VaultEvents -> Nat]
  BY SpendTyped DEF V!SwapDatabase, V!ChangedElsewhere, VaultEvents
<1>2. CASE V!SwapDatabase
  <2>1. net' \in [live : V!Databases, cookie : V!Databases \cup {0}]
    <3>1. PICK l : l = net.live
      OBVIOUS
    <3>2. l \in {1, 2} /\ net' = [net EXCEPT !.live = 3 - l]
      BY <1>2, <3>1, WorldNow DEF V!SwapDatabase, V!Databases
    <3>3. 3 - l \in {1, 2}
      BY <3>2
    <3> QED BY <3>2, <3>3, WorldNow DEF V!Databases
  <2>2. WorldTypes'
    BY <1>1, <1>2, <2>1, WorldNow DEF WorldTypes, V!SwapDatabase
  <2> QED BY <1>2, <2>2 DEF VaultInv, V!SwapDatabase
<1>3. CASE V!ChangedElsewhere
  <2>1. PICK l, v : l = net.live /\ v = V!NewVault
    OBVIOUS
  <2>2. v \in VaultNumbers /\ v # 0
    BY <1>3, <2>1, NewVaultTyped DEF V!ChangedElsewhere
  <2>3. server' \in [V!Databases -> DatabaseType]
    <3>1. CASE server' = [server EXCEPT ![net.live] =
                 [mode |-> "encrypted", vault |-> v, gen |-> 1, staged |-> "verified"]]
      <4>1. PICK d : d = [mode |-> "encrypted", vault |-> v, gen |-> 1, staged |-> "verified"]
        OBVIOUS
      <4>2. d \in DatabaseType
        BY <2>2, <4>1 DEF DatabaseType, Modes
      <4> QED BY <2>1, <3>1, <4>1, <4>2, ServerTyped
    <3>2. CASE server' = [server EXCEPT ![net.live].vault = v, ![net.live].gen = 1]
      <4>1. PICK d : d = [server[l] EXCEPT !.vault = v, !.gen = 1]
        OBVIOUS
      <4>2. d \in DatabaseType
        BY <2>1, <2>2, <4>1, LiveTyped DEF DatabaseType, Modes
      <4>3. server' = [server EXCEPT ![l] = d]
        BY <2>1, <3>2, <4>1
      <4> QED BY <2>1, <4>2, <4>3, ServerTyped
    <3>3. CASE server' = [server EXCEPT ![net.live].gen = @ + 1]
      <4>1. PICK d : d = [server[l] EXCEPT !.gen = @ + 1]
        OBVIOUS
      <4>2. d \in DatabaseType
        BY <2>1, <4>1, LiveTyped DEF DatabaseType, Modes
      <4>3. server' = [server EXCEPT ![l] = d]
        BY <2>1, <3>3, <4>1
      <4> QED BY <2>1, <4>2, <4>3, ServerTyped
    <3> QED BY <1>3, <2>1, <3>1, <3>2, <3>3 DEF V!ChangedElsewhere
  <2>4. net' \in [live : V!Databases, cookie : V!Databases \cup {0}]
    <3>1. PICK c : c = IF V!SignedIn THEN 0 ELSE net.cookie
      OBVIOUS
    <3>2. c \in V!Databases \cup {0} /\ net' = [net EXCEPT !.cookie = c]
      BY <1>3, <3>1, WorldNow DEF V!ChangedElsewhere
    <3> QED BY <3>2, CookieTyped
  <2>5. WorldTypes'
    BY <1>1, <2>3, <2>4 DEF WorldTypes
  <2> QED BY <1>3, <2>5 DEF VaultInv, V!ChangedElsewhere
<1> QED BY <1>2, <1>3

-----------------------------------------------------------------------------
(* Transactions that leave the marker as it is.                              *)
LEMMA BoundData ==
  ASSUME VaultInv, NEW t \in Tabs, NEW fits, NEW d \in DiskType, NEW x, Steady(x),
         V!BoundWhen(t, fits, d, x), WorldTypes', d.late = disk.late,
         fits => d.marker = disk.marker,
         fits => \A r \in d.notes : r \in disk.notes \/ Written(t, r.form),
         fits => \A o \in d.queue : o \in disk.queue \/ Written(t, o.form),
         fits => d.srv = disk.srv \/ Written(t, d.srv.form)
  PROVE  VaultInv'
<1>1. Sound(x)
  BY DEF Steady
<1>2. PICK y : /\ Sound(y) /\ tab' = [tab EXCEPT ![t] = y]
               /\ \/ /\ fits /\ y.pc = x.pc /\ y.key = x.key /\ y.told = x.told
                     /\ disk' = [d EXCEPT !.late = @ \/ tab[t].told]
                  \/ disk' = disk /\ Steady(y)
  BY <1>1, BoundOutcome
<1>3. CASE disk' = disk /\ Steady(y)
  BY <1>2, <1>3, QuietStep DEF V!Become
<1>4. CASE /\ fits /\ y.pc = x.pc
           /\ disk' = [d EXCEPT !.late = @ \/ tab[t].told]
  <2>1. PICK told \in BOOLEAN : told = tab[t].told
    BY TabSound DEF TabType
  <2>2. /\ disk' \in DiskType /\ disk'.marker = d.marker /\ disk'.notes = d.notes
        /\ disk'.queue = d.queue /\ disk'.srv = d.srv /\ (disk.late => disk'.late)
    BY <1>4, <2>1 DEF DiskType
  <2>3. y.pc \notin Converting
    BY <1>4 DEF Steady
  <2> QED BY <1>2, <1>4, <2>2, <2>3, DataStep
<1> QED BY <1>2, <1>3, <1>4

LEMMA StoreWritten ==
  ASSUME NEW t \in Tabs, NEW fits, NEW d, NEW x, V!OpenStore(t, fits, d, x)
  PROVE  /\ V!BoundWhen(t, V!Unlocked(tab[t]) /\ fits, d, x)
         /\ V!Unlocked(tab[t]) /\ fits => Written(t, tab[t].local)
BY DEF V!OpenStore, Written

LEMMA ShownSteady ==
  ASSUME NEW x \in TabType, NEW shown \in {"login", "app"}, NEW n \in Nat
  PROVE  /\ Steady([V!Ended(x) EXCEPT !.screen = shown])
         /\ Steady([V!Ended(x) EXCEPT !.screen = shown, !.sees = n])
<1>1. PICK e : e = V!Ended(x)
  OBVIOUS
<1>2. e \in TabType /\ e.pc = "idle" /\ e.then = "none"
  BY <1>1, EndedSteady
<1>3. PICK y, z : /\ y = [e EXCEPT !.screen = shown]
                  /\ z = [e EXCEPT !.screen = shown, !.sees = n]
  OBVIOUS
<1>4. /\ y \in TabType /\ y.pc = "idle" /\ y.then = "none"
      /\ z \in TabType /\ z.pc = "idle" /\ z.then = "none"
  BY <1>2, <1>3 DEF TabType
<1>5. Steady(y) /\ Steady(z)
  BY <1>4, FreeSteady DEF FreeSteps
<1> QED BY <1>1, <1>3, <1>5

LEMMA CacheVaultBootstrapStep ==
  ASSUME VaultInv, NEW t \in Tabs, V!CacheVaultBootstrap(t)
  PROVE  VaultInv'
<1>1. PICK x : x = tab[t]
  OBVIOUS
<1>2. /\ x \in TabType /\ TaskFits(x) /\ KeysFit(x) /\ x.pc = "cacheBoot" /\ disk \in DiskType
  BY <1>1, TabSound DEF V!CacheVaultBootstrap, VaultInv
<1>3. PICK d : d = [disk EXCEPT !.boot = x.got]
  OBVIOUS
<1>4. d \in DiskType /\ d.late = disk.late /\ d.marker = disk.marker /\ d.notes = disk.notes
      /\ d.queue = disk.queue /\ d.srv = disk.srv
  BY <1>2, <1>3 DEF DiskType, TabType
<1>5. PICK y : y = V!AfterBootstrap(x)
  OBVIOUS
<1>6. Steady(y)
  BY <1>2, <1>5, AfterBootstrapSteady DEF TaskFits, KeysFit, Booting
<1>7. V!BoundWhen(t, TRUE, d, y) /\ WorldTypes'
  BY <1>1, <1>3, <1>5, WorldKept DEF V!CacheVaultBootstrap
<1> QED BY <1>4, <1>6, <1>7, BoundData

LEMMA CheckServerIdentityStep ==
  ASSUME VaultInv, NEW t \in Tabs, V!CheckServerIdentity(t)
  PROVE  VaultInv'
<1>1. PICK x, s : x = tab[t] /\ s = disk.srv
  OBVIOUS
<1>2. /\ x \in TabType /\ TaskFits(x) /\ KeysFit(x) /\ x.pc = "serverID" /\ disk \in DiskType
      /\ s \in [value : Nat, form : VaultNumbers]
  BY <1>1, TabSound DEF V!CheckServerIdentity, VaultInv, DiskType
<1>3. x.got \in Config
  BY <1>2 DEF KeysFit, TabType
<1>4. PICK v : v = IF s.value = x.got.inst THEN s ELSE [value |-> x.got.inst, form |-> x.local]
  OBVIOUS
<1>5. v \in [value : Nat, form : VaultNumbers] /\ (v = s \/ v.form = x.local)
  BY <1>2, <1>3, <1>4 DEF Config, TabType
<1>6. PICK d : d = [disk EXCEPT !.srv = v]
  OBVIOUS
<1>7. d \in DiskType /\ d.late = disk.late /\ d.marker = disk.marker /\ d.notes = disk.notes
      /\ d.queue = disk.queue /\ d.srv = v
  BY <1>2, <1>5, <1>6 DEF DiskType
<1>8. PICK pc \in FreeSteps : pc = IF x.then = "signIn" THEN "startApp" ELSE "notes"
  BY DEF FreeSteps
<1>9. PICK y : y = V!At(x, pc)
  OBVIOUS
<1>10. Steady(y)
  <2>1. Moved(y, x, pc, x.then)
    BY <1>2, <1>9, AtMoved DEF Steps
  <2> QED BY <1>2, <2>1, FreeSteady DEF Moved, KeysFit
<1>11. PICK free : free = ~(disk.srv.value \notin {0, x.got.inst} /\ disk.queue # {})
  OBVIOUS
<1>12. V!OpenStore(t, free, d, y) /\ WorldTypes'
  <2>1. V!OpenStore(t, ~(disk.srv.value \notin {0, x.got.inst} /\ disk.queue # {}),
           [disk EXCEPT !.srv = IF @.value = x.got.inst THEN @
                                ELSE [value |-> x.got.inst, form |-> x.local]],
           V!At(x, IF x.then = "signIn" THEN "startApp" ELSE "notes"))
    BY <1>1 DEF V!CheckServerIdentity
  <2>2. [disk EXCEPT !.srv = IF @.value = x.got.inst THEN @
                                ELSE [value |-> x.got.inst, form |-> x.local]] = d
    BY <1>1, <1>4, <1>6
  <2> QED BY <1>8, <1>9, <1>11, <2>1, <2>2, WorldKept DEF V!CheckServerIdentity
<1>13. PICK fits : fits = (V!Unlocked(tab[t]) /\ free)
  OBVIOUS
<1>14. V!BoundWhen(t, fits, d, y) /\ (fits => Written(t, x.local))
  BY <1>1, <1>12, <1>13, StoreWritten
<1> QED BY <1>1, <1>5, <1>7, <1>10, <1>12, <1>14, BoundData

LEMMA ResumeRememberedStep ==
  ASSUME VaultInv, NEW t \in Tabs, V!ResumeRemembered(t)
  PROVE  VaultInv'
<1>1. PICK x, r : x = tab[t] /\ r = disk.root
  OBVIOUS
<1>2. /\ x \in TabType /\ TaskFits(x) /\ KeysFit(x) /\ x.pc = "resume" /\ disk \in DiskType
      /\ r \in VaultNumbers
  BY <1>1, TabSound DEF V!ResumeRemembered, VaultInv, DiskType
<1>3. x.then = "start"
  BY <1>2 DEF TaskFits
<1>4. PICK z : z = [x EXCEPT !.key = r, !.pc = "resumeMarker"]
  OBVIOUS
<1>5. z \in TabType /\ z.pc = "resumeMarker" /\ z.key = r /\ z.then = x.then
  <2>1. "resumeMarker" \in Steps
    BY DEF Steps
  <2> QED BY <1>2, <1>4, <2>1 DEF TabType
<1>6. PICK y : y = IF r = 0 THEN V!Ended(x) ELSE z
  OBVIOUS
<1>7. Steady(y)
  <2>1. CASE r # 0
    BY <1>3, <1>5, <1>6, <2>1 DEF Steady, Sound, TaskFits, KeysFit, Booting, Unlocking, Converting
  <2>2. CASE r = 0
    BY <1>2, <1>6, <2>2, EndedSteady
  <2> QED BY <2>1, <2>2
<1>8. PICK d : d = disk
  OBVIOUS
<1>9. V!BoundWhen(t, TRUE, d, y) /\ WorldTypes'
  BY <1>1, <1>4, <1>6, <1>8, WorldKept DEF V!ResumeRemembered
<1> QED BY <1>2, <1>7, <1>8, <1>9, BoundData

LEMMA ForgetRememberedRootStep ==
  ASSUME VaultInv, NEW t \in Tabs, V!ForgetRememberedRoot(t)
  PROVE  VaultInv'
<1>1. PICK x : x = tab[t]
  OBVIOUS
<1>2. x \in TabType /\ disk \in DiskType
  BY <1>1, TabSound DEF VaultInv
<1>3. PICK d : d = [disk EXCEPT !.root = 0]
  OBVIOUS
<1>4. d \in DiskType /\ d.late = disk.late /\ d.marker = disk.marker /\ d.notes = disk.notes
      /\ d.queue = disk.queue /\ d.srv = disk.srv
  BY <1>2, <1>3, ZeroVault DEF DiskType
<1>5. PICK y : y = [V!Ended(x) EXCEPT !.screen = "login"]
  OBVIOUS
<1>6. Steady(y)
  BY Zenon, <1>2, <1>5, ShownSteady
<1>7. V!BoundWhen(t, TRUE, d, y) /\ WorldTypes'
  BY <1>1, <1>3, <1>5, WorldKept DEF V!ForgetRememberedRoot
<1> QED BY <1>4, <1>6, <1>7, BoundData

LEMMA StartAppStep ==
  ASSUME VaultInv, NEW t \in Tabs, V!StartApp(t)
  PROVE  VaultInv'
<1>1. PICK x, d, n : x = tab[t] /\ d = disk /\ n = disk.origin
  OBVIOUS
<1>2. x \in TabType /\ d \in DiskType /\ n \in Nat
  BY <1>1, TabSound DEF VaultInv, DiskType
<1>3. PICK shown, offline : /\ shown = [V!Ended(x) EXCEPT !.screen = "app", !.sees = n]
                            /\ offline = (x.then = "signIn" /\ x.got = None)
  OBVIOUS
<1>4. PICK y : y = IF offline THEN shown ELSE V!Begin(shown, "sync", "page")
  OBVIOUS
<1>5. Steady(y)
  <2>1. Steady(shown)
    BY Zenon, <1>2, <1>3, ShownSteady
  <2>2. shown \in TabType
    BY <2>1 DEF Steady, Sound
  <2>3. Steady(V!Begin(shown, "sync", "page"))
    <3>1. "page" \in Steps /\ "sync" \in Purposes
      BY DEF Steps, FreeSteps, Purposes
    <3>2. PICK z : z = V!Begin(shown, "sync", "page")
      OBVIOUS
    <3>3. z \in TabType /\ z.pc = "page" /\ z.then = "sync"
      BY <2>2, <3>1, <3>2, BeginMoved DEF Moved
    <3> QED BY <3>2, <3>3, FreeSteady DEF FreeSteps
  <2> QED BY <1>4, <2>1, <2>3
<1>6. V!OpenStore(t, TRUE, d, y) /\ WorldTypes'
  BY <1>1, <1>3, <1>4, WorldKept DEF V!StartApp
<1>7. PICK fits : fits = (V!Unlocked(tab[t]) /\ TRUE)
  OBVIOUS
<1>8. V!BoundWhen(t, fits, d, y)
  BY <1>6, <1>7, StoreWritten
<1> QED BY <1>1, <1>2, <1>5, <1>6, <1>8, BoundData

LEMMA CacheVaultWrappersStep ==
  ASSUME VaultInv, NEW t \in Tabs, V!CacheVaultWrappers(t)
  PROVE  VaultInv'
<1>1. PICK x : x = tab[t]
  OBVIOUS
<1>2. /\ x \in TabType /\ TaskFits(x) /\ KeysFit(x) /\ x.pc = "cacheWraps" /\ disk \in DiskType
      /\ x.wraps \in Wraps \cup {None}
  BY <1>1, TabSound DEF V!CacheVaultWrappers, VaultInv, TabType
<1>3. PICK d : d = [disk EXCEPT !.wraps = x.wraps]
  OBVIOUS
<1>4. d \in DiskType /\ d.late = disk.late /\ d.marker = disk.marker /\ d.notes = disk.notes
      /\ d.queue = disk.queue /\ d.srv = disk.srv
  BY <1>2, <1>3 DEF DiskType
<1>5. PICK y : y = CASE x.then = "migrated" -> V!Fresh
                     [] x.then = "changed" -> V!Ended(x)
                     [] OTHER -> V!Unwrap(x, x.wraps)
  OBVIOUS
<1>6. Steady(y)
  <2>1. CASE x.then = "migrated"
    BY <1>5, <2>1, FreshSteady
  <2>2. CASE x.then = "changed"
    BY <1>2, <1>5, <2>2, EndedSteady
  <2>3. CASE x.then \in {"signIn", "reset"}
    <3>1. y = V!Unwrap(x, x.wraps)
      BY <1>5, <2>3
    <3>2. x.config # None /\ x.config.vault # 0
      BY <1>2, <2>3, EncryptedVault DEF KeysFit
    <3> QED BY <1>2, <2>3, <3>1, <3>2, UnwrapSteady
  <2> QED BY <1>2, <2>1, <2>2, <2>3 DEF TaskFits
<1>7. V!BoundWhen(t, TRUE, d, y) /\ WorldTypes'
  BY <1>1, <1>3, <1>5, WorldKept DEF V!CacheVaultWrappers
<1> QED BY <1>4, <1>6, <1>7, BoundData

LEMMA ApplyNotesStep ==
  ASSUME VaultInv, NEW t \in Tabs, V!ApplyNotes(t)
  PROVE  VaultInv'
<1>1. PICK x : x = tab[t]
  OBVIOUS
<1>2. x \in TabType /\ KeysFit(x) /\ disk \in DiskType
  BY <1>1, TabSound DEF VaultInv
<1>3. PICK r \in LocalNote : r = V!Note(x.local, x.inst, x.inst # x.got.inst)
  <2>1. PICK other \in BOOLEAN : other = (x.inst # x.got.inst)
    OBVIOUS
  <2>2. V!Note(x.local, x.inst, other) \in LocalNote
    BY <1>2 DEF TabType, LocalNote, V!Note
  <2> QED BY <2>1, <2>2
<1>4. PICK d : d = [disk EXCEPT !.notes = @ \cup {r}]
  OBVIOUS
<1>5. d \in DiskType /\ d.late = disk.late /\ d.marker = disk.marker
      /\ d.notes = disk.notes \cup {r} /\ d.queue = disk.queue /\ d.srv = disk.srv
  BY <1>2, <1>4 DEF DiskType
<1>6. PICK y : y = V!At(x, "claim")
  OBVIOUS
<1>7. Steady(y)
  <2>1. Moved(y, x, "claim", x.then)
    BY <1>2, <1>6, AtMoved DEF Steps, FreeSteps
  <2> QED BY <1>2, <2>1, FreeSteady DEF Moved, KeysFit, FreeSteps
<1>8. V!OpenStore(t, TRUE, d, y) /\ WorldTypes'
  BY <1>1, <1>3, <1>4, <1>6, WorldKept DEF V!ApplyNotes
<1>9. PICK fits : fits = (V!Unlocked(tab[t]) /\ TRUE)
  OBVIOUS
<1>10. V!BoundWhen(t, fits, d, y) /\ (fits => Written(t, x.local))
  BY <1>1, <1>8, <1>9, StoreWritten
<1>11. r.form = x.local
  BY <1>3 DEF V!Note
<1> QED BY <1>5, <1>7, <1>8, <1>10, <1>11, BoundData

LEMMA ClaimBatchStep ==
  ASSUME VaultInv, NEW t \in Tabs, V!ClaimBatch(t)
  PROVE  VaultInv'
<1>1. PICK x, d, q : x = tab[t] /\ d = disk /\ q = disk.queue
  OBVIOUS
<1>2. x \in TabType /\ KeysFit(x) /\ d \in DiskType /\ q \in SUBSET LocalEdit
  BY <1>1, TabSound DEF VaultInv, DiskType
<1>3. PICK z : z = [x EXCEPT !.ops = q]
  OBVIOUS
<1>4. z \in TabType /\ z.then = x.then /\ z.key = x.key
  BY <1>2, <1>3 DEF TabType
<1>5. PICK y : y = IF q = {} THEN V!Ended(x) ELSE V!At(z, "header")
  OBVIOUS
<1>6. Steady(y)
  <2>1. Moved(V!At(z, "header"), z, "header", z.then)
    BY <1>4, AtMoved DEF Steps, FreeSteps
  <2>2. Steady(V!At(z, "header"))
    BY <1>2, <1>4, <2>1, FreeSteady DEF Moved, KeysFit, FreeSteps
  <2> QED BY <1>2, <1>5, <2>2, EndedSteady
<1>7. PICK fit : fit = \A o \in disk.queue : o.form = x.local
  OBVIOUS
<1>8. V!OpenStore(t, fit, d, y) /\ WorldTypes'
  BY <1>1, <1>3, <1>5, <1>7, WorldKept DEF V!ClaimBatch
<1>9. PICK fits : fits = (V!Unlocked(tab[t]) /\ fit)
  OBVIOUS
<1>10. V!BoundWhen(t, fits, d, y)
  BY <1>8, <1>9, StoreWritten
<1> QED BY <1>1, <1>2, <1>6, <1>8, <1>10, BoundData

LEMMA GetInstanceIDStep ==
  ASSUME VaultInv, NEW t \in Tabs, V!GetInstanceID(t)
  PROVE  VaultInv'
<1>1. PICK x, d, n : x = tab[t] /\ d = disk /\ n = disk.srv.value
  OBVIOUS
<1>2. x \in TabType /\ KeysFit(x) /\ d \in DiskType /\ n \in Nat
  BY <1>1, TabSound DEF VaultInv, DiskType
<1>3. PICK y : y = [x EXCEPT !.inst = n, !.pc = "send"]
  OBVIOUS
<1>4. y \in TabType /\ y.pc = "send" /\ y.then = x.then /\ y.key = x.key
  <2>1. "send" \in Steps
    BY DEF Steps, FreeSteps
  <2> QED BY <1>2, <1>3, <2>1 DEF TabType
<1>5. Steady(y)
  BY <1>2, <1>4, FreeSteady DEF FreeSteps, KeysFit
<1>6. V!OpenStore(t, TRUE, d, y) /\ WorldTypes'
  BY <1>1, <1>3, WorldKept DEF V!GetInstanceID
<1>7. PICK fits : fits = (V!Unlocked(tab[t]) /\ TRUE)
  OBVIOUS
<1>8. V!BoundWhen(t, fits, d, y)
  BY <1>6, <1>7, StoreWritten
<1> QED BY <1>1, <1>2, <1>5, <1>6, <1>8, BoundData

LEMMA AcknowledgeBatchStep ==
  ASSUME VaultInv, NEW t \in Tabs, V!Acknowledge(t)
  PROVE  VaultInv'
<1>1. PICK x, q : x = tab[t] /\ q = {o \in disk.queue : o.id \notin {p.id : p \in x.ops}}
  OBVIOUS
<1>2. x \in TabType /\ disk \in DiskType /\ q \subseteq disk.queue
  BY <1>1, TabSound DEF VaultInv
<1>3. PICK d : d = [disk EXCEPT !.queue = q]
  OBVIOUS
<1>4. d \in DiskType /\ d.late = disk.late /\ d.marker = disk.marker /\ d.notes = disk.notes
      /\ d.queue = q /\ d.srv = disk.srv
  BY <1>2, <1>3 DEF DiskType
<1>5. PICK y : y = V!Ended(x)
  OBVIOUS
<1>6. Steady(y)
  BY <1>2, <1>5, EndedSteady
<1>7. V!OpenStore(t, TRUE, d, y) /\ WorldTypes'
  BY <1>1, <1>3, <1>5, WorldKept DEF V!Acknowledge
<1>8. PICK fits : fits = (V!Unlocked(tab[t]) /\ TRUE)
  OBVIOUS
<1>9. V!BoundWhen(t, fits, d, y)
  BY <1>7, <1>8, StoreWritten
<1> QED BY <1>2, <1>4, <1>6, <1>7, <1>9, BoundData

LEMMA UnlockVaultLocalStep ==
  ASSUME VaultInv, NEW t \in Tabs, NEW remember \in BOOLEAN, V!UnlockVaultLocal(t, remember)
  PROVE  VaultInv'
<1>1. PICK x, k : x = tab[t] /\ k = x.key
  OBVIOUS
<1>2. /\ x \in TabType /\ TaskFits(x) /\ KeysFit(x) /\ x.pc = "unlocked" /\ disk \in DiskType
      /\ MarkerFits(disk)
  BY <1>1, TabSound DEF V!UnlockVaultLocal, VaultInv
<1>3. k # 0 /\ k \in VaultNumbers /\ x.then \in {"migrate", "reset", "start", "signIn"}
  BY <1>1, <1>2 DEF TaskFits, KeysFit, Unlocking, TabType
<1>4. PICK r, m : r = (IF remember THEN k ELSE 0) /\ m = V!Marker(1, k)
  OBVIOUS
<1>5. r \in VaultNumbers /\ m \in MarkerType /\ m.value = 1 /\ m.vault = k
  <2>1. r \in VaultNumbers /\ 1 \in 0 .. 2
    BY <1>3, <1>4, ZeroVault
  <2>2. m.value = 1 /\ m.vault = k
    BY <1>4 DEF V!Marker
  <2> QED BY <1>3, <1>4, <2>1, <2>2, MarkerTyped
<1>6. PICK d : d = [disk EXCEPT !.root = r, !.marker = m]
  OBVIOUS
<1>7. d \in DiskType /\ d.late = disk.late /\ d.marker = m /\ d.notes = disk.notes
      /\ d.queue = disk.queue /\ d.srv = disk.srv
  BY <1>2, <1>5, <1>6 DEF DiskType
<1>8. PICK fits : fits = (disk.marker.value = 1 /\ disk.marker.vault \in {0, k})
  OBVIOUS
<1>9. fits => m = disk.marker
  <2>1. PICK q : q = disk.marker
    OBVIOUS
  <2>2. q \in MarkerType /\ (q.value = 1 => q.vault # 0)
    BY <1>2, <2>1 DEF DiskType, MarkerFits
  <2>3. q.value = 1 /\ q.vault \in {0, k} => m = q
    BY <1>5, <2>2 DEF MarkerType
  <2> QED BY <1>8, <2>1, <2>3
<1>10. PICK y : y = [x EXCEPT !.local = k]
  OBVIOUS
<1>11. y \in TabType /\ y.then = x.then /\ y.config = x.config /\ y.got = x.got /\ y.key = k
  BY <1>1, <1>2, <1>3, <1>10 DEF TabType
<1>12. PICK pc : pc = IF x.got = None THEN "startApp" ELSE "identify"
  OBVIOUS
<1>13. PICK z : z = CASE x.then = "migrate" -> V!At(y, "commit")
                      [] x.then = "reset" -> V!Fresh
                      [] x.then = "start" -> V!At([y EXCEPT !.root = k], "startApp")
                      [] x.then = "signIn" -> [y EXCEPT !.root = k, !.pc = pc]
  OBVIOUS
<1>14. Steady(z)
  <2>1. CASE x.then = "migrate"
    <3>1. z = V!At(y, "commit")
      BY <1>13, <2>1
    <3>2. Moved(z, y, "commit", y.then)
      BY <1>11, <3>1, AtMoved DEF Steps
    <3> QED BY <1>3, <1>11, <2>1, <3>2, MovedSteady DEF Booting, Unlocking, Converting
  <2>2. CASE x.then = "reset"
    BY <1>13, <2>2, FreshSteady
  <2>3. CASE x.then = "start"
    <3>1. PICK w : w = [y EXCEPT !.root = k]
      OBVIOUS
    <3>2. w \in TabType /\ w.then = "start" /\ w.key = k
      BY <1>3, <1>11, <2>3, <3>1 DEF TabType
    <3>3. z = V!At(w, "startApp")
      BY <1>13, <2>3, <3>1
    <3>4. Moved(z, w, "startApp", w.then)
      BY <3>2, <3>3, AtMoved DEF Steps, FreeSteps
    <3> QED BY <3>2, <3>4, FreeSteady DEF Moved, FreeSteps
  <2>4. CASE x.then = "signIn"
    <3>1. z = [y EXCEPT !.root = k, !.pc = pc]
      BY <1>13, <2>4
    <3>2. pc \in Steps
      BY <1>12 DEF Steps, FreeSteps
    <3>3. z \in TabType /\ z.pc = pc /\ z.then = "signIn" /\ z.got = x.got
      BY <1>3, <1>11, <2>4, <3>1, <3>2 DEF TabType
    <3> QED BY <1>12, <3>3 DEF Steady, Sound, TaskFits, KeysFit, Booting, Unlocking, Converting
  <2> QED BY <1>3, <2>1, <2>2, <2>3, <2>4
<1>15. V!BoundWhen(t, fits, d, z) /\ WorldTypes'
  BY <1>1, <1>4, <1>6, <1>8, <1>10, <1>12, <1>13, WorldKept DEF V!UnlockVaultLocal
<1> QED BY <1>7, <1>9, <1>14, <1>15, BoundData

LEMMA BindTyped ==
  ASSUME disk \in DiskType, NEW x \in TabType
  PROVE  V!Bind(x) \in Int
<1>1. disk.identity \in Int /\ x.bound \in Int
  BY DEF DiskType, TabType
<1> QED BY <1>1 DEF V!Bind

LEMMA EditStep ==
  ASSUME VaultInv, NEW t \in Tabs, V!Edit(t)
  PROVE  VaultInv'
<1>1. PICK x, b, n : x = tab[t] /\ b = V!Bind(x) /\ n = spent.edits + 1
  OBVIOUS
<1>2. x \in TabType /\ TaskFits(x) /\ KeysFit(x) /\ disk \in DiskType /\ b \in Int /\ n \in Nat
  <2>1. x \in TabType /\ TaskFits(x) /\ KeysFit(x) /\ disk \in DiskType
    BY <1>1, TabSound DEF VaultInv
  <2>2. spent.edits \in Nat
    BY DEF VaultInv, WorldTypes, VaultEvents
  <2> QED BY <1>1, <2>1, <2>2, BindTyped
<1>3. PICK r \in LocalNote : r = V!Note(x.local, x.sees, FALSE)
  BY <1>2 DEF TabType, LocalNote, V!Note
<1>4. PICK o \in LocalEdit : o = [id |-> n, form |-> x.local, inst |-> x.sees, vault |-> x.local]
  BY <1>2 DEF TabType, LocalEdit
<1>5. r.form = x.local /\ o.form = x.local
  BY <1>3, <1>4 DEF V!Note
<1>6. disk' = [disk EXCEPT !.queue = @ \cup {o}, !.notes = @ \cup {r}]
  BY <1>1, <1>3, <1>4 DEF V!Edit
<1>7. /\ disk' \in DiskType /\ disk'.late = disk.late /\ disk'.marker = disk.marker
      /\ disk'.notes = disk.notes \cup {r} /\ disk'.queue = disk.queue \cup {o}
      /\ disk'.srv = disk.srv
  BY <1>2, <1>6 DEF DiskType
<1>8. PICK y : y = [x EXCEPT !.bound = b]
  OBVIOUS
<1>9. /\ y \in TabType /\ y.pc = x.pc /\ y.then = x.then /\ y.config = x.config /\ y.got = x.got
      /\ y.key = x.key /\ y.told = x.told
  BY <1>2, <1>8 DEF TabType
<1>10. Sound(y)
  BY <1>2, <1>9 DEF Sound, TaskFits, KeysFit, V!Encrypted
<1>11. tab' = [tab EXCEPT ![t] = y] /\ WorldTypes' /\ V!Unlocked(x)
  BY <1>1, <1>8, WorldKept DEF V!Edit, V!Become, VaultEvents
<1>12. Written(t, x.local)
  BY <1>1, <1>11 DEF Written
<1>13. y.pc \in Converting /\ ~y.told /\ ~disk'.late => disk.marker.value = 1
  <2>1. ~disk.late => ConversionFits(disk, x)
    BY <1>1 DEF VaultInv
  <2>2. disk.marker.value \in 0 .. 2
    BY <1>2 DEF DiskType, MarkerType
  <2>3. disk.marker.value # 2
    BY <1>11 DEF V!Unlocked
  <2> QED BY <1>7, <1>9, <2>1, <2>2, <2>3 DEF ConversionFits
<1> QED BY <1>5, <1>7, <1>10, <1>11, <1>12, <1>13, DataStep

LEMMA InspectStep ==
  ASSUME VaultInv, NEW t \in Tabs, V!Inspect(t)
  PROVE  VaultInv'
<1>1. PICK x, g, m : x = tab[t] /\ g = x.got /\ m = disk.marker
  OBVIOUS
<1>2. /\ x \in TabType /\ TaskFits(x) /\ KeysFit(x) /\ x.pc \in {"inspect", "identify"}
      /\ disk \in DiskType /\ m \in MarkerType
  BY <1>1, TabSound DEF V!Inspect, VaultInv, DiskType
<1>3. g \in Config /\ g # None /\ g.inst \in Nat
  BY <1>1, <1>2 DEF KeysFit, TabType, Config
<1>4. WorldTypes'
  BY WorldKept DEF V!Inspect
<1>5. CASE V!DatasetChanged(x)
  <2>1. PICK b, e : /\ b = V!Bind(x)
                    /\ e = IF x.expected # 0 THEN x.expected ELSE V!Previous
    OBVIOUS
  <2>2. b \in Int /\ e \in Nat
    <3>1. V!Previous \in Nat
      BY <1>2 DEF V!Previous, DiskType
    <3> QED BY <1>2, <2>1, <3>1, BindTyped DEF TabType
  <2>3. PICK w : w = [x EXCEPT !.target = g, !.bound = b, !.expected = e]
    OBVIOUS
  <2>4. w \in TabType
    BY <1>2, <1>3, <2>2, <2>3 DEF TabType
  <2>5. PICK y : y = V!Ended(w)
    OBVIOUS
  <2>6. V!Become(t, y) /\ disk' = disk
    BY <1>1, <1>5, <2>1, <2>3, <2>5 DEF V!Inspect
  <2> QED BY <1>4, <2>4, <2>5, <2>6, EndedSteady, QuietStep
<1>6. CASE ~V!DatasetChanged(x)
  <2>1. PICK w : w = [x EXCEPT !.bound = g.inst, !.expected = g.inst, !.target = None, !.saw = m]
    OBVIOUS
  <2>2. /\ w \in TabType /\ w.pc = x.pc /\ w.then = x.then /\ w.config = x.config /\ w.got = g
        /\ w.key = x.key
    <3>1. PICK n : n = g.inst
      OBVIOUS
    <3>2. n \in Nat /\ n \in Int /\ w = [x EXCEPT !.bound = n, !.expected = n, !.target = None, !.saw = m]
      BY <1>3, <2>1, <3>1
    <3>3. w \in TabType
      BY <1>2, <3>2 DEF TabType
    <3>4. x.got = g
      BY <1>1
    <3> QED BY <1>2, <3>2, <3>3, <3>4 DEF TabType
  <2>3. PICK y : y = IF x.pc = "inspect" THEN V!Bootstrapped(w)
                     ELSE IF x.then = "switch" THEN V!Ended(w) ELSE V!At(w, "serverID")
    OBVIOUS
  <2>4. Steady(y)
    <3>1. CASE x.pc = "inspect"
      <4>1. x.then \in Starts \cup {"peer"}
        BY <1>2, <3>1 DEF TaskFits, Booting
      <4>2. x.then \in {"migrate", "reset"} => x.key # 0
        BY <1>2 DEF KeysFit
      <4> QED BY <1>3, <2>2, <2>3, <3>1, <4>1, <4>2, BootstrappedSteady
    <3>2. CASE x.pc # "inspect" /\ x.then = "switch"
      BY <2>2, <2>3, <3>2, EndedSteady
    <3>3. CASE x.pc # "inspect" /\ x.then # "switch"
      <4>1. Moved(V!At(w, "serverID"), w, "serverID", w.then)
        BY <2>2, AtMoved DEF Steps
      <4>2. x.then \in {"migrate", "reset"} => x.key # 0
        BY <1>2 DEF KeysFit
      <4> QED BY <1>3, <2>2, <2>3, <3>3, <4>1, <4>2, MovedSteady DEF Booting, Unlocking, Converting
    <3> QED BY <3>1, <3>2, <3>3
  <2>5. /\ disk' = [disk EXCEPT !.identity = g.inst,
                                !.initial = IF disk.identity # 0 THEN @ ELSE TRUE,
                                !.origin = IF @ # 0 THEN @ ELSE g.inst]
        /\ tab' = [tab EXCEPT ![t] = y]
    BY <1>1, <1>6, <2>1, <2>3 DEF V!Inspect, V!Become
  <2>6. /\ disk' \in DiskType /\ disk'.late = disk.late /\ disk'.marker = disk.marker
        /\ disk'.notes = disk.notes /\ disk'.queue = disk.queue /\ disk'.srv = disk.srv
    BY <1>2, <1>3, <2>5 DEF DiskType
  <2> QED BY <1>4, <2>4, <2>5, <2>6, DataStep DEF Steady
<1> QED BY <1>5, <1>6

-----------------------------------------------------------------------------
(* Transactions that change the marker, or the form of the records.          *)
LEMMA BoundDisk ==
  ASSUME VaultInv, NEW t \in Tabs, NEW fits, NEW d \in DiskType, NEW x, Sound(x), WorldTypes',
         V!BoundWhen(t, fits, d, x), d.late = disk.late, x.told = tab[t].told,
         fits => MarkerFits(d),
         fits /\ ~disk.late /\ ~x.told =>
           /\ FormsFit(d) /\ ConversionFits(d, x)
           /\ \A u \in Tabs \ {t} : ConversionFits(d, tab[u])
  PROVE  VaultInv'
<1>1. PICK y : /\ Sound(y) /\ tab' = [tab EXCEPT ![t] = y]
               /\ \/ /\ fits /\ y.pc = x.pc /\ y.key = x.key /\ y.told = x.told
                     /\ disk' = [d EXCEPT !.late = @ \/ tab[t].told]
                  \/ disk' = disk /\ Steady(y)
  BY BoundOutcome
<1>2. CASE disk' = disk /\ Steady(y)
  BY <1>1, <1>2, QuietStep DEF V!Become
<1>3. CASE /\ fits /\ y.pc = x.pc /\ y.key = x.key /\ y.told = x.told
           /\ disk' = [d EXCEPT !.late = @ \/ tab[t].told]
  <2>1. PICK told \in BOOLEAN : told = tab[t].told
    BY TabSound DEF TabType
  <2>2. /\ disk' \in DiskType /\ disk'.marker = d.marker /\ disk'.notes = d.notes
        /\ disk'.queue = d.queue /\ disk'.srv = d.srv /\ (disk'.late <=> d.late \/ told)
    BY <1>3, <2>1 DEF DiskType
  <2>3. MarkerFits(disk') <=> MarkerFits(d)
    BY <2>2 DEF MarkerFits
  <2>4. FormsFit(disk') <=> FormsFit(d)
    BY <2>2 DEF FormsFit
  <2>5. \A z : Converted(disk', z) <=> Converted(d, z)
    BY <2>2 DEF Converted, NotesIn, QueueIn, StateIn
  <2>6. \A z : ConversionFits(disk', z) <=> ConversionFits(d, z)
    BY <2>2, <2>5 DEF ConversionFits
  <2>7. ConversionFits(d, y) <=> ConversionFits(d, x)
    BY <1>3 DEF ConversionFits, Converted
  <2> QED BY <1>1, <1>3, <2>1, <2>2, <2>3, <2>4, <2>6, <2>7, DiskStep
<1> QED BY <1>1, <1>2, <1>3

LEMMA StoreFacts ==
  ASSUME VaultInv
  PROVE  /\ disk \in DiskType /\ disk.marker \in MarkerType /\ MarkerFits(disk)
         /\ ~disk.late => FormsFit(disk) /\ \A u \in Tabs : ConversionFits(disk, tab[u])
         /\ \A u \in Tabs : tab[u].pc \in Converting => tab[u].key # 0
BY DEF VaultInv, DiskType, Sound, KeysFit, Unlocking

LEMMA DiscardStep ==
  ASSUME VaultInv, NEW t \in Tabs, V!DiscardVaultLocalData(t)
  PROVE  VaultInv'
<1>0. PICK x : x = [tab[t] EXCEPT !.local = 0]
  OBVIOUS
<1>1. PICK keep : x = [tab[t] EXCEPT !.local = 0] /\ keep = IF x.pc = "discard" THEN x.key ELSE 0
  BY <1>0
<1>2. /\ x \in TabType /\ TaskFits(x) /\ KeysFit(x) /\ x.pc \in {"discard", "resetDiscard"}
      /\ x.told = tab[t].told /\ x.pc = tab[t].pc /\ x.key = tab[t].key
  <2>1. PICK z : z = tab[t]
    OBVIOUS
  <2>2. z \in TabType /\ TaskFits(z) /\ KeysFit(z)
    BY <2>1, TabSound
  <2>3. /\ x \in TabType /\ x.pc = z.pc /\ x.then = z.then /\ x.config = z.config /\ x.got = z.got
        /\ x.key = z.key /\ x.told = z.told
    BY <1>1, <2>1, <2>2, ZeroVault DEF TabType
  <2>4. z.pc \in {"discard", "resetDiscard"}
    BY <2>1, <2>3, <1>1 DEF V!DiscardVaultLocalData
  <2> QED BY <2>1, <2>2, <2>3, <2>4 DEF TaskFits, KeysFit, V!Encrypted
<1>3. PICK b, w, m : b = V!Keeps(disk.boot, keep) /\ w = V!Keeps(disk.wraps, keep) /\ m = V!Marker(2, 0)
  OBVIOUS
<1>4. b \in Config \cup {None} /\ w \in Wraps \cup {None} /\ m \in MarkerType /\ m.value = 2
      /\ m = V!Marker(2, 0)
  <2>1. m \in MarkerType /\ m.value = 2
    <3>1. 2 \in 0 .. 2 /\ m.value = 2
      BY <1>3 DEF V!Marker
    <3> QED BY <1>3, <3>1, ZeroVault, MarkerTyped
  <2> QED BY <1>3, <2>1, StoreFacts DEF V!Keeps, DiskType
<1>5. PICK d : d = [V!Empty(disk) EXCEPT !.marker = m, !.boot = b, !.wraps = w]
  OBVIOUS
<1>6. /\ d \in DiskType /\ d.late = disk.late /\ d.marker = m /\ d.notes = {} /\ d.queue = {}
      /\ d.srv.value = 0
  <2>1. PICK e : e = V!Empty(disk)
    OBVIOUS
  <2>2. e \in DiskType /\ e.late = disk.late /\ e.notes = {} /\ e.queue = {} /\ e.srv.value = 0
    BY <2>1, StoreFacts, ZeroVault DEF DiskType, V!Empty
  <2>3. d = [e EXCEPT !.marker = m, !.boot = b, !.wraps = w]
    BY <1>5, <2>1
  <2> QED BY <1>4, <2>2, <2>3 DEF DiskType
<1>7. PICK pc : pc = IF x.pc = "discard" THEN "mark" ELSE "bootFetch"
  OBVIOUS
<1>8. PICK y : y = V!At(x, pc)
  OBVIOUS
<1>9. Moved(y, x, pc, x.then)
  BY <1>2, <1>7, <1>8, AtMoved DEF Steps, Booting, Unlocking
<1>10. /\ x.pc = "discard" => x.then \in {"migrate", "reset", "start", "signIn"} /\ x.key # 0
       /\ x.pc = "resetDiscard" => x.then = "reset" /\ x.key # 0
  BY <1>2 DEF TaskFits, KeysFit, Unlocking
<1>11. Steady(y) /\ y.told = x.told
  BY <1>2, <1>7, <1>9, <1>10, MovedSteady DEF Booting, Starts, Unlocking, Converting
<1>12. V!BoundWhen(t, TRUE, d, y) /\ WorldTypes'
  <2>1. [V!Empty(disk) EXCEPT !.marker = V!Marker(2, 0), !.boot = V!Keeps(@, keep),
                              !.wraps = V!Keeps(@, keep)] = d
    <3>1. V!Empty(disk).boot = disk.boot /\ V!Empty(disk).wraps = disk.wraps
      BY StoreFacts DEF V!Empty, DiskType
    <3> QED BY <1>3, <1>5, <3>1
  <2>2. V!BoundWhen(t, TRUE,
          [V!Empty(disk) EXCEPT !.marker = V!Marker(2, 0), !.boot = V!Keeps(@, keep),
                                !.wraps = V!Keeps(@, keep)], y)
    <3> DEFINE X == [tab[t] EXCEPT !.local = 0]
               K == IF X.pc = "discard" THEN X.key ELSE 0
    <3>1. V!BoundWhen(t, TRUE,
            [V!Empty(disk) EXCEPT !.marker = V!Marker(2, 0), !.boot = V!Keeps(@, K),
                                  !.wraps = V!Keeps(@, K)],
            V!At(X, IF X.pc = "discard" THEN "mark" ELSE "bootFetch"))
      BY DEF V!DiscardVaultLocalData
    <3>2. X = x /\ K = keep
      BY <1>1
    <3> HIDE DEF X, K
    <3> QED BY <1>7, <1>8, <3>1, <3>2
  <2> QED BY <2>1, <2>2, WorldKept DEF V!DiscardVaultLocalData
<1>13. MarkerFits(d)
  BY <1>4, <1>6 DEF MarkerFits
<1>14. FormsFit(d)
  BY <1>6 DEF FormsFit
<1>15. ASSUME NEW u \in Tabs PROVE ConversionFits(d, tab[u])
  <2>1. tab[u].pc \in Converting => V!Marker(2, tab[u].key) # V!Marker(2, 0)
    BY StoreFacts DEF V!Marker
  <2> QED BY <1>4, <1>6, <2>1 DEF ConversionFits
<1>16. ConversionFits(d, y) /\ Sound(y)
  BY <1>11 DEF Steady, ConversionFits
<1> QED BY <1>2, <1>6, <1>11, <1>12, <1>13, <1>14, <1>15, <1>16, BoundDisk

LEMMA MarkersDiffer ==
  \A k \in 0 .. 2 : \A v : V!Marker(k, v).value = k /\ V!Marker(k, v).vault = v
BY DEF V!Marker

LEMMA MarkConversionStep ==
  ASSUME VaultInv, NEW t \in Tabs, V!MarkConversion(t)
  PROVE  VaultInv'
<1>1. PICK x, k, q : x = tab[t] /\ k = x.key /\ q = disk.marker
  OBVIOUS
<1>2. x \in TabType /\ TaskFits(x) /\ KeysFit(x) /\ x.pc = "mark"
  BY <1>1, TabSound DEF V!MarkConversion
<1>3. k # 0 /\ k \in VaultNumbers /\ x.then \in {"migrate", "reset", "start", "signIn"}
  BY <1>1, <1>2 DEF TaskFits, KeysFit, Unlocking, TabType
<1>4. PICK one, two : one = V!Marker(1, k) /\ two = V!Marker(2, k)
  OBVIOUS
<1>5. two \in MarkerType /\ two.value = 2 /\ two.vault = k /\ one.value = 1 /\ two # V!Marker(2, 0)
  <2>1. 1 \in 0 .. 2 /\ 2 \in 0 .. 2
    OBVIOUS
  <2> QED BY <1>3, <1>4, <2>1, MarkersDiffer, MarkerTyped
<1>6. PICK d : d = IF q = one THEN disk ELSE [disk EXCEPT !.marker = two]
  OBVIOUS
<1>7. /\ d \in DiskType /\ d.late = disk.late /\ d.notes = disk.notes /\ d.queue = disk.queue
      /\ d.srv = disk.srv /\ d.marker = IF q = one THEN q ELSE two
  BY <1>1, <1>5, <1>6, StoreFacts DEF DiskType
<1>8. PICK y : y = V!At(x, IF q = one THEN "unlocked" ELSE "convertNotes")
  OBVIOUS
<1>9. Moved(y, x, IF q = one THEN "unlocked" ELSE "convertNotes", x.then)
  <2>1. "unlocked" \in Steps /\ "convertNotes" \in Steps
    BY DEF Steps, Unlocking, Converting
  <2> QED BY <1>2, <1>8, <2>1, AtMoved
<1>10. Sound(y) /\ y.told = x.told
  <2>1. /\ y.then = x.then /\ y.key = k /\ y.pc \in {"unlocked", "convertNotes"} /\ y \in TabType
        /\ y.told = x.told
    BY <1>1, <1>9 DEF Moved
  <2> QED BY <1>3, <2>1 DEF Sound, TaskFits, KeysFit, Booting, Unlocking, Converting
<1>11. PICK fits : fits = (q = one \/ q.value = 0 \/ q \in {V!Marker(2, 0), two})
  OBVIOUS
<1>12. V!BoundWhen(t, fits, d, y) /\ WorldTypes'
  BY <1>1, <1>4, <1>6, <1>8, <1>11, WorldKept DEF V!MarkConversion, V!Marked
<1>13. fits => MarkerFits(d)
  BY <1>1, <1>5, <1>7, StoreFacts DEF MarkerFits
<1>14. ASSUME fits, ~disk.late PROVE FormsFit(d)
  <2>1. FormsFit(disk)
    BY <1>14, StoreFacts
  <2>2. CASE q = one
    BY <1>6, <2>1, <2>2
  <2>3. CASE q # one /\ q = V!Marker(2, 0)
    <3>1. d.notes = {} /\ d.queue = {} /\ d.srv.value = 0
      BY <1>1, <1>7, <2>3, StoreFacts DEF MarkerFits
    <3> QED BY <3>1 DEF FormsFit
  <2>4. CASE q # one /\ (q.value = 0 \/ q = two)
    BY <1>1, <1>5, <1>7, <2>1, <2>4 DEF FormsFit
  <2> QED BY <1>11, <1>14, <2>2, <2>3, <2>4
<1>15. ASSUME fits, ~disk.late, NEW u \in Tabs \ {t} PROVE ConversionFits(d, tab[u])
  <2>0. PICK w : w = tab[u]
    OBVIOUS
  <2>1. ConversionFits(disk, w)
    BY <1>15, <2>0, StoreFacts
  <2>2. CASE q = one
    BY <1>6, <2>0, <2>1, <2>2
  <2>3. CASE q # one /\ q = V!Marker(2, 0)
    <3>1. d.notes = {} /\ d.queue = {} /\ d.srv.value = 0
      BY <1>1, <1>7, <2>3, StoreFacts DEF MarkerFits
    <3>2. Converted(d, w)
      BY <3>1 DEF Converted, NotesIn, QueueIn, StateIn
    <3> QED BY <1>5, <1>7, <2>0, <2>3, <3>2 DEF ConversionFits
  <2>4. CASE q # one /\ q.value = 0
    <3>1. w.pc \in Converting => w.told
      BY <1>1, <2>1, <2>4 DEF ConversionFits
    <3> QED BY <2>0, <3>1 DEF ConversionFits
  <2>5. CASE q # one /\ q = two
    <3>1. d.marker = disk.marker
      BY <1>1, <1>7, <2>5
    <3>2. Converted(disk, w) => Converted(d, w)
      BY <1>7 DEF Converted, NotesIn, QueueIn, StateIn
    <3> QED BY <2>0, <2>1, <3>1, <3>2 DEF ConversionFits
  <2> QED BY <1>11, <1>15, <2>2, <2>3, <2>4, <2>5
<1>16. ConversionFits(d, y)
  <2>1. CASE q = one
    BY <1>9, <2>1 DEF Moved, ConversionFits, Converting
  <2>2. CASE q # one
    BY <1>5, <1>7, <1>9, <2>2 DEF Moved, ConversionFits, Converted
  <2> QED BY <2>1, <2>2
<1> QED BY <1>1, <1>7, <1>10, <1>12, <1>13, <1>14, <1>15, <1>16, BoundDisk

LEMMA EncryptTyped ==
  ASSUME NEW key \in VaultNumbers
  PROVE  /\ \A r \in LocalNote : V!Encrypt(r, key) \in LocalNote
         /\ \A o \in LocalEdit : V!Encrypt(o, key) \in LocalEdit
         /\ \A s \in [value : Nat, form : VaultNumbers] :
              /\ V!Encrypt(s, key) \in [value : Nat, form : VaultNumbers]
              /\ V!Encrypt(s, key).value = s.value
         /\ \A r \in LocalNote \cup LocalEdit \cup [value : Nat, form : VaultNumbers] :
              r.form \in {0, key} => V!Encrypt(r, key).form = key
<1>1. \A r \in LocalNote : /\ V!Encrypt(r, key) \in LocalNote
                           /\ r.form \in {0, key} => V!Encrypt(r, key).form = key
  BY DEF V!Encrypt, LocalNote
<1>2. \A r \in LocalEdit : /\ V!Encrypt(r, key) \in LocalEdit
                           /\ r.form \in {0, key} => V!Encrypt(r, key).form = key
  BY DEF V!Encrypt, LocalEdit
<1>3. \A r \in [value : Nat, form : VaultNumbers] :
        /\ V!Encrypt(r, key) \in [value : Nat, form : VaultNumbers]
        /\ V!Encrypt(r, key).value = r.value
        /\ r.form \in {0, key} => V!Encrypt(r, key).form = key
  BY DEF V!Encrypt
<1> QED BY <1>1, <1>2, <1>3

(* One transaction of a conversion of the local records to key, on a store   *)
(* marked for it.                                                            *)
ConvertedBy(d, pc, key) ==
  CASE pc = "convertNotes" -> [d EXCEPT !.notes = {V!Encrypt(r, key) : r \in @}]
    [] pc = "convertQueue" -> [d EXCEPT !.queue = {V!Encrypt(r, key) : r \in @}]
    [] pc = "convertState" -> [d EXCEPT !.srv = V!Encrypt(@, key)]
    [] pc = "converted" -> [d EXCEPT !.marker = V!Marker(1, key)]

PhaseAfter(pc) ==
  CASE pc = "convertNotes" -> "convertQueue"
    [] pc = "convertQueue" -> "convertState"
    [] pc = "convertState" -> "converted"
    [] pc = "converted" -> "unlocked"

(* What that transaction leaves, for tab x that makes it, and for another w. *)
Converts(d, e, x) ==
  /\ e \in DiskType /\ e.late = d.late /\ MarkerFits(e)
  /\ e.marker.value # 0
  /\ FormsFit(d) /\ Converted(d, x) => FormsFit(e)
  /\ \A w : e.marker = V!Marker(2, w.key) /\ (d.marker = V!Marker(2, w.key) => Converted(d, w)) =>
       Converted(e, w)
  /\ \A y : /\ FormsFit(d) /\ Converted(d, x) /\ y.pc = PhaseAfter(x.pc) /\ y.key = x.key
            /\ e.marker = V!Marker(2, y.key)
            => Converted(e, y)

LEMMA FormsBetween ==
  ASSUME NEW d \in DiskType, NEW key, d.marker = V!Marker(2, key), FormsFit(d)
  PROVE  /\ \A r \in d.notes : r.form \in {0, key}
         /\ \A o \in d.queue : o.form \in {0, key}
         /\ d.srv.value # 0 => d.srv.form \in {0, key}
<1>1. /\ \A r \in d.notes : r.form \in VaultNumbers
      /\ \A o \in d.queue : o.form \in VaultNumbers
      /\ d.srv.form \in VaultNumbers
  BY DEF DiskType, LocalNote, LocalEdit
<1>2. d.marker.value = 2 /\ d.marker.vault = key
  BY DEF V!Marker
<1> QED BY <1>1, <1>2 DEF FormsFit

LEMMA ConvertsStores ==
  ASSUME NEW d \in DiskType, NEW x, NEW key \in VaultNumbers \ {0}, x.key = key,
         x.pc \in {"convertNotes", "convertQueue", "convertState"}, d.marker = V!Marker(2, key),
         NEW e, e = ConvertedBy(d, x.pc, key)
  PROVE  Converts(d, e, x)
<1>1. PICK ns, qs, s : /\ ns = {V!Encrypt(r, key) : r \in d.notes}
                       /\ qs = {V!Encrypt(r, key) : r \in d.queue}
                       /\ s = V!Encrypt(d.srv, key)
  OBVIOUS
<1>2. ns \in SUBSET LocalNote /\ qs \in SUBSET LocalEdit /\ s \in [value : Nat, form : VaultNumbers]
      /\ s.value = d.srv.value
  <2>1. d.notes \subseteq LocalNote /\ d.queue \subseteq LocalEdit
        /\ d.srv \in [value : Nat, form : VaultNumbers]
    BY DEF DiskType
  <2> QED BY <1>1, <2>1, EncryptTyped
<1>3. /\ x.pc = "convertNotes" => e = [d EXCEPT !.notes = ns]
      /\ x.pc = "convertQueue" => e = [d EXCEPT !.queue = qs]
      /\ x.pc = "convertState" => e = [d EXCEPT !.srv = s]
  BY <1>1 DEF ConvertedBy
<1>4. /\ e \in DiskType /\ e.late = d.late /\ e.marker = d.marker
      /\ e.notes = IF x.pc = "convertNotes" THEN ns ELSE d.notes
      /\ e.queue = IF x.pc = "convertQueue" THEN qs ELSE d.queue
      /\ e.srv = IF x.pc = "convertState" THEN s ELSE d.srv
  BY <1>2, <1>3 DEF DiskType
<1>5. e.marker.value = 2 /\ e.marker.vault = key /\ e.marker # V!Marker(2, 0)
  BY <1>4, MarkersDiffer
<1>6. ASSUME FormsFit(d)
      PROVE  /\ \A r \in ns : r.form = key
             /\ \A o \in qs : o.form = key
             /\ s.value # 0 => s.form = key
  <2>1. d.notes \subseteq LocalNote /\ d.queue \subseteq LocalEdit
        /\ d.srv \in [value : Nat, form : VaultNumbers]
    BY DEF DiskType
  <2>2. /\ \A r \in d.notes : V!Encrypt(r, key).form = key
        /\ \A o \in d.queue : V!Encrypt(o, key).form = key
        /\ d.srv.value # 0 => s.form = key
    BY <1>1, <1>6, <2>1, FormsBetween, EncryptTyped
  <2> QED BY <1>1, <1>2, <2>2
<1>7. FormsFit(d) => FormsFit(e)
  <2> SUFFICES ASSUME FormsFit(d) PROVE FormsFit(e)
    OBVIOUS
  <2>1. /\ \A r \in e.notes : r.form \in {0, key}
        /\ \A o \in e.queue : o.form \in {0, key}
        /\ e.srv.value # 0 => e.srv.form \in {0, key}
    BY <1>4, <1>6, FormsBetween
  <2> QED BY <1>5, <2>1 DEF FormsFit
<1>8. MarkerFits(e)
  BY <1>5 DEF MarkerFits
<1>9. ASSUME NEW w, e.marker = V!Marker(2, w.key), d.marker = V!Marker(2, w.key) => Converted(d, w)
      PROVE  Converted(e, w)
  <2>1. w.key = key /\ Converted(d, w)
    BY <1>4, <1>9, MarkersDiffer
  <2>2. NotesIn(d, key) => NotesIn(e, key)
    <3>1. NotesIn(d, key) => \A r \in ns : r.form = key
      BY <1>1, EncryptTyped DEF NotesIn, DiskType
    <3> QED BY <1>4, <3>1 DEF NotesIn
  <2>3. QueueIn(d, key) => QueueIn(e, key)
    <3>1. QueueIn(d, key) => \A o \in qs : o.form = key
      BY <1>1, EncryptTyped DEF QueueIn, DiskType
    <3> QED BY <1>4, <3>1 DEF QueueIn
  <2>4. StateIn(d, key) => StateIn(e, key)
    <3>1. StateIn(d, key) /\ s.value # 0 => s.form = key
      BY <1>1, <1>2, EncryptTyped DEF StateIn, DiskType
    <3> QED BY <1>4, <3>1 DEF StateIn
  <2> QED BY <2>1, <2>2, <2>3, <2>4 DEF Converted
<1>10. ASSUME NEW y, FormsFit(d), Converted(d, x), y.pc = PhaseAfter(x.pc), y.key = x.key
       PROVE  Converted(e, y)
  <2>1. /\ x.pc = "convertNotes" => y.pc = "convertQueue" /\ NotesIn(e, key)
        /\ x.pc = "convertQueue" => y.pc = "convertState" /\ QueueIn(e, key)
        /\ x.pc = "convertState" => y.pc = "converted" /\ StateIn(e, key)
    BY <1>4, <1>6, <1>10 DEF PhaseAfter, NotesIn, QueueIn, StateIn
  <2>2. /\ x.pc \in {"convertQueue", "convertState"} => NotesIn(e, key)
        /\ x.pc = "convertState" => QueueIn(e, key)
    BY <1>4, <1>10 DEF Converted, NotesIn, QueueIn
  <2>3. y.key = key
    BY <1>10
  <2> QED BY <2>1, <2>2, <2>3 DEF Converted
<1> QED BY <1>4, <1>5, <1>7, <1>8, <1>9, <1>10 DEF Converts

LEMMA ConvertsMarker ==
  ASSUME NEW d \in DiskType, NEW x, NEW key \in VaultNumbers \ {0}, x.key = key,
         x.pc = "converted", d.marker = V!Marker(2, key),
         NEW e, e = ConvertedBy(d, x.pc, key)
  PROVE  Converts(d, e, x)
<1>1. PICK m : m = V!Marker(1, key)
  OBVIOUS
<1>2. m \in MarkerType /\ m.value = 1 /\ m.vault = key
  <2>1. 1 \in 0 .. 2
    OBVIOUS
  <2> QED BY <1>1, <2>1, MarkerTyped, MarkersDiffer
<1>3. e = [d EXCEPT !.marker = m]
  BY <1>1 DEF ConvertedBy
<1>4. /\ e \in DiskType /\ e.late = d.late /\ e.marker = m
      /\ e.notes = d.notes /\ e.queue = d.queue /\ e.srv = d.srv
  BY <1>2, <1>3 DEF DiskType
<1>5. \A k : m # V!Marker(2, k)
  BY <1>2, MarkersDiffer
<1>6. MarkerFits(e)
  BY <1>2, <1>4, <1>5 DEF MarkerFits
<1>7. FormsFit(d) /\ Converted(d, x) => FormsFit(e)
  BY <1>2, <1>4 DEF Converted, NotesIn, QueueIn, StateIn, FormsFit
<1> QED BY <1>2, <1>4, <1>5, <1>6, <1>7 DEF Converts

LEMMA ConvertStep ==
  ASSUME VaultInv, NEW t \in Tabs, V!Convert(t)
  PROVE  VaultInv'
<1>1. PICK x, k, q, c : x = tab[t] /\ k = x.key /\ q = disk.marker /\ c = disk
  OBVIOUS
<1>2. /\ x \in TabType /\ TaskFits(x) /\ KeysFit(x) /\ x.pc \in Converting
  BY <1>1, TabSound DEF V!Convert, Converting
<1>3. k # 0 /\ k \in VaultNumbers /\ x.then \in {"migrate", "reset", "start", "signIn"}
  BY <1>1, <1>2 DEF TaskFits, KeysFit, Unlocking, TabType
<1>4. PICK one, two : one = V!Marker(1, k) /\ two = V!Marker(2, k)
  OBVIOUS
<1>5. PICK e, d : /\ e = ConvertedBy(c, x.pc, k)
                  /\ d = IF q = one THEN c ELSE e
  <2>1. PICK e : e = ConvertedBy(c, x.pc, k)
    OBVIOUS
  <2> QED BY <2>1
<1>6. PICK y : y = V!At(x, PhaseAfter(x.pc))
  OBVIOUS
<1>7. Moved(y, x, PhaseAfter(x.pc), x.then)
  <2>1. PhaseAfter(x.pc) \in Steps
    BY <1>2 DEF PhaseAfter, Converting, Steps, Unlocking
  <2> QED BY <1>2, <1>6, <2>1, AtMoved
<1>8. Sound(y) /\ y.told = x.told /\ y.pc = PhaseAfter(x.pc) /\ y.key = k
  <2>1. /\ y.then = x.then /\ y.key = k /\ y.pc \in {"convertQueue", "convertState", "converted", "unlocked"}
        /\ y \in TabType /\ y.told = x.told /\ y.pc = PhaseAfter(x.pc)
    BY <1>1, <1>2, <1>7 DEF Moved, PhaseAfter, Converting
  <2> QED BY <1>3, <2>1 DEF Sound, TaskFits, KeysFit, Booting, Unlocking, Converting
<1>9. PICK fits : fits = (q = one \/ q = two)
  OBVIOUS
<1>10. q = two => Converts(c, e, x)
  <2>1. c \in DiskType /\ k \in VaultNumbers \ {0}
    BY <1>1, <1>3, StoreFacts
  <2>2. x.pc = "converted" \/ x.pc \in {"convertNotes", "convertQueue", "convertState"}
    BY <1>2 DEF Converting
  <2> QED BY <1>1, <1>4, <1>5, <2>1, <2>2, ConvertsMarker, ConvertsStores
<1>11. V!BoundWhen(t, q = one \/ q = two, IF q = one THEN c ELSE ConvertedBy(c, x.pc, k),
                   V!At(x, PhaseAfter(x.pc)))
       /\ WorldTypes'
  <2> DEFINE next == [convertNotes |-> "convertQueue", convertQueue |-> "convertState",
                      convertState |-> "converted", converted |-> "unlocked"]
  <2>1. next[x.pc] = PhaseAfter(x.pc)
    BY <1>2 DEF PhaseAfter, Converting
  <2> HIDE DEF next
  <2>2. V!BoundWhen(t, V!Marked(x.key) \/ disk.marker = V!Marker(2, x.key),
           IF V!Marked(x.key) THEN disk ELSE ConvertedBy(disk, x.pc, x.key), V!At(x, next[x.pc]))
    BY <1>1 DEF V!Convert, ConvertedBy, next
  <2>3. V!Marked(x.key) <=> q = one
    BY <1>1, <1>4 DEF V!Marked
  <2>4. WorldTypes'
    BY WorldKept DEF V!Convert
  <2> QED BY <1>1, <1>4, <2>1, <2>2, <2>3, <2>4
<1>12. V!BoundWhen(t, fits, d, y)
  BY <1>5, <1>6, <1>9, <1>11
<1>13. fits /\ q # one => Converts(c, d, x)
  BY <1>5, <1>9, <1>10
<1>14. CASE fits /\ q # one
  <2>1. /\ d \in DiskType /\ d.late = c.late /\ MarkerFits(d) /\ d.marker.value # 0
        /\ FormsFit(c) /\ Converted(c, x) => FormsFit(d)
    BY <1>13, <1>14 DEF Converts
  <2>2. ~disk.late => FormsFit(c) /\ \A u \in Tabs : ConversionFits(c, tab[u])
    BY <1>1, StoreFacts
  <2>3. ASSUME ~disk.late, ~x.told PROVE FormsFit(d) /\ ConversionFits(d, y)
    <3>1. Converted(c, x)
      BY <1>1, <1>2, <1>4, <1>9, <1>14, <2>2, <2>3 DEF ConversionFits
    <3>2. d.marker = V!Marker(2, y.key) => Converted(d, y)
      BY <1>1, <1>8, <1>13, <1>14, <2>2, <2>3, <3>1 DEF Converts
    <3> QED BY <2>1, <2>2, <2>3, <3>1, <3>2 DEF ConversionFits
  <2>4. ASSUME ~disk.late, NEW u \in Tabs \ {t} PROVE ConversionFits(d, tab[u])
    <3>1. PICK w : w = tab[u]
      OBVIOUS
    <3>2. ConversionFits(c, w)
      BY <2>2, <2>4, <3>1
    <3>3. w.pc \in Converting /\ ~w.told /\ d.marker = V!Marker(2, w.key) => Converted(d, w)
      BY <1>13, <1>14, <3>2 DEF Converts, ConversionFits
    <3> QED BY <2>1, <3>1, <3>3 DEF ConversionFits
  <2> QED BY <1>1, <1>8, <1>11, <1>12, <2>1, <2>3, <2>4, BoundDisk
<1>15. CASE ~(fits /\ q # one)
  <2>1. V!BoundWhen(t, fits, c, y)
    BY <1>5, <1>12, <1>15 DEF V!BoundWhen
  <2>2. c \in DiskType /\ MarkerFits(c)
    BY <1>1, StoreFacts
  <2>3. ~disk.late => FormsFit(c) /\ \A u \in Tabs : ConversionFits(c, tab[u])
    BY <1>1, StoreFacts
  <2>4. fits => ConversionFits(c, y)
    <3>1. q.value = 1 => \A key : q # V!Marker(2, key)
      BY MarkersDiffer
    <3>2. one.value = 1
      BY <1>4, MarkersDiffer
    <3> QED BY <1>1, <1>15, <3>1, <3>2 DEF ConversionFits
  <2> QED BY <1>1, <1>8, <1>11, <2>1, <2>2, <2>3, <2>4, BoundDisk
<1> QED BY <1>14, <1>15

LEMMA SwitchDatasetStep ==
  ASSUME VaultInv, NEW t \in Tabs, V!SwitchDataset(t)
  PROVE  VaultInv'
<1>1. PICK x, g, f : x = tab[t] /\ g = x.got /\ f = V!Fresh
  OBVIOUS
<1>2. /\ x \in TabType /\ KeysFit(x) /\ x.pc = "switch" /\ disk \in DiskType
      /\ tab \in [Tabs -> TabType]
  BY <1>1, TabSound DEF V!SwitchDataset, VaultInv
<1>3. g \in Config /\ g.inst \in Nat
  BY <1>1, <1>2 DEF KeysFit, TabType, Config
<1>4. WorldTypes'
  BY WorldKept DEF V!SwitchDataset
<1>5. CASE V!Become(t, V!Ended(x)) /\ UNCHANGED disk
  BY <1>2, <1>4, <1>5, EndedSteady, QuietStep
<1>6. CASE /\ \/ disk' = disk
              \/ disk' = [V!Empty(disk) EXCEPT
                    !.identity = x.got.inst, !.initial = FALSE, !.origin = x.got.inst,
                    !.srv = [value |-> x.got.inst, form |-> 0], !.marker = V!Marker(0, 0),
                    !.boot = x.got, !.wraps = None, !.late = @ \/ x.told]
           /\ tab' = [u \in Tabs |-> IF u = t THEN V!Fresh ELSE [tab[u] EXCEPT !.told = TRUE]]
  <2>1. ASSUME NEW u \in Tabs \ {t}
        PROVE  tab'[u] \in TabType /\ Sound(tab'[u]) /\ tab'[u].told
    <3>1. PICK w : w = tab[u]
      OBVIOUS
    <3>2. w \in TabType /\ TaskFits(w) /\ KeysFit(w)
      BY <3>1, TabSound
    <3>3. PICK z : z = [w EXCEPT !.told = TRUE]
      OBVIOUS
    <3>4. /\ z \in TabType /\ z.pc = w.pc /\ z.then = w.then /\ z.config = w.config /\ z.got = w.got
          /\ z.key = w.key /\ z.told
      BY <3>2, <3>3 DEF TabType
    <3>5. Sound(z)
      BY <3>2, <3>4 DEF Sound, TaskFits, KeysFit, V!Encrypted
    <3>6. tab'[u] = z
      BY <1>6, <3>1, <3>3
    <3> QED BY <3>4, <3>5, <3>6
  <2>2. tab'[t] = f /\ Sound(f) /\ f.pc \notin Converting /\ f \in TabType
    BY <1>1, <1>6, FreshSteady DEF Steady, Sound
  <2>3. tab' \in [Tabs -> TabType] /\ \A u \in Tabs : Sound(tab'[u])
    <3>1. \A u \in Tabs : tab'[u] \in TabType /\ Sound(tab'[u])
      BY <2>1, <2>2
    <3>2. tab' = [u \in Tabs |-> tab'[u]]
      BY <1>6
    <3> QED BY <3>1, <3>2
  <2>4. \A u \in Tabs : ConversionFits(disk', tab'[u])
    BY <2>1, <2>2 DEF ConversionFits
  <2>5. /\ disk' \in DiskType /\ MarkerFits(disk')
        /\ ~disk'.late => FormsFit(disk')
    <3>1. CASE disk' = disk
      BY <1>2, <3>1, StoreFacts
    <3>2. CASE disk' # disk
      <4>1. PICK e, m, s, n, told : /\ e = V!Empty(disk) /\ m = V!Marker(0, 0)
                                    /\ s = [value |-> x.got.inst, form |-> 0] /\ n = x.got.inst
                                    /\ told = x.told
        OBVIOUS
      <4>2. e \in DiskType /\ e.notes = {} /\ e.queue = {}
        BY <1>2, <4>1, ZeroVault DEF V!Empty, DiskType
      <4>3. m \in MarkerType /\ m.value = 0 /\ m # V!Marker(2, 0)
        <5>1. 0 \in 0 .. 2 /\ 2 \in 0 .. 2
          OBVIOUS
        <5> QED BY <4>1, <5>1, ZeroVault, MarkerTyped, MarkersDiffer
      <4>4. s \in [value : Nat, form : VaultNumbers] /\ s.form = 0 /\ n \in Nat /\ told \in BOOLEAN
        BY <1>1, <1>2, <1>3, <4>1, ZeroVault DEF TabType
      <4>5. disk' = [e EXCEPT !.identity = n, !.initial = FALSE, !.origin = n, !.srv = s,
                              !.marker = m, !.boot = g, !.wraps = None, !.late = @ \/ told]
        BY <1>1, <1>6, <3>2, <4>1
      <4>6. /\ disk' \in DiskType /\ disk'.marker = m /\ disk'.notes = {} /\ disk'.queue = {}
            /\ disk'.srv = s
        BY <1>3, <4>2, <4>3, <4>4, <4>5 DEF DiskType
      <4>7. MarkerFits(disk')
        BY <4>3, <4>6 DEF MarkerFits
      <4>8. FormsFit(disk')
        BY <4>3, <4>4, <4>6 DEF FormsFit
      <4> QED BY <4>6, <4>7, <4>8
    <3> QED BY <3>1, <3>2
  <2> QED BY <1>4, <2>3, <2>4, <2>5 DEF VaultInv
<1>7. \/ V!Become(t, V!Ended(x)) /\ UNCHANGED disk
      \/ /\ \/ disk' = disk
            \/ disk' = [V!Empty(disk) EXCEPT
                    !.identity = x.got.inst, !.initial = FALSE, !.origin = x.got.inst,
                    !.srv = [value |-> x.got.inst, form |-> 0], !.marker = V!Marker(0, 0),
                    !.boot = x.got, !.wraps = None, !.late = @ \/ x.told]
         /\ tab' = [u \in Tabs |-> IF u = t THEN V!Fresh ELSE [tab[u] EXCEPT !.told = TRUE]]
  BY <1>1 DEF V!SwitchDataset
<1> QED BY <1>5, <1>6, <1>7

-----------------------------------------------------------------------------
LEMMA VaultStart == V!Init => VaultInv
<1> SUFFICES ASSUME V!Init PROVE VaultInv
  OBVIOUS
<1>0. MaxVaults \in Nat /\ 2 \in VaultNumbers /\ 1 \in VaultNumbers /\ 0 \in VaultNumbers
  BY VaultAssumption DEF VaultNumbers
<1>1. PICK none, one : none = V!Marker(0, 0) /\ one = V!Marker(1, 1)
  OBVIOUS
<1>2. none \in MarkerType /\ one \in MarkerType /\ none.value = 0 /\ one.value = 1 /\ one.vault = 1
      /\ none # V!Marker(2, 0) /\ one # V!Marker(2, 0)
  <2>1. 0 \in 0 .. 2 /\ 1 \in 0 .. 2 /\ 2 \in 0 .. 2
    OBVIOUS
  <2> QED BY <1>0, <1>1, <2>1, MarkerTyped, MarkersDiffer
<1>3. /\ V!Legacy \in DatabaseType
      /\ V!EncryptedWith(1) \in DatabaseType /\ V!EncryptedWith(2) \in DatabaseType
  BY <1>0 DEF V!Legacy, V!EncryptedWith, DatabaseType, Modes
<1>4. server \in [V!Databases -> DatabaseType]
  <2>1. PICK first \in {V!Legacy, V!EncryptedWith(1)}, second \in {V!Legacy, V!EncryptedWith(2)} :
          server = <<first, second>>
    BY DEF V!Init
  <2>2. first \in DatabaseType /\ second \in DatabaseType
    BY <1>3
  <2> QED BY <2>1, <2>2 DEF V!Databases
<1>5. net \in [live : V!Databases, cookie : V!Databases \cup {0}]
  BY DEF V!Init, V!Databases
<1>6. spent \in [VaultEvents -> Nat]
  <2>1. DOMAIN VaultBudget \ {"all"} = VaultEvents
    BY DEF VaultBudget, VaultEvents
  <2>2. spent = [b \in DOMAIN VaultBudget \ {"all"} |-> 0]
    BY DEF V!Init
  <2> QED BY <2>1, <2>2
<1>7. tab \in [Tabs -> TabType] /\ \A t \in Tabs : Sound(tab[t]) /\ tab[t].pc \notin Converting
  BY FreshSteady DEF V!Init, Steady, Sound
<1>8. V!NoData \in DiskType /\ MarkerFits(V!NoData) /\ FormsFit(V!NoData)
  <2>1. PICK d : d = V!NoData
    OBVIOUS
  <2>2. /\ d \in DiskType /\ d.marker = none /\ d.notes = {} /\ d.queue = {} /\ d.srv.value = 0
    BY <1>0, <1>1, <1>2, <2>1 DEF V!NoData, DiskType
  <2>3. MarkerFits(d) /\ FormsFit(d)
    BY <1>2, <2>2 DEF MarkerFits, FormsFit
  <2> QED BY <2>1, <2>2, <2>3
<1>9. V!LegacyData \in DiskType /\ MarkerFits(V!LegacyData) /\ FormsFit(V!LegacyData)
  <2>1. PICK d, n : d = V!NoData /\ n = V!Note(0, 1, FALSE)
    OBVIOUS
  <2>2. d \in DiskType /\ d.marker = none /\ d.queue = {} /\ n \in LocalNote /\ n.form = 0
    BY <1>0, <1>1, <1>8, <2>1 DEF V!NoData, LocalNote, V!Note
  <2>3. PICK e : e = [d EXCEPT !.origin = 1, !.srv = [value |-> 1, form |-> 0], !.notes = {n}]
    OBVIOUS
  <2>4. /\ e \in DiskType /\ e.marker = none /\ e.notes = {n} /\ e.queue = {} /\ e.srv.form = 0
    BY <1>0, <2>2, <2>3 DEF DiskType
  <2>5. MarkerFits(e) /\ FormsFit(e)
    BY <1>2, <2>2, <2>4 DEF MarkerFits, FormsFit
  <2> QED BY <2>1, <2>3, <2>4, <2>5 DEF V!LegacyData
<1>10. V!VaultData(1) \in DiskType /\ MarkerFits(V!VaultData(1)) /\ FormsFit(V!VaultData(1))
  <2>1. PICK d, n, b, w : /\ d = V!NoData /\ n = V!Note(1, 1, FALSE)
                          /\ b = [mode |-> "encrypted", vault |-> 1, gen |-> 1, inst |-> 1]
                          /\ w = [vault |-> 1, gen |-> 1]
    OBVIOUS
  <2>2. d \in DiskType /\ d.queue = {} /\ n \in LocalNote /\ n.form = 1 /\ b \in Config /\ w \in Wraps
    BY <1>0, <1>8, <2>1 DEF V!NoData, LocalNote, V!Note, Config, Modes, Wraps
  <2>3. PICK e : e = [d EXCEPT !.identity = 1, !.initial = TRUE, !.origin = 1,
                               !.srv = [value |-> 1, form |-> 1], !.marker = one, !.root = 1,
                               !.boot = b, !.wraps = w, !.notes = {n}]
    OBVIOUS
  <2>4. /\ e \in DiskType /\ e.marker = one /\ e.notes = {n} /\ e.queue = {} /\ e.srv.form = 1
    BY ZenonT(60), <1>0, <1>2, <2>2, <2>3 DEF DiskType
  <2>5. MarkerFits(e) /\ FormsFit(e)
    BY <1>2, <2>2, <2>4 DEF MarkerFits, FormsFit
  <2>6. e = V!VaultData(1)
    BY <1>1, <2>1, <2>3 DEF V!VaultData
  <2> QED BY <2>4, <2>5, <2>6
<1>11. disk \in {V!NoData, V!LegacyData, V!VaultData(1)}
  BY DEF V!Init
<1>12. disk \in DiskType /\ MarkerFits(disk) /\ FormsFit(disk)
  BY <1>8, <1>9, <1>10, <1>11
<1> QED BY <1>4, <1>5, <1>6, <1>7, <1>12 DEF VaultInv, WorldTypes, ConversionFits

LEMMA VaultStep == VaultInv /\ V!Next => VaultInv'
<1> SUFFICES ASSUME VaultInv, V!Next PROVE VaultInv'
  OBVIOUS
<1>1. ASSUME NEW t \in Tabs, V!Step(t) PROVE VaultInv'
  BY <1>1, FetchBootstrapStep, InspectStep, CacheVaultBootstrapStep, CheckServerIdentityStep,
     ResumeRememberedStep, LocalGoesOn, ForgetRememberedRootStep, StartAppStep, DiscardStep,
     MarkConversionStep, ConvertStep, UnlockVaultLocalStep, LoginStep, FetchWrappersStep,
     CacheVaultWrappersStep, LockStep, FetchPageStep, FetchNotesStep, ApplyNotesStep,
     ClaimBatchStep, GetInstanceIDStep, PushStep, AcknowledgeBatchStep, MigrationStartStep,
     StagingSteps, CommitMigrationStep, PostResetStep, PostCredentialStep, SwitchFetchStep,
     EndSessionStep, SwitchDatasetStep DEF V!Step
<1> QED BY <1>1, NoAnswerStep, RestartSteps, BeginSteps, MigrateStep, EditStep, WorldSteps DEF V!Next

VaultClient == active = "vault" => VaultInv

(* The format marker tells what the local records are: a tab that waited     *)
(* through another tab's conversion, discard or switch has written none in   *)
(* the old form, unless it wrote before a switch told it to reload.          *)
THEOREM LocalVaultConsistentHolds == ClientSpec => []LocalVaultConsistent
<1>1. ClientInit => VaultClient
  BY VaultStart DEF ClientInit, VaultClient
<1>2. VaultClient /\ [ClientNext]_vars => VaultClient'
  <2> SUFFICES ASSUME VaultClient, [ClientNext]_vars, active' = "vault" PROVE VaultInv'
    BY DEF VaultClient
  <2>1. active = "vault" /\ VaultInv
    BY DEF VaultClient, ClientNext, vars
  <2>2. CASE V!Next
    BY <2>1, <2>2, VaultStep
  <2>3. CASE UNCHANGED vaultVars
    BY <2>1, <2>3 DEF vaultVars, VaultInv, WorldTypes
  <2> QED BY <2>1, <2>2, <2>3 DEF ClientNext, vars
<1>3. VaultClient => LocalVaultConsistent
  <2> SUFFICES ASSUME VaultInv PROVE V!LocalVaultConsistent
    BY DEF VaultClient, LocalVaultConsistent
  <2>1. CASE disk.late
    BY <2>1 DEF V!LocalVaultConsistent
  <2>2. CASE ~disk.late
    BY <2>2, StoreFacts, ConsistentForms
  <2> QED BY <2>1, <2>2
<1> QED BY <1>1, <1>2, <1>3, PTL DEF ClientSpec

(***************************************************************************)
(* VaultSetup                                                              *)
(*                                                                         *)
(* The vault is handed only secrets that the user confirmed, for every     *)
(* number of passphrases, keys, openings and changes of mind.              *)
(*                                                                         *)
(* OnlyConfirmedSecrets speaks of the moment a secret is handed over. What *)
(* makes it hold are facts about the dialog while work is under way: the   *)
(* last confirmation is shown only over entered words that match the key   *)
(* (FinalChecked), a key still being created meets an empty entry, and     *)
(* only once (CreationPending), a passphrase submitted is the one repeated *)
(* unless it was edited late (Repeated), and the kind of every dialog and  *)
(* job agrees with the vault's mode, so that work of one kind never ends   *)
(* in a dialog of another (KindsFitMode).                                  *)
(***************************************************************************)
Secrets == Phrases \cup Int \cup {None}
Kinds == {"none", "setup", "passphrase", "recovery"}
Methods == {None, "password", "recovery"}
Tasks == {"create", "assess", "migrate", "verify", "change"}

Dialogs == [kind : Kinds, method : Methods, current : Secrets, verified : Secrets,
            key : Secrets, entering : BOOLEAN, entry : Secrets, phrase : Secrets,
            again : Secrets, repeated : Secrets, late : BOOLEAN, final : BOOLEAN]

Jobs == [what : Tasks, kind : Kinds, open : Nat, method : Methods, secret : Secrets,
         current : Secrets]

Typed ==
  /\ dialog \in Dialogs /\ opens \in Nat /\ keys \in Int /\ working \subseteq Jobs
  /\ vault \in [mode : {"legacy", "preparing", "encrypted"}, phrase : Secrets, key : Secrets]

(* Setup belongs to a vault that is not encrypted, changing a secret to one  *)
(* that is.                                                                  *)
KindsFitMode ==
  /\ dialog.kind = "setup" => vault.mode # "encrypted"
  /\ dialog.kind \in {"passphrase", "recovery"} => vault.mode = "encrypted"
  /\ \A w \in working :
       /\ w.kind \in {"passphrase", "recovery"} => vault.mode = "encrypted"
       /\ w.what = "migrate" => vault.mode # "encrypted"

(* A key that is still being created for the open dialog finds it as it was  *)
(* opened.                                                                   *)
CreationPending ==
  \A w \in working :
    /\ w.open <= opens
    /\ w.what = "create" /\ w.open = opens /\ dialog.kind # "none" =>
         /\ dialog.kind = "setup" /\ dialog.key = None /\ dialog.entry = None
         /\ ~dialog.entering /\ ~dialog.final

(* An opening asks for one key.                                              *)
OneCreation ==
  \A v, w \in working :
    v.what = "create" /\ w.what = "create" /\ v.open = w.open => v = w

(* The last confirmation is shown over words that were entered and match.    *)
FinalChecked == dialog.final => dialog.kind = "setup" /\ WordsConfirmed

(* What waits for its estimate, or for the last confirmation, was repeated.  *)
Repeated ==
  dialog.kind = "setup" /\ ~dialog.late /\ (dialog.final \/ Work("assess") # {})
    => dialog.phrase = dialog.repeated

(* A new recovery key is shown only to who gave the current secret.          *)
KeyVerified ==
  /\ dialog.kind = "recovery" /\ dialog.key # None
       => dialog.verified # None /\ dialog.current = dialog.verified
  /\ \A w \in Work("verify") : w.current # None

Inv ==
  /\ Typed /\ KindsFitMode /\ CreationPending /\ OneCreation
  /\ FinalChecked /\ Repeated /\ KeyVerified /\ OnlyConfirmedSecrets

USE DEF Secrets, Kinds, Methods, Tasks, Dialogs, Jobs

(* A dialog stays one when a flag of it is set.                              *)
LEMMA FlagTyped ==
  ASSUME NEW d \in Dialogs, NEW b \in BOOLEAN
  PROVE  /\ [d EXCEPT !.late = b] \in Dialogs
         /\ [d EXCEPT !.entering = b] \in Dialogs
         /\ [d EXCEPT !.final = b] \in Dialogs
         /\ (d.late \/ b) \in BOOLEAN /\ (d.late /\ b) \in BOOLEAN
  OBVIOUS

(* The work a dialog starts is well-formed.                                  *)
LEMMA JobTyped ==
  ASSUME Typed, NEW what \in Tasks, NEW secret \in Secrets, NEW current \in Secrets
  PROVE  Job(what, secret, current) \in Jobs
  BY DEF Job, Typed

LEMMA InitInv == Init => Inv
  BY DEF Init, Inv, Typed, KindsFitMode, CreationPending, OneCreation, FinalChecked, Repeated,
         KeyVerified, OnlyConfirmedSecrets, Closed, Work

THEOREM SecretsConfirmed == Spec => []OnlyConfirmedSecrets
<1>1. Inv /\ [Next]_setupVars => Inv'
  <2> SUFFICES ASSUME Inv, [Next]_setupVars
               PROVE  Inv'
    OBVIOUS
  <2> USE DEF Inv, Typed, KindsFitMode, CreationPending, OneCreation, FinalChecked, Repeated,
          KeyVerified, OnlyConfirmedSecrets, Closed, Fresh, Work
  <2>1. CASE OpenSetup
    <3>1. Typed'
      <4>1. PICK e \in BOOLEAN, l \in BOOLEAN : e = (vault.mode = "preparing") /\ l = (Work("assess") # {})
        OBVIOUS
      <4>2. dialog' = [[Fresh("setup") EXCEPT !.entering = e] EXCEPT !.late = l]
        BY <2>1, <4>1 DEF OpenSetup
      <4>3. Fresh("setup") \in Dialogs
        OBVIOUS
      <4>4. dialog' \in Dialogs
        <5> HIDE DEF Dialogs, Fresh, Closed
        <5> QED BY <4>2, <4>3, FlagTyped, Zenon
      <4>5. [Job("create", None, None) EXCEPT !.open = opens + 1] \in Jobs
        BY DEF Job
      <4> QED BY <2>1, <4>4, <4>5 DEF OpenSetup
    <3>2. (KindsFitMode /\ CreationPending /\ OneCreation)'
      BY <2>1 DEF OpenSetup, Job, WordsConfirmed
    <3>3. (FinalChecked /\ Repeated /\ KeyVerified /\ OnlyConfirmedSecrets)'
      BY <2>1 DEF OpenSetup, Job, WordsConfirmed
    <3> QED BY <3>1, <3>2, <3>3
  <2>2. ASSUME NEW kind \in {"passphrase", "recovery"}, OpenCredential(kind) PROVE Inv'
    <3>1. Typed'
      <4>1. dialog' \in Dialogs
        BY <2>2 DEF OpenCredential
      <4> QED BY <2>2, <4>1 DEF OpenCredential
    <3>2. (KindsFitMode /\ CreationPending /\ OneCreation)'
      BY <2>2 DEF OpenCredential, WordsConfirmed
    <3>3. (FinalChecked /\ Repeated /\ KeyVerified /\ OnlyConfirmedSecrets)'
      BY <2>2 DEF OpenCredential, WordsConfirmed
    <3> QED BY <3>1, <3>2, <3>3
  <2>3. CASE Dismiss
    BY <2>3 DEF Dismiss
  <2>4. CASE Reload
    BY <2>4 DEF Reload, Begun, Changed
  <2>5. ASSUME NEW p \in Phrases, TypePhrase(p) PROVE Inv'
    <3>1. Typed'
      <4>1. PICK l \in BOOLEAN : l = (dialog.late \/ (dialog.kind = "setup" /\ Work("assess") # {}))
        OBVIOUS
      <4>2. dialog' = [[dialog EXCEPT !.phrase = p] EXCEPT !.late = l]
        BY <2>5, <4>1 DEF TypePhrase
      <4>3. [dialog EXCEPT !.phrase = p] \in Dialogs
        OBVIOUS
      <4>4. dialog' \in Dialogs
        <5> HIDE DEF Dialogs, Fresh, Closed
        <5> QED BY <4>2, <4>3, FlagTyped, Zenon
      <4> QED BY <2>5, <4>4 DEF TypePhrase
    <3>2. (KindsFitMode /\ CreationPending /\ OneCreation)'
      BY <2>5 DEF TypePhrase, Typing, WordsConfirmed
    <3>3. (FinalChecked /\ Repeated /\ KeyVerified /\ OnlyConfirmedSecrets)'
      BY <2>5 DEF TypePhrase, Typing, WordsConfirmed
    <3> QED BY <3>1, <3>2, <3>3
  <2>6. ASSUME NEW p \in Phrases, TypeAgain(p) PROVE Inv'
    BY <2>6 DEF TypeAgain, Typing, WordsConfirmed
  <2>7. ASSUME NEW k \in 1 .. keys \cup {Wrong}, EnterWords(k) PROVE Inv'
    BY <2>7 DEF EnterWords, Typing, Wrong, WordsConfirmed
  <2>8. ASSUME NEW s \in Phrases \cup 1 .. keys \cup {Wrong}, TypeCurrent(s) PROVE Inv'
    BY <2>8 DEF TypeCurrent, Typing, Wrong, WordsConfirmed
  <2>9. ASSUME NEW m \in {None, "password", "recovery"}, ChooseMethod(m) PROVE Inv'
    BY ZenonT(60), <2>9 DEF ChooseMethod, Typing
  <2>10. CASE Begin
    <3>1. Typed'
      BY <2>10 DEF Begin, Typing, WordsConfirmed
    <3>2. (KindsFitMode /\ CreationPending /\ OneCreation)'
      BY <2>10 DEF Begin, Typing, WordsConfirmed
    <3>3. (FinalChecked /\ Repeated /\ KeyVerified /\ OnlyConfirmedSecrets)'
      BY <2>10 DEF Begin, Typing, WordsConfirmed
    <3> QED BY <3>1, <3>2, <3>3
  <2>11. CASE ShowAgain
    <3>1. Typed'
      BY <2>11 DEF ShowAgain, Typing, WordsConfirmed
    <3>2. (KindsFitMode /\ CreationPending /\ OneCreation)'
      BY <2>11 DEF ShowAgain, Typing, WordsConfirmed
    <3>3. (FinalChecked /\ Repeated /\ KeyVerified /\ OnlyConfirmedSecrets)'
      BY <2>11 DEF ShowAgain, Typing, WordsConfirmed
    <3> QED BY <3>1, <3>2, <3>3
  <2>12. CASE KeyCreated
    BY <2>12 DEF KeyCreated, StillOpen, WordsConfirmed
  <2>13. CASE KeyFails
    BY <2>13 DEF KeyFails, WordsConfirmed
  <2>14. CASE SubmitSetup
    <3>1. Typed'
      <4>1. PICK l \in BOOLEAN : l = (dialog.late /\ Work("assess") # {})
        OBVIOUS
      <4>2. dialog' = [[dialog EXCEPT !.repeated = dialog.phrase] EXCEPT !.late = l]
        BY <2>14, <4>1 DEF SubmitSetup
      <4>3. [dialog EXCEPT !.repeated = dialog.phrase] \in Dialogs
        OBVIOUS
      <4>4. dialog' \in Dialogs
        <5> HIDE DEF Dialogs, Fresh, Closed
        <5> QED BY <4>2, <4>3, FlagTyped, Zenon
      <4>5. Job("assess", dialog.phrase, None) \in Jobs
        BY JobTyped
      <4> QED BY <2>14, <4>4, <4>5 DEF SubmitSetup
    <3>2. (KindsFitMode /\ CreationPending /\ OneCreation)'
      BY <2>14 DEF SubmitSetup, Typing, Job, WordsConfirmed
    <3>3. (FinalChecked /\ Repeated /\ KeyVerified /\ OnlyConfirmedSecrets)'
      BY <2>14 DEF SubmitSetup, Typing, Job, WordsConfirmed
    <3> QED BY <3>1, <3>2, <3>3
  <2>15. ASSUME NEW accepted \in BOOLEAN, SetupAssessed(accepted) PROVE Inv'
    <3>1. Typed'
      <4>1. [dialog EXCEPT !.final = TRUE] \in Dialogs
        <5> HIDE DEF Dialogs
        <5> QED BY FlagTyped, Zenon
      <4>2. dialog' \in Dialogs
        BY <2>15, <4>1 DEF SetupAssessed
      <4> QED BY <2>15, <4>2 DEF SetupAssessed
    <3>2. (KindsFitMode /\ CreationPending /\ OneCreation)'
      BY <2>15 DEF SetupAssessed, WordsConfirmed
    <3>3. (FinalChecked /\ Repeated /\ KeyVerified /\ OnlyConfirmedSecrets)'
      BY <2>15 DEF SetupAssessed, WordsConfirmed
    <3> QED BY <3>1, <3>2, <3>3
  <2>16. CASE FinalBack
    BY ZenonT(60), <2>16 DEF FinalBack
  <2>17. CASE RunSetup
    <3>1. Typed'
      <4> DEFINE key == IF dialog.key # None THEN dialog.key ELSE dialog.entry
      <4>1. [dialog EXCEPT !.final = FALSE] \in Dialogs
        <5> HIDE DEF Dialogs
        <5> QED BY FlagTyped, Zenon
      <4>2. key \in Secrets /\ dialog.phrase \in Secrets
        OBVIOUS
      <4>3. Job("migrate", dialog.phrase, key) \in Jobs
        BY <4>2, JobTyped
      <4> QED BY <2>17, <4>1, <4>3 DEF RunSetup
    <3>2. (KindsFitMode /\ CreationPending /\ OneCreation)'
      BY <2>17 DEF RunSetup, Call, Job, WordsConfirmed
    <3>3. (FinalChecked /\ Repeated /\ KeyVerified /\ OnlyConfirmedSecrets)'
      BY <2>17 DEF RunSetup, Call, Job, WordsConfirmed
    <3> QED BY <3>1, <3>2, <3>3
  <2>18. CASE SetupDone
    BY <2>18 DEF SetupDone
  <2>19. CASE SetupFails
    BY <2>19 DEF SetupFails, Begun, WordsConfirmed
  <2>20. CASE Verify
    BY <2>20 DEF Verify, Typing, Job, WordsConfirmed
  <2>21. CASE VerifyEnds
    <3>1. PICK w \in Work("verify") :
            /\ working' = working \ {w}
            /\ \/ dialog' = dialog
               \/ /\ StillGiven(w) /\ w.kind \in {"passphrase", "recovery"}
                  /\ \/ dialog' = [dialog EXCEPT !.verified = w.current]
                     \/ dialog' = [dialog EXCEPT !.verified = w.current, !.key = keys']
      BY Zenon, <2>21 DEF VerifyEnds
    <3>2. keys' \in Int /\ UNCHANGED <<opens, vault, call>>
      BY <2>21 DEF VerifyEnds
    <3>3. Typed'
      <4>1. [dialog EXCEPT !.verified = w.current] \in Dialogs
        OBVIOUS
      <4>2. [dialog EXCEPT !.verified = w.current, !.key = keys'] \in Dialogs
        BY ZenonT(60), <3>2, <4>1
      <4>3. dialog' \in Dialogs
        <5> HIDE DEF Dialogs
        <5> QED BY <3>1, <4>1, <4>2
      <4> QED BY <3>1, <3>2, <4>3
    <3>4. /\ dialog'.kind = dialog.kind /\ dialog'.final = dialog.final
          /\ dialog'.late = dialog.late /\ dialog'.entry = dialog.entry
          /\ dialog'.phrase = dialog.phrase /\ dialog'.repeated = dialog.repeated
      BY <3>1
    <3>5. dialog' # dialog => dialog.kind # "setup"
      BY <3>1
    <3>6. KindsFitMode' /\ OneCreation'
      BY <3>1, <3>2, <3>4
    <3>7. CreationPending'
      <4>1. CASE dialog' = dialog
        BY <3>1, <3>2, <4>1
      <4>2. CASE dialog' # dialog
        BY <3>1, <3>2, <3>4, <3>5, <4>2
      <4> QED BY <4>1, <4>2
    <3>8. FinalChecked'
      BY <3>4, <3>5 DEF WordsConfirmed
    <3>9. Repeated'
      BY <3>1, <3>4
    <3>10. KeyVerified'
      BY <3>1 DEF StillGiven
    <3>11. OnlyConfirmedSecrets'
      BY <3>2
    <3> QED BY <3>3, <3>6, <3>7, <3>8, <3>9, <3>10, <3>11
  <2>22. CASE SubmitPassphrase
    BY <2>22 DEF SubmitPassphrase, Typing, Job, WordsConfirmed
  <2>23. ASSUME NEW accepted \in BOOLEAN, PassphraseAssessed(accepted) PROVE Inv'
    BY <2>23 DEF PassphraseAssessed, Call, WordsConfirmed
  <2>24. CASE SubmitRecovery
    BY <2>24 DEF SubmitRecovery, Typing, Call, Job, WordsConfirmed
  <2>25. CASE ChangeDone
    BY <2>25 DEF ChangeDone, Changed, WordsConfirmed
  <2>26. CASE ChangeFails
    BY <2>26 DEF ChangeFails, Changed, WordsConfirmed
  <2>27. CASE UNCHANGED setupVars
    BY <2>27 DEF setupVars, WordsConfirmed
  <2> QED
    BY ZenonT(60), <2>1, <2>2, <2>3, <2>4, <2>5, <2>6, <2>7, <2>8, <2>9, <2>10, <2>11, <2>12, <2>13, <2>14,
       <2>15, <2>16, <2>17, <2>18, <2>19, <2>20, <2>21, <2>22, <2>23, <2>24, <2>25, <2>26, <2>27
       DEF Next
<1>2. Inv => OnlyConfirmedSecrets
  BY DEF Inv
<1> QED BY <1>1, <1>2, InitInv, PTL DEF Spec
=============================================================================
