----------------------------- MODULE VaultSetup -----------------------------
(***************************************************************************)
(* The dialogs that set up the encryption of the notes and change its      *)
(* passphrase or recovery key (ui/vault-setup.js, ui/recovery-entry.js).   *)
(* A dialog asks the user to repeat what will become a secret; estimating, *)
(* verifying and creating keys are asynchronous, and the user may go on    *)
(* typing, close the dialog and open it again while they run.              *)
(***************************************************************************)
EXTENDS Integers, FiniteSets

CONSTANTS
  Phrases,     \* passphrases
  None,
  MaxKeys,     \* bound: recovery keys created
  MaxOpens,    \* bound: openings of a dialog
  MaxEdits     \* bound: times the user changes a secret that was entered

VARIABLES
  dialog,      \* the open dialog and what its fields hold
  opens,       \* setupGeneration: dialogs opened so far
  keys,        \* recovery keys created so far
  working,     \* asynchronous work under way
  busy,        \* running, credentialRunning
  vault,       \* the account: mode, and the secrets the vault opens with
  call,        \* the last secret handed to the vault, as the dialog then was
  edits        \* what the user has spent of MaxEdits

setupVars == <<dialog, opens, keys, working, busy, vault, call, edits>>

Wrong == -1                            \* 24 words that are no key
Keys == 1 .. MaxKeys

\* A dialog as bind() and the reset functions leave it.  kind: which one; method: how
\* the current secret is given; current: that secret; verified: the one that opened the
\* vault; key: the new recovery key, shown; entering: its words are being repeated;
\* entry: the 24 words entered; phrase, again: the new passphrase and its repetition;
\* repeated: the one the last submission found repeated; late: it was changed while
\* that submission waited; final: the last confirmation is shown.
Closed == [kind |-> "none", method |-> None, current |-> None, verified |-> None,
           key |-> None, entering |-> FALSE, entry |-> None, phrase |-> None,
           again |-> None, repeated |-> None, late |-> FALSE, final |-> FALSE]

Fresh(kind) == [Closed EXCEPT !.kind = kind]

Work(what) == {w \in working : w.what = what}

\* Work started from the dialog, with the values it read before its first await.
Job(what, secret, current) ==
  [what |-> what, kind |-> dialog.kind, open |-> opens, method |-> dialog.method,
   secret |-> secret, current |-> current]

(***************************************************************************)
(* Opening and closing.                                                    *)
(***************************************************************************)
\* open: an interrupted conversion asks for the key it was begun with, else a new one
\* is created.
OpenSetup ==
  /\ dialog.kind = "none" /\ vault.mode # "encrypted" /\ opens < MaxOpens
  /\ opens' = opens + 1
  /\ dialog' = [Fresh("setup") EXCEPT !.entering = vault.mode = "preparing",
                                      !.late = Work("assess") # {}]
  /\ working' = IF vault.mode = "preparing" THEN working
                ELSE working \cup {[Job("create", None, None) EXCEPT !.open = opens']}
  /\ UNCHANGED <<keys, busy, vault, call, edits>>

\* openMaster, openRecovery
OpenCredential(kind) ==
  /\ dialog.kind = "none" /\ vault.mode = "encrypted" /\ opens < MaxOpens
  /\ opens' = opens + 1
  /\ dialog' = Fresh(kind)
  /\ UNCHANGED <<keys, working, busy, vault, call, edits>>

\* dismiss: a dialog whose work runs stays open; a route that leaves the section first
\* closes the last confirmation.
Dismiss ==
  /\ dialog.kind # "none" /\ ~busy
  /\ dialog' = Closed
  /\ UNCHANGED <<opens, keys, working, busy, vault, call, edits>>

\* A conversion that began keeps the secrets it was begun with.
Begun(w) ==
  IF vault.key # None THEN vault
  ELSE [mode |-> "preparing", phrase |-> w.secret, key |-> w.current]

\* changeCredential opens the vault with the current secret before it replaces one.
Opens(method, secret) == secret = IF method = "recovery" THEN vault.key ELSE vault.phrase

Changed(w) ==
  IF w.kind = "passphrase" THEN [vault EXCEPT !.phrase = w.secret]
  ELSE [vault EXCEPT !.key = w.secret]

\* The page is reloaded: what its work did not bring to the server is gone.
Reload ==
  /\ dialog.kind # "none" \/ working # {}
  /\ dialog' = Closed /\ working' = {} /\ busy' = FALSE
  /\ vault' \in {vault} \cup {Begun(w) : w \in Work("migrate")}
               \cup {Changed(w) : w \in {c \in Work("change") : Opens(c.method, c.current)}}
  /\ UNCHANGED <<opens, keys, call, edits>>

(***************************************************************************)
(* What the user types.  A modal over the dialog makes it inert.           *)
(***************************************************************************)
Typing == dialog.kind # "none" /\ ~dialog.final

\* A secret already entered is changed only MaxEdits times.
Edits(old) ==
  IF old = None THEN UNCHANGED edits ELSE edits < MaxEdits /\ edits' = edits + 1

\* The new passphrase and its repetition
TypePhrase(p) ==
  /\ Typing /\ dialog.kind \in {"setup", "passphrase"} /\ p # dialog.phrase
  /\ dialog.kind = "passphrase" => dialog.verified # None
  /\ Edits(dialog.phrase)
  /\ dialog' = [dialog EXCEPT !.phrase = p, 
                                !.late = @ \/ (dialog.kind = "setup" /\ Work("assess") # {})]
  /\ UNCHANGED <<opens, keys, working, busy, vault, call>>

TypeAgain(p) ==
  /\ Typing /\ dialog.phrase # None /\ p # dialog.again
  /\ Edits(dialog.again)
  /\ dialog' = [dialog EXCEPT !.again = p]
  /\ UNCHANGED <<opens, keys, working, busy, vault, call>>

\* The recovery entry (add, moveWord, the chips' remove buttons): 24 words, those of a
\* key the user wrote down or others.
EnterWords(k) ==
  /\ Typing /\ dialog.entering /\ k # dialog.entry
  /\ Edits(dialog.entry)
  /\ dialog' = [dialog EXCEPT !.entry = k]
  /\ UNCHANGED <<opens, keys, working, busy, vault, call>>

\* The begin and show buttons empty the entry.
Begin ==
  /\ Typing /\ dialog.key # None /\ ~dialog.entering
  /\ dialog' = [dialog EXCEPT !.entering = TRUE, !.entry = None]
  /\ UNCHANGED <<opens, keys, working, busy, vault, call, edits>>

ShowAgain ==
  /\ Typing /\ dialog.key # None /\ dialog.entering
  /\ dialog' = [dialog EXCEPT !.entering = FALSE, !.entry = None]
  /\ UNCHANGED <<opens, keys, working, busy, vault, call, edits>>

\* chooseMasterMethod, chooseRecoveryMethod, and the buttons that change the method
ChooseMethod(m) ==
  /\ Typing /\ dialog.kind \in {"passphrase", "recovery"} /\ ~busy
  /\ dialog.method = None \/ (m = None /\ dialog.verified = None)
  /\ dialog' = [Fresh(dialog.kind) EXCEPT !.method = m]
  /\ UNCHANGED <<opens, keys, working, busy, vault, call, edits>>

\* The current secret can be typed until it is verified, while it is being verified too.
TypeCurrent(s) ==
  /\ Typing /\ dialog.method # None /\ dialog.verified = None /\ s # dialog.current
  /\ s \in IF dialog.method = "recovery" THEN Keys \cup {Wrong} ELSE Phrases
  /\ Edits(dialog.current)
  /\ dialog' = [dialog EXCEPT !.current = s]
  /\ UNCHANGED <<opens, keys, working, busy, vault, call>>

(***************************************************************************)
(* A new recovery key is created, and shown if its dialog is still the     *)
(* one that asked for it.                                                  *)
(***************************************************************************)
\* Mutated: any open dialog takes the key, whichever opening asked for it.
StillOpen_Any(w) == dialog.kind # "none"

\* Whether the result of a job is still wanted by the dialog.
StillOpen(w) == dialog.kind # "none" /\ w.open = opens

KeyCreated ==
  \E w \in Work("create") :
    /\ keys < MaxKeys
    /\ keys' = keys + 1
    /\ working' = working \ {w}
    /\ dialog' = IF StillOpen(w) THEN [dialog EXCEPT !.key = keys'] ELSE dialog
    /\ UNCHANGED <<opens, busy, vault, call, edits>>

KeyFails ==
  \E w \in Work("create") :
    /\ working' = working \ {w}
    /\ UNCHANGED <<dialog, opens, keys, busy, vault, call, edits>>

(***************************************************************************)
(* Setup: the submission checks the passphrase, waits for its strength and *)
(* checks the recovery words; the last confirmation starts the conversion. *)
(***************************************************************************)
SubmitSetup ==
  /\ Typing /\ dialog.kind = "setup" /\ ~busy
  /\ dialog.key # None \/ vault.mode = "preparing"
  /\ dialog.phrase # None /\ dialog.phrase = dialog.again
  /\ working' = working \cup {Job("assess", dialog.phrase, None)}
  /\ dialog' = [dialog EXCEPT !.repeated = dialog.phrase, !.late = @ /\ Work("assess") # {}]
  /\ UNCHANGED <<opens, keys, busy, vault, call, edits>>

WordsConfirmed == dialog.entry # None /\ (dialog.key # None => dialog.entry = dialog.key)

\* The checks after the await: a passphrase that is weak, or the password itself, is
\* refused.
SetupAssessed(accepted) ==
  \E w \in Work("assess") :
    /\ w.kind = "setup"
    /\ working' = working \ {w}
    /\ dialog' = IF accepted /\ dialog.kind = "setup" /\ WordsConfirmed
                 THEN [dialog EXCEPT !.final = TRUE] ELSE dialog
    /\ UNCHANGED <<opens, keys, busy, vault, call, edits>>

\* What the dialog hands to the vault, beside what the user confirmed.
Call(phrase, key, current) ==
  [phrase |-> phrase, key |-> key, current |-> current, kind |-> dialog.kind,
   repeated |-> IF dialog.kind = "setup" THEN dialog.repeated ELSE dialog.again,
   entry |-> dialog.entry, verified |-> dialog.verified, late |-> dialog.late]

FinalBack ==
  /\ dialog.final
  /\ dialog' = [dialog EXCEPT !.final = FALSE]
  /\ UNCHANGED <<opens, keys, working, busy, vault, call, edits>>

\* runSetup
RunSetup ==
  /\ dialog.final /\ ~busy
  /\ LET key == IF dialog.key # None THEN dialog.key ELSE dialog.entry
     IN /\ call' = Call(dialog.phrase, key, None)
        /\ working' = working \cup {Job("migrate", dialog.phrase, key)}
  /\ busy' = TRUE
  /\ dialog' = [dialog EXCEPT !.final = FALSE]
  /\ UNCHANGED <<opens, keys, vault, edits>>

\* The conversion ends and the page is loaded anew, or it fails, the note in the editor
\* not saved, or begun and to be resumed with the same secrets.
SetupDone ==
  \E w \in Work("migrate") :
    /\ vault.key \in {None, w.current} /\ vault.phrase \in {None, w.secret}
    /\ vault' = [mode |-> "encrypted", phrase |-> w.secret, key |-> w.current]
    /\ dialog' = Closed /\ working' = {} /\ busy' = FALSE
    /\ UNCHANGED <<opens, keys, call, edits>>

SetupFails ==
  \E w \in Work("migrate") :
    /\ working' = working \ {w} /\ busy' = FALSE
    /\ vault' \in {vault, Begun(w)}
    /\ UNCHANGED <<dialog, opens, keys, call, edits>>

(***************************************************************************)
(* Changing a secret: the current one is verified first, and a new recovery*)
(* key is created once it was.                                             *)
(***************************************************************************)
\* verifyCurrentForMaster, verifyCurrentForRecovery; a submission before the current
\* secret was verified leads here too.
Verify ==
  /\ Typing /\ ~busy /\ dialog.method # None /\ dialog.current # None /\ dialog.verified = None
  /\ working' = working \cup {Job("verify", None, dialog.current)}
  /\ busy' = TRUE
  /\ UNCHANGED <<dialog, opens, keys, vault, call, edits>>

\* The form still holds the secret that was verified.
StillGiven(w) == dialog.method = w.method /\ dialog.current = w.current

VerifyEnds ==
  \E w \in Work("verify") :
    /\ working' = working \ {w} /\ busy' = FALSE
    /\ \/ /\ Opens(w.method, w.current) /\ StillGiven(w) /\ w.kind = "passphrase"
          /\ dialog' = [dialog EXCEPT !.verified = w.current]
          /\ UNCHANGED keys
       \/ /\ Opens(w.method, w.current) /\ StillGiven(w) /\ w.kind = "recovery" /\ keys < MaxKeys
          /\ keys' = keys + 1
          /\ dialog' = [dialog EXCEPT !.verified = w.current, !.key = keys']
       \/ UNCHANGED <<dialog, keys>>      \* wrong, changed meanwhile, or it could not be checked
    /\ UNCHANGED <<opens, vault, call, edits>>

\* saveCredential for a passphrase reads the form and estimates the passphrase first.
SubmitPassphrase ==
  /\ Typing /\ dialog.kind = "passphrase" /\ ~busy /\ dialog.verified # None
  /\ working' = working \cup {Job("assess", dialog.phrase, dialog.verified)}
  /\ UNCHANGED <<dialog, opens, keys, busy, vault, call, edits>>

\* The checks after the await, against the repetition the form holds then.
PassphraseAssessed(accepted) ==
  \E w \in Work("assess") :
    /\ w.kind = "passphrase"
    /\ IF accepted /\ w.secret \notin {None, w.current} /\ w.secret = dialog.again
       THEN /\ call' = [Call(w.secret, None, w.current) EXCEPT !.verified = w.current]
            /\ working' = (working \ {w}) \cup {[w EXCEPT !.what = "change"]}
            /\ busy' = TRUE
       ELSE working' = working \ {w} /\ UNCHANGED <<busy, call>>
    /\ UNCHANGED <<dialog, opens, keys, vault, edits>>

\* saveCredential for a recovery key
SubmitRecovery ==
  /\ Typing /\ dialog.kind = "recovery" /\ ~busy /\ dialog.key # None
  /\ dialog.entry = dialog.key
  /\ call' = Call(None, dialog.key, dialog.current)
  /\ working' = working \cup {Job("change", dialog.key, dialog.current)}
  /\ busy' = TRUE
  /\ UNCHANGED <<dialog, opens, keys, vault, edits>>

\* The dialog of that kind is emptied and closed, whichever opening it is.
ChangeDone ==
  \E w \in Work("change") :
    /\ Opens(w.method, w.current)
    /\ vault' = Changed(w)
    /\ working' = working \ {w} /\ busy' = FALSE
    /\ dialog' = IF dialog.kind = w.kind THEN Closed ELSE dialog
    /\ UNCHANGED <<opens, keys, call, edits>>

\* The answer is lost after the change, or nothing was changed.
ChangeFails ==
  \E w \in Work("change") :
    /\ vault' \in IF Opens(w.method, w.current) THEN {vault, Changed(w)} ELSE {vault}
    /\ working' = working \ {w} /\ busy' = FALSE
    /\ UNCHANGED <<dialog, opens, keys, call, edits>>

Init ==
  /\ dialog = Closed /\ opens = 0 /\ working = {} /\ busy = FALSE /\ call = None /\ edits = 0
  /\ \/ keys = 0 /\ vault = [mode |-> "legacy", phrase |-> None, key |-> None]
     \/ keys = 1 /\ \E p \in Phrases : vault = [mode |-> "encrypted", phrase |-> p, key |-> 1]

Next ==
  \/ OpenSetup \/ OpenCredential("passphrase") \/ OpenCredential("recovery")
  \/ Dismiss \/ Reload
  \/ \E p \in Phrases : TypePhrase(p) \/ TypeAgain(p)
  \/ \E k \in 1 .. keys \cup {Wrong} : EnterWords(k)
  \/ \E s \in Phrases \cup 1 .. keys \cup {Wrong} : TypeCurrent(s)
  \/ \E m \in {None, "password", "recovery"} : ChooseMethod(m)
  \/ Begin \/ ShowAgain \/ KeyCreated \/ KeyFails
  \/ SubmitSetup \/ SetupAssessed(TRUE) \/ SetupAssessed(FALSE) \/ FinalBack
  \/ RunSetup \/ SetupDone \/ SetupFails
  \/ Verify \/ VerifyEnds \/ SubmitPassphrase
  \/ PassphraseAssessed(TRUE) \/ PassphraseAssessed(FALSE)
  \/ SubmitRecovery \/ ChangeDone \/ ChangeFails

Spec == Init /\ [][Next]_setupVars

\* What the vault is handed was confirmed by the user: the recovery key is the one
\* whose 24 words were entered, the passphrase the one that was repeated (unless it was
\* edited while its strength was estimated, which the code does not notice), and the
\* current secret the one that was verified (ui/vault-setup.js:723, 772, 840).
OnlyConfirmedSecrets ==
  call # None =>
    /\ call.key # None => call.key = call.entry
    /\ call.phrase # None /\ ~call.late => call.phrase = call.repeated
    /\ call.kind # "setup" => call.current = call.verified
=============================================================================
