---------------------------- MODULE MCNoteServer ----------------------------
(***************************************************************************)
(* Instances of NoteServer for model checking.                             *)
(***************************************************************************)
EXTENDS NoteServer, TLC

CONSTANTS n1, n2, c1, c2, d1, d2

Save(n, base, content, pinned) ==
  [type |-> "note.save", note |-> n, base |-> base, body |-> content, pinned |-> pinned]
PinDraft(n, base, pinned) ==
  [type |-> "note.pin", note |-> n, base |-> base, body |-> Absent, pinned |-> pinned]
DeleteDraft(n, base) ==
  [type |-> "note.delete", note |-> n, base |-> base, body |-> Absent, pinned |-> FALSE]
NoopDraft == [type |-> "noop", note |-> n1, base |-> 0, body |-> Absent, pinned |-> FALSE]

(* One note, every kind of operation, stale and current revisions.           *)
OneNoteDrafts ==
  {Save(n1, 0, c1, FALSE), Save(n1, 1, c2, FALSE),
   PinDraft(n1, 1, TRUE), DeleteDraft(n1, 1), DeleteDraft(n1, 2), NoopDraft}

(* Two notes: create (also pinned), update, pin, delete.                     *)
TwoNoteDrafts ==
  {Save(n1, 0, c1, TRUE), Save(n1, 1, c2, FALSE), Save(n2, 0, c1, TRUE),
   PinDraft(n2, 1, TRUE), DeleteDraft(n1, 1)}

(* Create, update, delete, create again.                                     *)
TombstoneDrafts == {Save(n1, 0, c1, FALSE), DeleteDraft(n1, 1), Save(n2, 0, c2, FALSE)}

ReviveDrafts == {Save(n1, 0, c1, FALSE), Save(n1, 1, c2, FALSE), DeleteDraft(n1, 1)}

DeviceSymmetry == Permutations(Devices)
=============================================================================
