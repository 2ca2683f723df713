----------------------------- MODULE TextMerge -----------------------------
(***************************************************************************)
(* The three-way merge of note versions (editor/merge.js).  A text is a    *)
(* sequence of lines; its changes against the base are hunks, found on the *)
(* table of longest common subsequences.  Two sets of changes that do not  *)
(* touch each other are both applied; anything else is left to the user.   *)
(* One behaviour merges one triple of versions.                            *)
(***************************************************************************)
EXTENDS Integers, Sequences, FiniteSetsExt, SequencesExt

CONSTANTS
  Lines,         \* the contents of a line
  MaxLines,      \* bound: lines in a text
  Titles,        \* the values of a title or of the tags
  MaxDiffCells,  \* merge.js: beyond this size the diff is not attempted
  Refused        \* stands for the null of a merge left to the user

VARIABLES
  versions,      \* [base, local, remote], each a [title, tags, content]
  merged         \* << >> before the merge, then the one result

vars == <<versions, merged>>

Texts == UNION {[1 .. n -> Lines] : n \in 1 .. MaxLines}

(***************************************************************************)
(* diffHunks                                                               *)
(***************************************************************************)

\* table[r, c]: the longest common subsequence of the lines from r and from c.
CommonLines(base, changed) ==
  LET table[r \in 1 .. Len(base) + 1, c \in 1 .. Len(changed) + 1] ==
        IF r > Len(base) \/ c > Len(changed) THEN 0
        ELSE IF base[r] = changed[c] THEN table[r + 1, c + 1] + 1
        ELSE Max({table[r + 1, c], table[r, c + 1]})
  IN  table

\* Inside a hunk, the next line is one the changed text inserts (its line c) rather
\* than one it drops (the base's line r).
TakesChanged(table, base, changed, r, c) ==
  /\ c <= Len(changed)
  /\ r > Len(base) \/ table[r, c + 1] > table[r + 1, c]

\* The hunks from line 1 on: base lines start .. end - 1 become replacement.
DiffHunks(base, changed) ==
  LET table == CommonLines(base, changed)
      rows == 1 .. Len(base) + 1
      columns == 1 .. Len(changed) + 1
      Same(r, c) == r <= Len(base) /\ c <= Len(changed) /\ base[r] = changed[c]
      AtEnd(r, c) == r > Len(base) /\ c > Len(changed)
      stop[r \in rows, c \in columns] ==
        IF AtEnd(r, c) \/ Same(r, c) THEN <<r, c>>
        ELSE IF TakesChanged(table, base, changed, r, c) THEN stop[r, c + 1]
        ELSE stop[r + 1, c]
      hunks[r \in rows, c \in columns] ==
        IF AtEnd(r, c) THEN << >>
        ELSE IF Same(r, c) THEN hunks[r + 1, c + 1]
        ELSE LET e == stop[r, c]
             IN  <<[start |-> r, end |-> e[1], replacement |-> SubSeq(changed, c, e[2] - 1)]>>
                   \o hunks[e[1], e[2]]
  IN  hunks[1, 1]

Diffable(base, changed) == Len(base) * Len(changed) <= MaxDiffCells

\* Mutated: an insertion next to a replaced line does not overlap it.
HunksOverlap_Touching(left, right) ==
  left.start < right.end /\ right.start < left.end
\* hunksOverlap: changes that begin at one line, or one inside the other.
HunksOverlap(left, right) ==
  \/ left.start = right.start
  \/ left.start < right.start /\ left.end > right.start
  \/ right.start < left.start /\ right.end > left.start

(***************************************************************************)
(* mergeText, mergeValue, mergeNoteVersions                                *)
(***************************************************************************)

\* base with the changes applied; a change never begins before the previous one ends.
Patched(base, changes) ==
  LET text[i \in 0 .. Len(changes)] ==
        IF i = 0 THEN << >>
        ELSE text[i - 1]
               \o SubSeq(base, IF i = 1 THEN 1 ELSE changes[i - 1].end, changes[i].start - 1)
               \o changes[i].replacement
  IN  text[Len(changes)]
        \o SubSeq(base, IF changes = << >> THEN 1 ELSE Last(changes).end, Len(base))

\* A change that both sides made is applied once.
MergeText(base, local, remote) ==
  IF local = remote THEN local
  ELSE IF local = base THEN remote
  ELSE IF remote = base THEN local
  ELSE IF ~Diffable(base, local) \/ ~Diffable(base, remote) THEN Refused
  ELSE LET mine == DiffHunks(base, local)
           theirs == DiffHunks(base, remote)
           Before(a, b) == a.start < b.start \/ (a.start = b.start /\ a.end < b.end)
       IN  IF \E a \in ToSet(mine), b \in ToSet(theirs) : a # b /\ HunksOverlap(a, b)
           THEN Refused
           ELSE Patched(base, SetToSortSeq(ToSet(mine) \cup ToSet(theirs), Before))

MergeValue(base, local, remote) ==
  IF local = remote THEN local
  ELSE IF local = base THEN remote
  ELSE IF remote = base THEN local
  ELSE Refused

MergeNoteVersions(base, local, remote) ==
  LET note == [title   |-> MergeValue(base.title, local.title, remote.title),
               tags    |-> MergeValue(base.tags, local.tags, remote.tags),
               content |-> MergeText(base.content, local.content, remote.content)]
  IN  IF \E field \in DOMAIN note : note[field] = Refused THEN Refused ELSE note

(***************************************************************************)
(* One merge                                                               *)
(***************************************************************************)

Note(title, content) == [title |-> title, tags |-> title, content |-> content]

\* The triples explored: any contents under one title, any titles over one content.
Inputs ==
  LET title == CHOOSE t \in Titles : TRUE
      text == <<CHOOSE l \in Lines : TRUE>>
      three == {"base", "local", "remote"}
  IN  {[v \in three |-> Note(title, texts[v])] : texts \in [three -> Texts]} \cup
      {[v \in three |-> Note(titles[v], text)] : titles \in [three -> Titles]}

Init == versions \in Inputs /\ merged = << >>

Merge ==
  /\ merged = << >>
  /\ merged' = <<MergeNoteVersions(versions.base, versions.local, versions.remote)>>
  /\ UNCHANGED versions

Done == merged # << >> /\ UNCHANGED vars

Next == Merge \/ Done

(***************************************************************************)
(* What a merge is                                                         *)
(***************************************************************************)

\* The changes of `hunks` that are not among `others`, placed in the text that `others`
\* make: each moves by what the changes before it add and drop.
Rebased(hunks, others) ==
  LET Grown(h) == Len(h.replacement) - (h.end - h.start)
      Shift(h) == FoldSeq(LAMBDA o, d : d + (IF o.end <= h.start THEN Grown(o) ELSE 0), 0, others)
      Moved(h) == [h EXCEPT !.start = @ + Shift(h), !.end = @ + Shift(h)]
  IN  [i \in DOMAIN SelectSeq(hunks, LAMBDA h : h \notin ToSet(others)) |->
         Moved(SelectSeq(hunks, LAMBDA h : h \notin ToSet(others))[i])]

\* A merge that succeeds is what each side gets by making the other side's changes to
\* its own text, so no line written on either side is lost, doubled or moved, and it
\* does not matter which device merges (merge.js mergeText).
MergeAppliesBoth ==
  merged # << >> /\ merged[1] # Refused =>
    LET base == versions.base.content
        local == versions.local.content
        remote == versions.remote.content
        mine == DiffHunks(base, local)
        theirs == DiffHunks(base, remote)
    IN  /\ merged[1].content = Patched(local, Rebased(theirs, mine))
        /\ merged[1].content = Patched(remote, Rebased(mine, theirs))
        /\ merged[1] = MergeNoteVersions(versions.base, versions.remote, versions.local)

=============================================================================
