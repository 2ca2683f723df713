------------------------- MODULE OfflineSync_proofs -------------------------
(***************************************************************************)
(* The queue of a browser and the server that consumes it: the order of    *)
(* the queue, the identities under its sequences, what may still happen to *)
(* an operation that was sent, and that no request ever skips a sequence.  *)
(*                                                                         *)
(* The first part looks only at the identity, the sequence and the         *)
(* attempted flag of an operation and at which operations a request        *)
(* carries. The second part types the notes, texts and revisions.          *)
(***************************************************************************)
EXTENDS OfflineSync, TLAPS, WellFoundedInduction, SequenceTheorems

(* A non-empty set of naturals has a least element. *)
LEMMA LeastOfNats ==
  ASSUME NEW T, T \subseteq Nat, T # {}
  PROVE  \E x \in T : \A y \in T : x <= y
<1> DEFINE R == OpToRel(<, Nat)
<1>1. IsWellFoundedOn(R, Nat)
  BY Zenon, NatLessThanWellFounded
<1>2. \A x, y \in T : <<y, x>> \in R <=> y < x
  BY DEF OpToRel
<1> HIDE DEF R
<1>3. PICK x \in T : \A y \in T : ~(<<y, x>> \in R)
  BY <1>1, WFMin
<1>4. \A y \in T : ~(y < x)
  BY <1>2, <1>3
<1> QED BY <1>4

(* Operations with sequences have an oldest one. *)
LEMMA OldestExists ==
  ASSUME NEW S, S # {}, \A q \in S : q.sequence \in Nat
  PROVE  Oldest(S) \in S /\ \A r \in S : Oldest(S).sequence <= r.sequence
<1> DEFINE T == {q.sequence : q \in S}
<1>1. T \subseteq Nat /\ T # {}
  OBVIOUS
<1>2. PICK t \in T : \A y \in T : t <= y
  <2> HIDE DEF T
  <2> QED BY <1>1, LeastOfNats
<1>3. PICK q \in S : t = q.sequence
  BY <1>2
<1>4. \E x \in S : \A r \in S : x.sequence <= r.sequence
  BY <1>2, <1>3
<1> QED BY <1>4 DEF Oldest

(* Operations whose sequences are bounded have a newest one. *)
LEMMA NewestExists ==
  ASSUME NEW S, S # {}, NEW b \in Nat, \A q \in S : q.sequence \in Nat /\ q.sequence <= b
  PROVE  Newest(S) \in S /\ \A r \in S : r.sequence <= Newest(S).sequence
<1> DEFINE T == {b - q.sequence : q \in S}
<1>1. T \subseteq Nat /\ T # {}
  OBVIOUS
<1>2. PICK t \in T : \A y \in T : t <= y
  <2> HIDE DEF T
  <2> QED BY <1>1, LeastOfNats
<1>3. PICK q \in S : t = b - q.sequence
  BY <1>2
<1>4. \A r \in S : b - q.sequence <= b - r.sequence
  BY <1>2, <1>3
<1>5. \A r \in S : r.sequence <= q.sequence
  BY <1>4
<1> QED BY <1>5 DEF Newest

-----------------------------------------------------------------------------
(* The disk as a record, and an operation as a record with an identity, a    *)
(* sequence and a flag.                                                      *)
DiskFields == {"notes", "queue", "sequence", "created", "rejected", "conflicts"}

Formed(q) ==
  /\ q = [id |-> q.id, sequence |-> q.sequence, attempted |-> q.attempted, type |-> q.type,
          note |-> q.note, base |-> q.base, text |-> q.text, baseText |-> q.baseText,
          pinned |-> q.pinned]
  /\ q.id \in Nat /\ q.sequence \in Nat \ {0} /\ q.attempted \in BOOLEAN

(* QueueOrdered, of any disk. *)
Ordered(d) ==
  /\ DOMAIN d = DiskFields
  /\ d.sequence \in Nat /\ d.created \in Nat
  /\ \A q \in d.queue : Formed(q) /\ q.sequence <= d.sequence /\ q.id <= d.created
  /\ \A q, r \in d.queue :
       /\ q.sequence = r.sequence => q = r
       /\ q.sequence < r.sequence => q.id < r.id /\ (r.attempted => q.attempted)

(* Two disks with the same queue. *)
Beside(d, e) ==
  /\ DOMAIN e = DiskFields
  /\ e.queue = d.queue /\ e.sequence = d.sequence /\ e.created = d.created

(* The same slot of the queue before and after a transaction: its payload    *)
(* stays once it was sent.                                                   *)
SameSlot(p, q) ==
  /\ q.id = p.id /\ q.sequence = p.sequence /\ q.attempted = p.attempted
  /\ p.attempted => q = p

Fresh(d, q) == d.sequence < q.sequence /\ d.created < q.id /\ ~q.attempted

(* What the transactions of this program do to a queue, apart from claiming  *)
(* and quarantining: operations that were not sent are rewritten, new ones   *)
(* are appended, and those in gone leave.                                    *)
Rewrites(d, e, gone) ==
  /\ Ordered(e) /\ d.sequence <= e.sequence
  /\ \A q \in e.queue : (\E p \in d.queue : SameSlot(p, q)) \/ Fresh(d, q)
  /\ \A p \in d.queue : p \in gone \/ \E q \in e.queue : SameSlot(p, q)
  /\ \A p \in d.queue : p \in gone => \A r \in e.queue : r.id # p.id
  /\ \A s \in (d.sequence + 1) .. e.sequence : \E q \in e.queue : q.sequence = s

LEMMA BesideIsOrdered ==
  ASSUME NEW d, NEW e, Ordered(d), Beside(d, e)
  PROVE  Ordered(e) /\ Rewrites(d, e, {})
<1>1. Ordered(e)
  BY DEF Ordered, Beside
<1>2. \A q \in e.queue : q \in d.queue /\ SameSlot(q, q)
  BY DEF Beside, SameSlot
<1>3. \A q \in d.queue : q \in e.queue
  BY DEF Beside
<1>4. \A s \in (d.sequence + 1) .. e.sequence : FALSE
  BY DEF Ordered, Beside
<1>5. d.sequence <= e.sequence
  BY DEF Ordered, Beside
<1> QED BY <1>1, <1>2, <1>3, <1>4, <1>5 DEF Rewrites

(* The operators that write beside the queue. *)
LEMMA PutNoteBeside ==
  ASSUME NEW d, NEW e, Beside(d, e), NEW n, NEW note
  PROVE  Beside(d, PutNote(e, n, note)) /\ Beside(d, RemoveLocalNote(e, n))
BY DEF Beside, PutNote, RemoveLocalNote, DiskFields

LEMMA ConflictBeside ==
  ASSUME NEW d, NEW e, Beside(d, e), NEW n, NEW c
  PROVE  Beside(d, [e EXCEPT !.conflicts[n] = c])
BY DEF Beside, DiskFields

LEMMA BesideReflexive ==
  ASSUME NEW d, Ordered(d)
  PROVE  Beside(d, d)
BY DEF Beside, Ordered

(* Rewriting the operations one by one, with their identities and sequences, *)
(* keeps the order if what was sent stays before what was not.               *)
LEMMA MappedIsOrdered ==
  ASSUME NEW d, Ordered(d), NEW e, DOMAIN e = DiskFields,
         e.sequence = d.sequence, e.created = d.created,
         NEW f, e.queue = {f[p] : p \in d.queue},
         \A p \in d.queue : Formed(f[p]) /\ f[p].id = p.id /\ f[p].sequence = p.sequence,
         \A p, q \in d.queue : p.sequence < q.sequence /\ f[q].attempted => f[p].attempted
  PROVE  Ordered(e)
<1>1. \A r \in e.queue : \E p \in d.queue : r = f[p]
  OBVIOUS
<1>2. \A r \in e.queue : Formed(r) /\ r.sequence <= e.sequence /\ r.id <= e.created
  BY <1>1 DEF Ordered
<1>3. ASSUME NEW r \in e.queue, NEW s \in e.queue
      PROVE  /\ r.sequence = s.sequence => r = s
             /\ r.sequence < s.sequence => r.id < s.id /\ (s.attempted => r.attempted)
  <2>1. PICK p \in d.queue : r = f[p]
    BY <1>1
  <2>2. PICK q \in d.queue : s = f[q]
    BY <1>1
  <2>3. /\ p.sequence = q.sequence => p = q
        /\ p.sequence < q.sequence => p.id < q.id
    BY DEF Ordered
  <2> QED BY <2>1, <2>2, <2>3
<1> QED BY <1>2, <1>3 DEF Ordered

(* The same for operations whose flags stay and whose payload changes only   *)
(* before they are sent.                                                     *)
LEMMA MappingRewrites ==
  ASSUME NEW d, Ordered(d), NEW e, DOMAIN e = DiskFields,
         e.sequence = d.sequence, e.created = d.created,
         NEW f, e.queue = {f[p] : p \in d.queue},
         \A p \in d.queue : Formed(f[p]) /\ SameSlot(p, f[p])
  PROVE  Rewrites(d, e, {})
<1>1. \A p \in d.queue : f[p].id = p.id /\ f[p].sequence = p.sequence /\ f[p].attempted = p.attempted
  BY DEF SameSlot
<1>2. \A p, q \in d.queue : p.sequence < q.sequence /\ f[q].attempted => f[p].attempted
  BY <1>1 DEF Ordered
<1>3. Ordered(e)
  BY <1>1, <1>2, MappedIsOrdered
<1>4. \A q \in e.queue : \E p \in d.queue : SameSlot(p, q)
  OBVIOUS
<1>5. \A p \in d.queue : \E q \in e.queue : SameSlot(p, q)
  OBVIOUS
<1>6. d.sequence <= e.sequence /\ \A s \in (d.sequence + 1) .. e.sequence : FALSE
  BY DEF Ordered
<1> QED BY <1>3, <1>4, <1>5, <1>6 DEF Rewrites

(* One operation of the queue that was not sent gets another payload. *)
LEMMA ReplacingRewrites ==
  ASSUME NEW d, Ordered(d), NEW b, Beside(d, b), NEW p \in d.queue, ~p.attempted, NEW q,
         Formed(q), q.id = p.id, q.sequence = p.sequence, q.attempted = p.attempted
  PROVE  Rewrites(d, ReplaceOperation(b, p, q), {})
<1> DEFINE e == ReplaceOperation(b, p, q)
           f == [r \in d.queue |-> IF r = p THEN q ELSE r]
<1>1. DOMAIN e = DiskFields /\ e.sequence = d.sequence /\ e.created = d.created
  BY DEF ReplaceOperation, Beside, DiskFields
<1>2. e.queue = (d.queue \ {p}) \cup {q}
  BY DEF ReplaceOperation, Beside, DiskFields
<1>3. e.queue = {f[r] : r \in d.queue}
  BY <1>2
<1>4. \A r \in d.queue : Formed(f[r]) /\ SameSlot(r, f[r])
  BY DEF Ordered, SameSlot
<1> HIDE DEF e, f
<1> QED BY <1>1, <1>3, <1>4, MappingRewrites DEF e

(* A new operation gets the next sequence and the next identity. *)
LEMMA AppendingRewrites ==
  ASSUME NEW d, Ordered(d), NEW e, DOMAIN e = DiskFields, NEW q,
         e.sequence = d.sequence + 1, e.created = d.created + 1, e.queue = d.queue \cup {q},
         Formed(q), q.id = e.created, q.sequence = e.sequence, q.attempted = FALSE
  PROVE  Rewrites(d, e, {})
<1>1. Fresh(d, q)
  BY DEF Fresh, Ordered
<1>2. \A r \in d.queue : SameSlot(r, r)
  BY DEF SameSlot
<1>3. e.sequence \in Nat /\ e.created \in Nat /\ d.sequence <= e.sequence
  BY DEF Ordered
<1>4. \A r \in e.queue : Formed(r) /\ r.sequence <= e.sequence /\ r.id <= e.created
  BY DEF Ordered, Formed
<1>5. \A r, s \in e.queue :
        /\ r.sequence = s.sequence => r = s
        /\ r.sequence < s.sequence => r.id < s.id /\ (s.attempted => r.attempted)
  BY DEF Ordered, Formed
<1>6. Ordered(e)
  BY <1>3, <1>4, <1>5 DEF Ordered
<1>7. \A s \in (d.sequence + 1) .. e.sequence : q \in e.queue /\ q.sequence = s
  BY DEF Ordered
<1> QED BY <1>1, <1>2, <1>3, <1>6, <1>7 DEF Rewrites

(* queueOperationInStores rewrites or appends. *)
LEMMA QueueingRewrites ==
  ASSUME NEW d, Ordered(d), NEW b, Beside(d, b), NEW request
  PROVE  Rewrites(d, QueueOperation(b, request), {})
<1> DEFINE c       == [b EXCEPT !.rejected = @ \ {request.note}]
           initial == InitialSaves(c, request.note)
           same    == Coalescable(c, request)
<1>1. Beside(d, c)
  BY DEF Beside, DiskFields
<1>2. initial \subseteq d.queue /\ \A q \in initial : ~q.attempted
  BY <1>1 DEF InitialSaves, Queued, Beside
<1>3. same \subseteq d.queue /\ \A q \in same : ~q.attempted
  BY <1>1 DEF Coalescable, Queued, Beside
<1>4. \A S : S # {} /\ S \subseteq d.queue => Newest(S) \in S
  <2> SUFFICES ASSUME NEW S, S # {}, S \subseteq d.queue PROVE Newest(S) \in S
    OBVIOUS
  <2>1. \A q \in S : q.sequence \in Nat /\ q.sequence <= d.sequence
    BY DEF Ordered, Formed
  <2>2. d.sequence \in Nat
    BY DEF Ordered
  <2> QED BY <2>1, <2>2, NewestExists
<1>5. CASE request.type = "note.pin" /\ initial # {}
  <2> DEFINE p == Newest(initial)
             q == [p EXCEPT !.pinned = request.pinned]
  <2>1. p \in d.queue /\ ~p.attempted
    BY <1>2, <1>4, <1>5
  <2>2. Formed(p)
    BY <2>1 DEF Ordered
  <2>3. Formed(q) /\ q.id = p.id /\ q.sequence = p.sequence /\ q.attempted = p.attempted
    <3> HIDE DEF p
    <3> QED BY <2>2 DEF Formed
  <2>4. QueueOperation(b, request) = ReplaceOperation(c, p, q)
    BY <1>5 DEF QueueOperation
  <2> HIDE DEF p, q, c
  <2> QED BY <1>1, <2>1, <2>3, <2>4, ReplacingRewrites
<1>6. CASE ~(request.type = "note.pin" /\ initial # {}) /\ same # {}
  <2> DEFINE p == Newest(same)
             q == [p EXCEPT !.base = request.base, !.text = request.text,
                            !.baseText = request.baseText, !.pinned = request.pinned]
  <2>1. p \in d.queue /\ ~p.attempted
    BY <1>3, <1>4, <1>6
  <2>2. Formed(p)
    BY <2>1 DEF Ordered
  <2>3. Formed(q) /\ q.id = p.id /\ q.sequence = p.sequence /\ q.attempted = p.attempted
    <3> HIDE DEF p
    <3>1. PICK a : a = [p EXCEPT !.base = request.base, !.text = request.text]
      OBVIOUS
    <3>2. Formed(a) /\ a.id = p.id /\ a.sequence = p.sequence /\ a.attempted = p.attempted
      BY <2>2, <3>1 DEF Formed
    <3>3. q = [a EXCEPT !.baseText = request.baseText, !.pinned = request.pinned]
      BY <3>1
    <3> HIDE DEF q
    <3> QED BY <3>2, <3>3 DEF Formed
  <2>4. QueueOperation(b, request) = ReplaceOperation(c, p, q)
    BY <1>6 DEF QueueOperation
  <2> HIDE DEF p, q, c
  <2> QED BY <1>1, <2>1, <2>3, <2>4, ReplacingRewrites
<1>7. CASE ~(request.type = "note.pin" /\ initial # {}) /\ same = {}
  <2> DEFINE q == [id |-> c.created + 1, sequence |-> NextSequence(c),
                   attempted |-> FALSE, type |-> request.type,
                   note |-> request.note, base |-> request.base,
                   text |-> request.text, baseText |-> request.baseText,
                   pinned |-> request.pinned]
             e == [c EXCEPT !.sequence = NextSequence(c), !.created = @ + 1,
                            !.queue = @ \cup {q}]
  <2>1. QueueOperation(b, request) = e
    BY <1>7 DEF QueueOperation
  <2>2. NextSequence(c) = d.sequence + 1 /\ c.created + 1 = d.created + 1
    BY <1>1 DEF NextSequence, Beside
  <2>3. Formed(q) /\ q.id = d.created + 1 /\ q.sequence = d.sequence + 1 /\ q.attempted = FALSE
    BY <2>2 DEF Formed, Ordered
  <2>4. /\ DOMAIN e = DiskFields /\ e.sequence = d.sequence + 1 /\ e.created = d.created + 1
        /\ e.queue = d.queue \cup {q}
    <3> HIDE DEF q, c
    <3> QED BY <1>1, <2>2 DEF Beside, DiskFields
  <2> HIDE DEF q, c, e
  <2> QED BY <2>1, <2>3, <2>4, AppendingRewrites
<1> QED BY <1>5, <1>6, <1>7

(* The payload of a formed operation. *)
LEMMA PayloadFormed ==
  ASSUME NEW p, Formed(p), NEW v, NEW w
  PROVE  /\ Formed([p EXCEPT !.type = v])
         /\ Formed([p EXCEPT !.base = v, !.baseText = w])
         /\ Formed([p EXCEPT !.attempted = TRUE])
<1>1. Formed([p EXCEPT !.type = v])
  BY DEF Formed
<1>2. Formed([p EXCEPT !.base = v, !.baseText = w])
  <2>1. PICK r : r = [p EXCEPT !.base = v, !.baseText = w]
    OBVIOUS
  <2>2. Formed(r)
    BY <2>1 DEF Formed
  <2> QED BY <2>1, <2>2
<1>3. Formed([p EXCEPT !.attempted = TRUE])
  <2>1. PICK r : r = [p EXCEPT !.attempted = TRUE]
    OBVIOUS
  <2>2. Formed(r)
    BY <2>1 DEF Formed
  <2> QED BY <2>1, <2>2
<1> QED BY <1>1, <1>2, <1>3

LEMMA SupersedingRewrites ==
  ASSUME NEW d, Ordered(d), NEW b, Beside(d, b), NEW n, NEW after
  PROVE  Rewrites(d, Supersede(b, n, after), {})
<1> DEFINE e == Supersede(b, n, after)
           hit(q) == q.note = n /\ q.sequence > after /\ ~q.attempted
           f == [q \in d.queue |-> IF hit(q) THEN [q EXCEPT !.type = "noop"] ELSE q]
<1>1. DOMAIN e = DiskFields /\ e.sequence = d.sequence /\ e.created = d.created
  BY DEF Supersede, Beside, DiskFields
<1>2. e.queue = {f[q] : q \in d.queue}
  BY DEF Supersede, Beside, DiskFields
<1>3. ASSUME NEW q \in d.queue PROVE Formed(f[q]) /\ SameSlot(q, f[q])
  <2>1. Formed(q)
    BY DEF Ordered
  <2>2. PICK r : r = [q EXCEPT !.type = "noop"]
    OBVIOUS
  <2>3. Formed(r) /\ (~q.attempted => SameSlot(q, r))
    BY Zenon, <2>1, <2>2, PayloadFormed DEF SameSlot, Formed
  <2>4. SameSlot(q, q)
    BY DEF SameSlot
  <2>5. hit(q) => ~q.attempted
    OBVIOUS
  <2>6. f[q] = IF hit(q) THEN r ELSE q
    BY <2>2
  <2> HIDE DEF hit, f
  <2> QED BY <2>1, <2>3, <2>4, <2>5, <2>6
<1> HIDE DEF e, f
<1> QED BY <1>1, <1>2, <1>3, MappingRewrites DEF e

LEMMA RebasingRewrites ==
  ASSUME NEW d, Ordered(d), NEW b, Beside(d, b), NEW o, NEW revision, NEW text
  PROVE  Rewrites(d, Rebase(b, o, revision, text), {})
<1> DEFINE e == Rebase(b, o, revision, text)
           moved(q) == [q EXCEPT !.base = revision,
                                 !.baseText = IF q.type = "note.save" THEN text ELSE @]
           f == [q \in d.queue |-> IF q \in Rebasable(b, o) THEN moved(q) ELSE q]
<1>1. DOMAIN e = DiskFields /\ e.sequence = d.sequence /\ e.created = d.created
  BY DEF Rebase, Beside, DiskFields
<1>2. e.queue = {f[q] : q \in d.queue}
  BY Zenon DEF Rebase, Beside, DiskFields
<1>3. ASSUME NEW q \in d.queue PROVE Formed(f[q]) /\ SameSlot(q, f[q])
  <2>1. Formed(q)
    BY DEF Ordered
  <2>2. PICK w : w = IF q.type = "note.save" THEN text ELSE q.baseText
    OBVIOUS
  <2>3. PICK r : r = [q EXCEPT !.base = revision, !.baseText = w]
    OBVIOUS
  <2>4. Formed(r) /\ (~q.attempted => SameSlot(q, r))
    BY Zenon, <2>1, <2>3, PayloadFormed DEF SameSlot, Formed
  <2>5. SameSlot(q, q)
    BY DEF SameSlot
  <2>6. q \in Rebasable(b, o) => ~q.attempted
    BY DEF Rebasable
  <2>7. r = moved(q)
    BY <2>2, <2>3
  <2>8. f[q] = IF q \in Rebasable(b, o) THEN r ELSE q
    BY Zenon, <2>7
  <2> HIDE DEF f, moved
  <2> QED BY <2>1, <2>4, <2>5, <2>6, <2>8
<1> HIDE DEF e, f
<1> QED BY <1>1, <1>2, <1>3, MappingRewrites DEF e

(* What is written beside the queue afterwards does not matter. *)
LEMMA RewritesThenBeside ==
  ASSUME NEW d, NEW e, NEW b, NEW gone, Rewrites(d, e, gone), Beside(e, b)
  PROVE  Rewrites(d, b, gone)
<1>1. Ordered(b)
  BY BesideIsOrdered DEF Rewrites
<1> QED BY <1>1 DEF Rewrites, Beside

(* An operation that was sent leaves the queue. *)
LEMMA DroppingRewrites ==
  ASSUME NEW d, NEW e, NEW b, NEW o, Ordered(d), Rewrites(d, e, {}), Beside(e, b),
         o \in d.queue, o.attempted
  PROVE  Rewrites(d, Dequeue(b, o), {o})
<1> DEFINE c == Dequeue(b, o)
<1>1. /\ DOMAIN c = DiskFields /\ c.sequence = e.sequence /\ c.created = e.created
      /\ c.queue = e.queue \ {o}
  BY DEF Dequeue, Beside, DiskFields
<1> HIDE DEF c
<1>2. Ordered(c)
  BY <1>1 DEF Ordered, Rewrites
<1>3. \A p \in d.queue : \E q \in e.queue : SameSlot(p, q)
  BY DEF Rewrites
<1>4. o \in e.queue
  BY <1>3 DEF SameSlot
<1>5. \A p \in d.queue : p # o => p.sequence # o.sequence
  BY DEF Ordered
<1>6. \A p \in d.queue : p \in {o} \/ \E q \in c.queue : SameSlot(p, q)
  BY <1>1, <1>3, <1>5 DEF SameSlot
<1>7. \A r \in e.queue : r # o => r.id # o.id
  <2> TAKE r \in e.queue
  <2>1. Ordered(e)
    BY DEF Rewrites
  <2>2. r # o => r.sequence < o.sequence \/ o.sequence < r.sequence
    BY <1>4, <2>1 DEF Ordered, Formed
  <2>3. /\ r.sequence < o.sequence => r.id < o.id
        /\ o.sequence < r.sequence => o.id < r.id
        /\ r.id \in Nat /\ o.id \in Nat
    BY <1>4, <2>1 DEF Ordered, Formed
  <2> QED BY <2>2, <2>3
<1>8. \A s \in (d.sequence + 1) .. c.sequence : \E q \in c.queue : q.sequence = s
  <2> TAKE s \in (d.sequence + 1) .. c.sequence
  <2>1. PICK q \in e.queue : q.sequence = s
    BY <1>1 DEF Rewrites
  <2>2. o.sequence <= d.sequence /\ o.sequence \in Nat /\ d.sequence \in Nat
    BY DEF Ordered, Formed
  <2>3. q # o
    BY <2>1, <2>2
  <2> QED BY <1>1, <2>1, <2>3
<1>9. \A q \in c.queue : (\E p \in d.queue : SameSlot(p, q)) \/ Fresh(d, q)
  BY <1>1 DEF Rewrites
<1>10. d.sequence <= c.sequence
  BY <1>1 DEF Rewrites
<1> QED BY <1>1, <1>2, <1>6, <1>7, <1>8, <1>9, <1>10 DEF Rewrites, c

-----------------------------------------------------------------------------
(* The inductive invariant.                                                  *)

(* Records have their fields, counters and sequences are naturals.           *)
TaskFields == {"pc", "limit", "batch", "results", "target", "steps", "remote", "put", "conflict",
               "pinned", "laterSave"}

Shaped ==
  /\ Ordered(disk)
  /\ DOMAIN task = TaskFields
  /\ DOMAIN server = {"notes", "consumed", "results"} /\ server.consumed \in Nat

(* The queue has an operation for every sequence the server has not consumed *)
(* yet, and what it has consumed was sent.                                   *)
QueueComplete ==
  /\ \A s \in (server.consumed + 1) .. disk.sequence : \E q \in disk.queue : q.sequence = s
  /\ \A q \in disk.queue : q.sequence <= server.consumed => q.attempted

(* An operation that was sent keeps its identity under its sequence, and no  *)
(* other operation of the queue takes that sequence.                         *)
Claimed(q) ==
  /\ Formed(q) /\ q.attempted /\ q.sequence <= disk.sequence
  /\ \A r \in disk.queue : r.sequence = q.sequence => r.id = q.id /\ r.attempted

RequestsClaimed ==
  \A batch \in wire \cup {task.batch} :
    /\ \A q \in batch : Claimed(q)
    /\ \A q, r \in batch : q.sequence = r.sequence => q = r

(* A request never skips a sequence: the server, which expects the one after *)
(* the last it consumed, finds it in every request that has newer ones. The  *)
(* refusal of a gap in applySyncOperation, and repairSyncSequenceGap, which  *)
(* answers it, are for profiles that were restored from a copy.              *)
NoGap ==
  \A batch \in wire :
    \A q \in batch :
      \A s \in (server.consumed + 1) .. q.sequence : \E r \in batch : r.sequence = s

(* While a request is under way its operations stay in the queue; when its   *)
(* results are there the server has consumed all of them.                    *)
TaskFollows ==
  /\ task.pc \in {"idle", "sent"} => task.steps = <<>>
  /\ task.pc = "page" => task.steps = <<"open">>
  /\ task.pc \in {"idle", "page"} => task.batch = {}
  /\ task.pc \in {"sent", "acks"} => task.batch # {}
  /\ task.pc = "sent" => task.batch \subseteq disk.queue
  /\ task.pc = "acks" => \A q \in task.batch : q.sequence <= server.consumed
  /\ task.pc \in {"idle", "sent", "acks", "page"}

(* A stored result belongs to a sequence the server consumed, and to the     *)
(* operation the queue has under it.                                         *)
ResultsKnown ==
  /\ server.consumed <= disk.sequence
  /\ \A r \in server.results :
       /\ r.sequence \in Nat /\ r.sequence <= server.consumed
       /\ \A q \in disk.queue : q.sequence = r.sequence => q.id = r.id

Inv == Shaped /\ QueueComplete /\ RequestsClaimed /\ NoGap /\ TaskFollows /\ ResultsKnown

LEMMA InvIsEnough ==
  ASSUME Inv
  PROVE  QueueOrdered /\ ResultsMatchQueue
<1>1. QueueOrdered
  BY DEF Inv, Shaped, Ordered, QueueOrdered
<1>2. ResultsMatchQueue
  BY DEF Inv, QueueComplete, ResultsKnown, ResultsMatchQueue
<1> QED BY <1>1, <1>2

LEMMA InitInv == Init => Inv
<1> SUFFICES ASSUME Init PROVE Inv
  OBVIOUS
<1>1. disk.queue = {} /\ disk.sequence = 0 /\ disk.created = 0 /\ DOMAIN disk = DiskFields
  BY DEF Init, DiskFields
<1>2. /\ server.consumed = 0 /\ server.results = {}
      /\ DOMAIN server = {"notes", "consumed", "results"}
  BY DEF Init
<1>3. /\ task.pc = "idle" /\ task.batch = {} /\ task.steps = <<>> /\ DOMAIN task = TaskFields
      /\ wire = {}
  BY DEF Init, IdleTask, TaskFields
<1>4. Shaped
  BY <1>1, <1>2, <1>3 DEF Shaped, Ordered
<1>5. QueueComplete /\ ResultsKnown
  BY <1>1, <1>2 DEF QueueComplete, ResultsKnown
<1>6. RequestsClaimed /\ NoGap /\ TaskFollows
  BY <1>3 DEF RequestsClaimed, NoGap, TaskFollows
<1> QED BY <1>4, <1>5, <1>6 DEF Inv

(* What SentStaysAsItWas says of one step. *)
SentStays ==
  \A q \in disk.queue :
    q.attempted =>
      \/ q \in disk'.queue
      \/ \A r \in disk'.queue : r.id # q.id
      \/ \E r \in disk'.queue :
           r.id = q.id /\ r.sequence = q.sequence /\ r.type = "noop" /\ q.note \in disk'.rejected

-----------------------------------------------------------------------------
(* The steps of the push in progress that are not requests or answers.       *)
TaskMoves ==
  /\ DOMAIN task' = TaskFields
  /\ \/ /\ task'.pc = task.pc /\ task'.batch = task.batch
        /\ task.pc # "acks" => task'.steps = task.steps
     \/ task'.pc = "idle" /\ task'.batch = {} /\ task'.steps = <<>>
     \/ task'.pc = "page" /\ task'.batch = {} /\ task'.steps = <<"open">>
     \/ /\ task.pc = "acks" /\ task'.pc = "acks"
        /\ task'.batch \subseteq task.batch /\ task'.batch # {}

ServerKeeps ==
  /\ DOMAIN server' = {"notes", "consumed", "results"}
  /\ server'.consumed = server.consumed /\ server'.results \subseteq server.results

(* Every step that neither claims, nor delivers, nor refuses keeps Inv.      *)
LEMMA RewritingStep ==
  ASSUME Inv, NEW gone, Rewrites(disk, disk', gone), TaskMoves, ServerKeeps, wire' \subseteq wire,
         \A p \in gone : p \in disk.queue /\ p.attempted /\ p.sequence <= server.consumed,
         gone # {} => task.pc # "sent"
  PROVE  Inv' /\ SentStays
<1> USE DEF Inv
<1>1. Shaped'
  BY DEF Shaped, Rewrites, TaskMoves, ServerKeeps
<1>2. /\ disk.sequence \in Nat /\ disk'.sequence \in Nat /\ disk.sequence <= disk'.sequence
      /\ server.consumed \in Nat /\ server'.consumed = server.consumed
  BY <1>1 DEF Shaped, Ordered, Rewrites, ServerKeeps
<1>3. \A q \in disk.queue : q.sequence \in Nat /\ q.sequence <= disk.sequence
  BY DEF Shaped, Ordered, Formed
<1>4. \A q \in disk'.queue : q.sequence \in Nat /\ q.sequence <= disk'.sequence
  BY <1>1 DEF Shaped, Ordered, Formed
<1>5. QueueComplete'
  <2>1. ASSUME NEW s \in (server'.consumed + 1) .. disk'.sequence
        PROVE  \E q \in disk'.queue : q.sequence = s
    <3>1. CASE s <= disk.sequence
      <4>1. PICK p \in disk.queue : p.sequence = s
        BY <1>2, <3>1 DEF QueueComplete
      <4>2. p \notin gone
        BY <1>2, <4>1
      <4>3. PICK q \in disk'.queue : SameSlot(p, q)
        BY <4>2 DEF Rewrites
      <4> QED BY <4>1, <4>3 DEF SameSlot
    <3>2. CASE ~(s <= disk.sequence)
      <4>1. s \in (disk.sequence + 1) .. disk'.sequence
        BY <1>2, <3>2
      <4> QED BY <4>1 DEF Rewrites
    <3> QED BY <3>1, <3>2
  <2>2. ASSUME NEW q \in disk'.queue, q.sequence <= server'.consumed
        PROVE  q.attempted
    <3>1. ~Fresh(disk, q)
      BY <1>2, <1>4, <2>2 DEF Fresh, ResultsKnown
    <3>2. PICK p \in disk.queue : SameSlot(p, q)
      BY <3>1 DEF Rewrites
    <3> QED BY <1>2, <2>2, <3>2 DEF SameSlot, QueueComplete
  <2> QED BY <2>1, <2>2 DEF QueueComplete
<1>6. ASSUME NEW q, Claimed(q) PROVE Claimed(q)'
  <2>1. q.sequence \in Nat /\ q.sequence <= disk.sequence /\ q.attempted /\ Formed(q)
    BY <1>6 DEF Claimed, Formed
  <2>2. q.sequence <= disk'.sequence
    BY <1>2, <2>1
  <2>3. ASSUME NEW r \in disk'.queue, r.sequence = q.sequence
        PROVE  r.id = q.id /\ r.attempted
    <3>1. ~Fresh(disk, r)
      BY <1>2, <2>1, <2>3 DEF Fresh
    <3>2. PICK p \in disk.queue : SameSlot(p, r)
      BY <3>1 DEF Rewrites
    <3> QED BY <1>6, <2>3, <3>2 DEF SameSlot, Claimed
  <2> QED BY <2>1, <2>2, <2>3 DEF Claimed
<1>7. task'.batch = {} \/ task'.batch \subseteq task.batch
  BY DEF TaskMoves
<1>8. RequestsClaimed'
  <2> SUFFICES ASSUME NEW batch \in wire' \cup {task'.batch}
               PROVE  /\ \A q \in batch : Claimed(q)'
                      /\ \A q, r \in batch : q.sequence = r.sequence => q = r
    BY DEF RequestsClaimed
  <2>1. CASE batch \in wire
    BY <1>6, <2>1 DEF RequestsClaimed
  <2>2. CASE batch = task'.batch
    BY <1>6, <1>7, <2>2 DEF RequestsClaimed
  <2> QED BY <2>1, <2>2
<1>9. NoGap'
  BY <1>2 DEF NoGap
<1>10. TaskFollows'
  <2>1. CASE task'.pc = task.pc /\ task'.batch = task.batch /\ (task.pc # "acks" => task'.steps = task.steps)
    <3>1. task.pc = "sent" => task.batch \subseteq disk'.queue
      <4> SUFFICES ASSUME task.pc = "sent", NEW q \in task.batch PROVE q \in disk'.queue
        OBVIOUS
      <4>1. q \in disk.queue /\ q.attempted /\ q \notin gone
        BY DEF TaskFollows, RequestsClaimed, Claimed
      <4>2. PICK r \in disk'.queue : SameSlot(q, r)
        BY <4>1 DEF Rewrites
      <4> QED BY <4>1, <4>2 DEF SameSlot
    <3> QED BY <1>2, <2>1, <3>1 DEF TaskFollows
  <2>2. CASE \/ task'.pc = "idle" /\ task'.batch = {} /\ task'.steps = <<>>
             \/ task'.pc = "page" /\ task'.batch = {} /\ task'.steps = <<"open">>
    BY <2>2 DEF TaskFollows
  <2>3. CASE /\ task.pc = "acks" /\ task'.pc = "acks"
             /\ task'.batch \subseteq task.batch /\ task'.batch # {}
    BY <1>2, <2>3 DEF TaskFollows
  <2> QED BY <2>1, <2>2, <2>3 DEF TaskMoves
<1>11. ResultsKnown'
  <2>1. server'.consumed <= disk'.sequence
    BY <1>2 DEF ResultsKnown
  <2>2. ASSUME NEW r \in server'.results
        PROVE  /\ r.sequence \in Nat /\ r.sequence <= server'.consumed
               /\ \A q \in disk'.queue : q.sequence = r.sequence => q.id = r.id
    <3>1. r \in server.results
      BY DEF ServerKeeps
    <3>2. /\ r.sequence \in Nat /\ r.sequence <= server.consumed
          /\ \A q \in disk.queue : q.sequence = r.sequence => q.id = r.id
      BY <3>1 DEF ResultsKnown
    <3>3. ASSUME NEW q \in disk'.queue, q.sequence = r.sequence PROVE q.id = r.id
      <4>1. ~Fresh(disk, q)
        BY <1>2, <3>2, <3>3 DEF Fresh, ResultsKnown
      <4>2. PICK p \in disk.queue : SameSlot(p, q)
        BY <4>1 DEF Rewrites
      <4> QED BY <3>2, <3>3, <4>2 DEF SameSlot
    <3> QED BY <1>2, <3>2, <3>3
  <2> QED BY <2>1, <2>2 DEF ResultsKnown
<1>12. SentStays
  <2> SUFFICES ASSUME NEW q \in disk.queue, q.attempted
               PROVE  q \in disk'.queue \/ \A r \in disk'.queue : r.id # q.id
    BY DEF SentStays
  <2>1. CASE q \in gone
    BY <2>1 DEF Rewrites
  <2>2. CASE q \notin gone
    <3>1. PICK r \in disk'.queue : SameSlot(q, r)
      BY <2>2 DEF Rewrites
    <3> QED BY <3>1 DEF SameSlot
  <2> QED BY <2>1, <2>2
<1> QED BY <1>1, <1>5, <1>8, <1>9, <1>10, <1>11, <1>12

(* Marking operations of the queue, with their identities and sequences and  *)
(* without taking a mark back, keeps what is known of the requests under way.*)
LEMMA MarkingStep ==
  ASSUME Inv, Ordered(disk'), disk'.sequence = disk.sequence, server' = server,
         NEW f, disk'.queue = {f[p] : p \in disk.queue},
         \A p \in disk.queue : /\ f[p].id = p.id /\ f[p].sequence = p.sequence
                               /\ p.attempted => f[p].attempted
  PROVE  QueueComplete' /\ ResultsKnown' /\ \A q : Claimed(q) => Claimed(q)'
<1>1. \A r \in disk'.queue : \E p \in disk.queue : r = f[p]
  OBVIOUS
<1>2. \A p \in disk.queue : f[p] \in disk'.queue
  OBVIOUS
<1>3. QueueComplete'
  BY <1>1, <1>2 DEF Inv, QueueComplete
<1>4. ResultsKnown'
  BY <1>1 DEF Inv, ResultsKnown
<1>5. \A q : Claimed(q) => Claimed(q)'
  BY <1>1 DEF Claimed
<1> QED BY <1>3, <1>4, <1>5

(* A batch is claimed and sent: it is a front part of the queue. *)
LEMMA ClaimingStep ==
  ASSUME Inv, SendBatch
  PROVE  Inv' /\ SentStays
<1> USE DEF Inv
<1>1. PICK B \in Claimable(disk, task.limit) \cup Claimable(disk, BatchLimit) :
        /\ task.pc = "idle"
        /\ disk' = Claim(disk, B)
        /\ task' = [task EXCEPT !.pc = "sent", !.batch = Attempted(B)]
        /\ wire' = wire \cup {Attempted(B)}
        /\ server' = server
  BY Zenon DEF SendBatch
<1>2. /\ B \subseteq disk.queue /\ B # {}
      /\ \A q \in B, r \in disk.queue : r.sequence < q.sequence => r \in B
  BY <1>1 DEF Claimable
<1> DEFINE f == [p \in disk.queue |-> IF p \in B THEN [p EXCEPT !.attempted = TRUE] ELSE p]
<1>3. /\ DOMAIN disk' = DiskFields /\ disk'.sequence = disk.sequence /\ disk'.created = disk.created
      /\ disk'.queue = (disk.queue \ B) \cup Attempted(B)
  BY <1>1 DEF Claim, Shaped, Ordered, DiskFields
<1>4. disk'.queue = {f[p] : p \in disk.queue}
  BY <1>2, <1>3 DEF Attempted
<1>5. ASSUME NEW p \in disk.queue
      PROVE  /\ Formed(f[p]) /\ f[p].id = p.id /\ f[p].sequence = p.sequence
             /\ f[p].attempted = (p.attempted \/ p \in B)
             /\ p.attempted => f[p] = p
  <2>1. Formed(p)
    BY DEF Shaped, Ordered
  <2>2. PICK r : r = [p EXCEPT !.attempted = TRUE]
    OBVIOUS
  <2>3. Formed(r) /\ r.id = p.id /\ r.sequence = p.sequence /\ r.attempted = TRUE
    BY Zenon, <2>1, <2>2, PayloadFormed DEF Formed
  <2>4. p.attempted => r = p
    BY <2>1, <2>2 DEF Formed
  <2>5. f[p] = IF p \in B THEN r ELSE p
    BY <2>2
  <2>6. p.attempted \in BOOLEAN
    BY <2>1 DEF Formed
  <2> HIDE DEF f
  <2>7. CASE p \in B
    BY <2>3, <2>4, <2>5, <2>7
  <2>8. CASE p \notin B
    BY <2>1, <2>5, <2>6, <2>8
  <2> QED BY <2>7, <2>8
<1> HIDE DEF f
<1>6. \A p \in B : f[p] \in Attempted(B)
  BY <1>2 DEF f, Attempted
<1>7. \A a \in Attempted(B) : \E p \in B : a = f[p]
  BY <1>2 DEF f, Attempted
<1>8. Ordered(disk')
  <2>1. Ordered(disk)
    BY DEF Shaped
  <2>2. \A p, q \in disk.queue : p.sequence < q.sequence /\ f[q].attempted => f[p].attempted
    BY <1>2, <1>5, <2>1 DEF Ordered
  <2> QED BY <1>3, <1>4, <1>5, <2>1, <2>2, MappedIsOrdered
<1>9. QueueComplete' /\ ResultsKnown' /\ \A q : Claimed(q) => Claimed(q)'
  BY <1>1, <1>3, <1>4, <1>5, <1>8, MarkingStep
<1>10. /\ DOMAIN task' = TaskFields /\ task'.pc = "sent" /\ task'.batch = Attempted(B)
       /\ task'.steps = task.steps
  BY <1>1 DEF Shaped, TaskFields
<1>11. Shaped'
  BY <1>1, <1>8, <1>10 DEF Shaped
<1>12. \A a \in Attempted(B) : a \in disk'.queue /\ a.attempted /\ a.sequence \in Nat
  <2> TAKE a \in Attempted(B)
  <2>1. PICK p \in B : a = f[p]
    BY <1>7
  <2> QED BY <1>2, <1>4, <1>5, <2>1 DEF Formed
<1>13. \A a \in Attempted(B) : Claimed(a)'
  <2> TAKE a \in Attempted(B)
  <2>1. a \in disk'.queue /\ a.attempted
    BY <1>12
  <2>2. \A r \in disk'.queue : r.sequence = a.sequence => r = a
    BY <1>8, <2>1 DEF Ordered
  <2> QED BY <1>8, <2>1, <2>2 DEF Claimed, Ordered
<1>14. \A q, r \in Attempted(B) : q.sequence = r.sequence => q = r
  BY <1>8, <1>12 DEF Ordered
<1>15. RequestsClaimed'
  <2> SUFFICES ASSUME NEW batch \in wire' \cup {task'.batch}
               PROVE  /\ \A q \in batch : Claimed(q)'
                      /\ \A q, r \in batch : q.sequence = r.sequence => q = r
    BY DEF RequestsClaimed
  <2>1. CASE batch \in wire
    BY <1>9, <2>1 DEF RequestsClaimed
  <2>2. CASE batch = Attempted(B)
    BY <1>13, <1>14, <2>2
  <2> QED BY <1>1, <1>10, <2>1, <2>2
<1>16. NoGap'
  <2> SUFFICES ASSUME NEW batch \in wire', NEW a \in batch, NEW s \in (server.consumed + 1) .. a.sequence
               PROVE  \E r \in batch : r.sequence = s
    BY <1>1 DEF NoGap
  <2>1. CASE batch \in wire
    BY <2>1 DEF NoGap
  <2>2. CASE batch = Attempted(B)
    <3>1. PICK p \in B : a = f[p]
      BY <1>7, <2>2
    <3>2. a.sequence = p.sequence /\ p \in disk.queue
      BY <1>2, <1>5, <3>1
    <3>3. p.sequence \in Nat /\ p.sequence <= disk.sequence /\ disk.sequence \in Nat /\ server.consumed \in Nat
      BY <3>2 DEF Shaped, Ordered, Formed
    <3>4. s \in (server.consumed + 1) .. disk.sequence
      BY <3>2, <3>3
    <3>5. PICK q \in disk.queue : q.sequence = s
      BY <3>4 DEF QueueComplete
    <3>6. q \in B
      <4>1. CASE q.sequence < p.sequence
        BY <1>2, <4>1
      <4>2. CASE q.sequence = p.sequence
        BY <3>2, <4>2 DEF Shaped, Ordered
      <4> QED BY <3>2, <3>3, <3>5, <4>1, <4>2
    <3> QED BY <1>5, <1>6, <2>2, <3>5, <3>6
  <2> QED BY <1>1, <2>1, <2>2
<1>17. TaskFollows'
  <2>1. task.steps = <<>>
    BY <1>1 DEF TaskFollows
  <2>2. Attempted(B) # {}
    BY <1>2 DEF Attempted
  <2>3. Attempted(B) \subseteq disk'.queue
    BY <1>12
  <2> QED BY <1>10, <2>1, <2>2, <2>3 DEF TaskFollows
<1>18. SentStays
  BY <1>4, <1>5 DEF SentStays
<1> QED BY <1>9, <1>11, <1>15, <1>16, <1>17, <1>18

(* The server consumes what is new in a request that arrives. *)
LEMMA ReceivingStep ==
  ASSUME Inv, NEW batch \in wire, server' = ApplyBatch(server, batch), wire' \subseteq wire,
         disk' = disk, DOMAIN task' = TaskFields,
         \/ task' = task
         \/ /\ task.pc = "sent" /\ task'.pc = "acks"
            /\ task.batch = batch /\ task'.batch = task.batch
  PROVE  Inv' /\ SentStays
<1> USE DEF Inv
<1> DEFINE new == {q \in batch : ~IsReplay(server, q)}
<1>1. /\ DOMAIN server' = {"notes", "consumed", "results"}
      /\ server'.consumed = IF new = {} THEN server.consumed ELSE Newest(new).sequence
      /\ server'.results = server.results \cup {Outcome(server, q) : q \in new}
  BY DEF ApplyBatch
<1>2. \A q \in batch : Claimed(q) /\ q.sequence \in Nat /\ q.sequence <= disk.sequence
  BY DEF RequestsClaimed, Claimed, Formed
<1>3. /\ server.consumed \in Nat /\ disk.sequence \in Nat /\ server.consumed <= disk.sequence
  BY DEF Shaped, Ordered, ResultsKnown
<1>4. /\ server'.consumed \in Nat
      /\ server.consumed <= server'.consumed /\ server'.consumed <= disk.sequence
      /\ \A q \in batch : q.sequence <= server'.consumed
      /\ server'.consumed = server.consumed \/ \E q \in batch : q.sequence = server'.consumed
  <2>1. CASE new = {}
    <3>1. \A q \in batch : q.sequence <= server.consumed
      BY <2>1 DEF IsReplay
    <3> QED BY <1>1, <1>3, <2>1, <3>1
  <2>2. CASE new # {}
    <3>1. \A q \in new : q.sequence \in Nat /\ q.sequence <= disk.sequence
      BY <1>2
    <3>2. Newest(new) \in new /\ \A r \in new : r.sequence <= Newest(new).sequence
      <4> HIDE DEF new
      <4> QED BY <1>3, <2>2, <3>1, NewestExists
    <3>3. PICK z \in new : z = Newest(new) /\ \A r \in new : r.sequence <= z.sequence
      BY <3>2
    <3>4. server'.consumed = z.sequence
      BY <1>1, <2>2, <3>3
    <3>5. z \in batch /\ ~(z.sequence <= server.consumed)
      BY DEF IsReplay
    <3>6. \A q \in batch : q \in new \/ q.sequence <= server.consumed
      BY DEF IsReplay
    <3>7. /\ z.sequence \in Nat /\ z.sequence <= disk.sequence
          /\ server.consumed < z.sequence
      BY <1>2, <1>3, <3>5
    <3>8. \A q \in batch : q.sequence <= z.sequence
      <4> TAKE q \in batch
      <4>1. CASE q \in new
        BY <3>3, <4>1
      <4>2. CASE q.sequence <= server.consumed
        BY <1>2, <1>3, <3>7, <4>2
      <4> QED BY <3>6, <4>1, <4>2
    <3> HIDE DEF new
    <3> QED BY <1>3, <3>4, <3>5, <3>7, <3>8
  <2> QED BY <2>1, <2>2
<1> HIDE DEF new
<1>5. Shaped'
  BY <1>1, <1>4 DEF Shaped
<1>6. QueueComplete'
  <2>1. \A s \in (server'.consumed + 1) .. disk'.sequence : \E q \in disk'.queue : q.sequence = s
    BY <1>3, <1>4 DEF QueueComplete
  <2>2. ASSUME NEW q \in disk.queue, q.sequence <= server'.consumed, ~(q.sequence <= server.consumed)
        PROVE  q.attempted
    <3>1. PICK z \in batch : z.sequence = server'.consumed
      BY <1>4, <2>2
    <3>2. q.sequence \in Nat
      BY DEF Shaped, Ordered, Formed
    <3>3. q.sequence \in (server.consumed + 1) .. z.sequence
      BY <1>3, <1>4, <2>2, <3>1, <3>2
    <3>4. PICK r \in batch : r.sequence = q.sequence
      BY <3>3 DEF NoGap
    <3> QED BY <1>2, <3>4 DEF Claimed
  <2> QED BY <2>1, <2>2 DEF QueueComplete
<1>7. RequestsClaimed'
  <2>1. task'.batch = task.batch
    OBVIOUS
  <2>2. \A q : Claimed(q) => Claimed(q)'
    BY DEF Claimed
  <2> QED BY <2>1, <2>2 DEF RequestsClaimed
<1>8. NoGap'
  <2> SUFFICES ASSUME NEW b \in wire', NEW q \in b, NEW s \in (server'.consumed + 1) .. q.sequence
               PROVE  \E r \in b : r.sequence = s
    BY DEF NoGap
  <2>1. q.sequence \in Nat
    BY DEF RequestsClaimed, Claimed, Formed
  <2>2. s \in (server.consumed + 1) .. q.sequence
    BY <1>3, <1>4, <2>1
  <2> QED BY <2>2 DEF NoGap
<1>9. TaskFollows'
  <2>1. CASE task' = task
    <3>1. task.pc = "acks" => \A q \in task.batch : q.sequence <= server'.consumed
      <4> SUFFICES ASSUME task.pc = "acks", NEW q \in task.batch PROVE q.sequence <= server'.consumed
        OBVIOUS
      <4>1. q.sequence <= server.consumed /\ q.sequence \in Nat
        BY DEF TaskFollows, RequestsClaimed, Claimed, Formed
      <4> QED BY <1>3, <1>4, <4>1
    <3> QED BY <2>1, <3>1 DEF TaskFollows
  <2>2. CASE /\ task.pc = "sent" /\ task'.pc = "acks"
             /\ task.batch = batch /\ task'.batch = task.batch
    BY <1>4, <2>2 DEF TaskFollows
  <2> QED BY <2>1, <2>2
<1>10. ResultsKnown'
  <2>1. ASSUME NEW r \in server'.results
        PROVE  /\ r.sequence \in Nat /\ r.sequence <= server'.consumed
               /\ \A q \in disk.queue : q.sequence = r.sequence => q.id = r.id
    <3>1. CASE r \in server.results
      BY <1>3, <1>4, <3>1 DEF ResultsKnown
    <3>2. CASE r \notin server.results
      <4>1. PICK q \in batch : r = Outcome(server, q)
        BY <1>1, <3>2 DEF new
      <4>2. r.sequence = q.sequence /\ r.id = q.id
        BY <4>1 DEF Outcome
      <4> QED BY <1>2, <1>4, <4>2 DEF Claimed
    <3> QED BY <3>1, <3>2
  <2> QED BY <1>4, <2>1 DEF ResultsKnown
<1>11. SentStays
  BY DEF SentStays
<1> QED BY <1>5, <1>6, <1>7, <1>8, <1>9, <1>10, <1>11

(* An operation that was refused alone becomes a noop in its slot. *)
LEMMA QuarantineStep ==
  ASSUME Inv, task.pc = "sent", disk' = Quarantine(disk, Current), wire' \subseteq wire,
         server' = server, DOMAIN task' = TaskFields,
         task'.pc = "idle", task'.batch = {}, task'.steps = <<>>
  PROVE  Inv' /\ SentStays
<1> USE DEF Inv
<1>1. PICK o \in task.batch : o = Current
  <2>1. task.batch # {} /\ \A q \in task.batch : q.sequence \in Nat
    BY DEF TaskFollows, RequestsClaimed, Claimed, Formed
  <2> QED BY <2>1, OldestExists DEF Current
<1>2. o \in disk.queue /\ Formed(o)
  BY DEF TaskFollows, RequestsClaimed, Claimed
<1>3. PICK a : a = [o EXCEPT !.type = "noop", !.base = Absent]
  OBVIOUS
<1>4. Formed(a) /\ a.id = o.id /\ a.sequence = o.sequence /\ a.attempted = o.attempted /\ a.type = "noop"
  BY <1>2, <1>3 DEF Formed
<1>5. PICK noop : noop = [a EXCEPT !.text = {}, !.baseText = Absent]
  OBVIOUS
<1>6. /\ Formed(noop) /\ noop.id = o.id /\ noop.sequence = o.sequence
      /\ noop.attempted = o.attempted /\ noop.type = "noop"
  BY <1>4, <1>5 DEF Formed
<1>7. noop = [o EXCEPT !.type = "noop", !.base = Absent, !.text = {}, !.baseText = Absent]
  BY <1>3, <1>5
<1>8. disk' = [ReplaceOperation(disk, o, noop) EXCEPT !.rejected = @ \cup {o.note}]
  BY <1>1, <1>7 DEF Quarantine
<1>9. /\ DOMAIN disk' = DiskFields /\ disk'.sequence = disk.sequence /\ disk'.created = disk.created
      /\ disk'.queue = (disk.queue \ {o}) \cup {noop}
      /\ disk'.rejected = disk.rejected \cup {o.note}
  BY <1>8 DEF ReplaceOperation, Shaped, Ordered, DiskFields
<1> DEFINE f == [p \in disk.queue |-> IF p = o THEN noop ELSE p]
<1>10. disk'.queue = {f[p] : p \in disk.queue}
  BY <1>2, <1>9
<1>11. \A p \in disk.queue : /\ Formed(f[p]) /\ f[p].id = p.id /\ f[p].sequence = p.sequence
                             /\ f[p].attempted = p.attempted
  BY <1>6 DEF Shaped, Ordered
<1> HIDE DEF f
<1>12. Ordered(disk')
  <2>1. Ordered(disk)
    BY DEF Shaped
  <2>2. \A p, q \in disk.queue : p.sequence < q.sequence /\ f[q].attempted => f[p].attempted
    BY <1>11, <2>1 DEF Ordered
  <2> QED BY <1>9, <1>10, <1>11, <2>1, <2>2, MappedIsOrdered
<1>13. QueueComplete' /\ ResultsKnown' /\ \A q : Claimed(q) => Claimed(q)'
  BY <1>9, <1>10, <1>11, <1>12, MarkingStep
<1>14. Shaped'
  BY <1>12 DEF Shaped
<1>15. RequestsClaimed' /\ NoGap' /\ TaskFollows'
  BY <1>13 DEF RequestsClaimed, NoGap, TaskFollows
<1>16. SentStays
  BY <1>6, <1>9 DEF SentStays
<1> QED BY <1>13, <1>14, <1>15, <1>16

-----------------------------------------------------------------------------
(* The actions.                                                              *)
LEMMA DiskStands ==
  ASSUME Inv
  PROVE  Ordered(disk) /\ Beside(disk, disk) /\ Rewrites(disk, disk, {})
<1>1. Ordered(disk)
  BY DEF Inv, Shaped
<1>2. Beside(disk, disk)
  BY <1>1, BesideReflexive
<1> QED BY <1>1, <1>2, BesideIsOrdered

(* The user and the saver do not touch the push in progress. *)
LEMMA UserStep ==
  ASSUME Inv, Rewrites(disk, disk', {}), UNCHANGED <<task, wire, server>>
  PROVE  Inv' /\ SentStays
<1>1. TaskMoves
  BY DEF TaskMoves, Inv, Shaped
<1>2. ServerKeeps
  BY DEF ServerKeeps, Inv, Shaped
<1> QED BY <1>1, <1>2, RewritingStep

(* A disk with the same queue, or the outcome of one queued request. *)
LEMMA QueueingAside ==
  ASSUME Inv, NEW n, NEW note, NEW m, NEW c, NEW request
  PROVE  /\ Rewrites(disk, PutNote(disk, n, note), {})
         /\ Rewrites(disk, RemoveLocalNote(disk, n), {})
         /\ Rewrites(disk, [PutNote(disk, n, note) EXCEPT !.conflicts[m] = c], {})
         /\ Rewrites(disk, QueueOperation(disk, request), {})
         /\ Rewrites(disk, QueueOperation(PutNote(disk, n, note), request), {})
         /\ Rewrites(disk, QueueOperation(RemoveLocalNote(disk, n), request), {})
         /\ Rewrites(disk, RemoveLocalNote(QueueOperation(PutNote(disk, n, note), request), m), {})
         /\ Rewrites(disk, [disk EXCEPT !.conflicts[m] = c], {})
<1>1. Ordered(disk) /\ Beside(disk, disk)
  BY DiskStands
<1>2. Beside(disk, PutNote(disk, n, note)) /\ Beside(disk, RemoveLocalNote(disk, n))
  BY <1>1, PutNoteBeside
<1>3. Beside(disk, [PutNote(disk, n, note) EXCEPT !.conflicts[m] = c])
  BY <1>2, ConflictBeside
<1>4. Beside(disk, [disk EXCEPT !.conflicts[m] = c])
  BY <1>1, ConflictBeside
<1>5. PICK e : e = QueueOperation(PutNote(disk, n, note), request)
  OBVIOUS
<1>6. Rewrites(disk, e, {})
  BY <1>1, <1>2, <1>5, QueueingRewrites
<1>7. Beside(e, RemoveLocalNote(e, m))
  BY <1>6, BesideReflexive, PutNoteBeside DEF Rewrites
<1>8. Rewrites(disk, RemoveLocalNote(e, m), {})
  BY <1>6, <1>7, RewritesThenBeside
<1>9. /\ Rewrites(disk, PutNote(disk, n, note), {})
      /\ Rewrites(disk, RemoveLocalNote(disk, n), {})
      /\ Rewrites(disk, [PutNote(disk, n, note) EXCEPT !.conflicts[m] = c], {})
      /\ Rewrites(disk, [disk EXCEPT !.conflicts[m] = c], {})
  BY <1>1, <1>2, <1>3, <1>4, BesideIsOrdered
<1>10. /\ Rewrites(disk, QueueOperation(disk, request), {})
       /\ Rewrites(disk, QueueOperation(RemoveLocalNote(disk, n), request), {})
  BY <1>1, <1>2, QueueingRewrites
<1> QED BY <1>5, <1>6, <1>8, <1>9, <1>10

LEMMA ResolvesStep ==
  ASSUME Inv, NEW n, NEW after, NEW n2, NEW text, Rewrites(disk, after, {}), Resolves(n, after, n2, text)
  PROVE  Inv' /\ SentStays
<1>1. disk' = [after EXCEPT !.conflicts[n] = Absent] /\ UNCHANGED <<task, wire, server>>
  BY DEF Resolves, network
<1>2. Beside(after, disk')
  BY <1>1, BesideReflexive, ConflictBeside DEF Rewrites
<1>3. Rewrites(disk, disk', {})
  BY <1>2, RewritesThenBeside
<1> QED BY <1>1, <1>3, UserStep

LEMMA UserSteps ==
  ASSUME Inv, User
  PROVE  Inv' /\ SentStays
<1>1. ASSUME NEW n \in Notes, Open(n) \/ StartNewNote(n) \/ BeginPin(n) PROVE Inv' /\ SentStays
  BY <1>1, DiskStands, UserStep DEF Open, StartNewNote, BeginPin, network, asides
<1>2. CASE Close \/ Type \/ BeginSave \/ BeginDelete
  BY <1>2, DiskStands, UserStep DEF Close, Type, BeginSave, BeginDelete, network, asides
<1>3. CASE PersistNote
  <2>1. PICK n, saved : disk' = QueueOperation(PutNote(disk, n, saved), Save(n, saved.base, saved))
    BY <1>3 DEF PersistNote, SaveLocalNoteAndQueue
  <2>2. Rewrites(disk, disk', {})
    BY <2>1, QueueingAside
  <2> QED BY <1>3, <2>2, UserStep DEF PersistNote, network
<1>4. CASE PersistConflict
  <2>1. PICK n, local, c : disk' = [PutNote(disk, n, local) EXCEPT !.conflicts[n] = c]
    BY <1>4 DEF PersistConflict
  <2>2. Rewrites(disk, disk', {})
    BY <2>1, QueueingAside
  <2> QED BY <1>4, <2>2, UserStep DEF PersistConflict, network
<1>5. CASE DeleteNote
  <2>1. CASE disk' = RemoveLocalNoteAndSupersede(disk, chore.note, 0)
    <3>1. Ordered(disk) /\ Beside(disk, RemoveLocalNote(disk, chore.note))
      BY DiskStands, PutNoteBeside
    <3>2. Rewrites(disk, disk', {})
      BY <2>1, <3>1, SupersedingRewrites DEF RemoveLocalNoteAndSupersede
    <3> QED BY <1>5, <3>2, UserStep DEF DeleteNote, network
  <2>2. CASE \E request : disk' = QueueOperation(RemoveLocalNote(disk, chore.note), request)
    <3>1. Rewrites(disk, disk', {})
      BY <2>2, QueueingAside
    <3> QED BY <1>5, <3>1, UserStep DEF DeleteNote, network
  <2> QED BY <1>5, <2>1, <2>2 DEF DeleteNote
<1>6. CASE PinNote
  <2>1. PICK n, note, request : disk' = QueueOperation(PutNote(disk, n, note), request)
    BY <1>6 DEF PinNote
  <2>2. Rewrites(disk, disk', {})
    BY <2>1, QueueingAside
  <2> QED BY <1>6, <2>2, UserStep DEF PinNote, network
<1>7. ASSUME NEW n \in Notes, SaveResolution(n) PROVE Inv' /\ SentStays
  <2>1. PICK note, request, text :
          Resolves(n, QueueOperation(PutNote(disk, n, note), request), n, text)
    BY <1>7 DEF SaveResolution
  <2> QED BY <2>1, QueueingAside, ResolvesStep
<1>8. ASSUME NEW n \in Notes, AcceptDeletion(n) PROVE Inv' /\ SentStays
  <2>1. Resolves(n, RemoveLocalNote(disk, n), Absent, {})
    BY <1>8 DEF AcceptDeletion
  <2> QED BY <2>1, QueueingAside, ResolvesStep
<1>9. ASSUME NEW n \in Notes, NEW c \in Notes, KeepCopy(n, c) PROVE Inv' /\ SentStays
  <2>1. PICK copy, request, text, after :
          /\ Resolves(n, after, c, text)
          /\ \/ after = RemoveLocalNote(QueueOperation(PutNote(disk, c, copy), request), n)
             \/ after = QueueOperation(PutNote(disk, c, copy), request)
    BY <1>9 DEF KeepCopy
  <2>2. CASE after = RemoveLocalNote(QueueOperation(PutNote(disk, c, copy), request), n)
    <3>1. Rewrites(disk, after, {})
      BY <2>2, QueueingAside
    <3> QED BY <2>1, <3>1, ResolvesStep
  <2>3. CASE after = QueueOperation(PutNote(disk, c, copy), request)
    <3>1. Rewrites(disk, after, {})
      BY <2>3, QueueingAside
    <3> QED BY <2>1, <3>1, ResolvesStep
  <2> QED BY <2>1, <2>2, <2>3
<1> QED BY <1>1, <1>2, <1>3, <1>4, <1>5, <1>6, <1>7, <1>8, <1>9 DEF User

-----------------------------------------------------------------------------
(* Where the push in progress is, by what it does next. *)
LEMMA ProgramRuns ==
  ASSUME Inv, Step # "none"
  PROVE  /\ task.pc \in {"acks", "page"} /\ task.steps # <<>>
         /\ Step # "open" => task.pc = "acks"
<1>1. task.steps # <<>> /\ Step = Head(task.steps)
  BY DEF Step
<1>2. task.pc = "page" => Step = "open"
  BY <1>1 DEF Inv, TaskFollows
<1> QED BY <1>1, <1>2 DEF Inv, TaskFollows

(* The operation an acknowledgement is about was sent and consumed. *)
LEMMA CurrentConsumed ==
  ASSUME Inv, task.pc = "acks"
  PROVE  /\ Current \in task.batch /\ Formed(Current) /\ Current.attempted
         /\ Current.sequence <= server.consumed
<1>1. task.batch # {} /\ \A q \in task.batch : Claimed(q) /\ q.sequence \in Nat
  BY DEF Inv, TaskFollows, RequestsClaimed, Claimed, Formed
<1>2. Current \in task.batch
  BY <1>1, OldestExists DEF Current
<1> QED BY <1>1, <1>2 DEF Inv, TaskFollows, Claimed

LEMMA NextMoves ==
  ASSUME Inv, task.pc \in {"acks", "page"}, task' = NextAcknowledgement
  PROVE  TaskMoves
<1> DEFINE rest == {q \in task.batch : q # Current}
<1>1. CASE rest = {}
  BY <1>1 DEF NextAcknowledgement, TaskMoves, IdleTask, TaskFields
<1>2. CASE rest # {}
  <2>1. task.pc = "acks"
    BY <1>2 DEF Inv, TaskFollows
  <2>2. /\ DOMAIN task' = TaskFields /\ task'.pc = "acks" /\ task'.batch = rest
    BY <1>2 DEF NextAcknowledgement, IdleTask, TaskFields
  <2>3. rest \subseteq task.batch
    OBVIOUS
  <2> HIDE DEF rest
  <2> QED BY <1>2, <2>1, <2>2, <2>3 DEF TaskMoves
<1> QED BY <1>1, <1>2

LEMMA AdvanceMoves ==
  ASSUME Inv, Step # "none", Advance
  PROVE  TaskMoves
<1>1. task.pc \in {"acks", "page"}
  BY ProgramRuns
<1>2. CASE task' = NextAcknowledgement
  BY <1>1, <1>2, NextMoves
<1>3. CASE Len(task.steps) > 1 /\ task' = [task EXCEPT !.steps = Tail(task.steps)]
  <2>1. task.pc = "acks"
    <3> SUFFICES ASSUME task.pc = "page" PROVE FALSE
      BY <1>1
    <3>1. task.steps = <<"open">>
      BY DEF Inv, TaskFollows
    <3>2. Len(task.steps) = 1
      BY <3>1
    <3> QED BY <1>3, <3>2
  <2> QED BY <1>3, <2>1 DEF TaskMoves, Inv, Shaped, TaskFields
<1> QED BY <1>2, <1>3 DEF Advance, Then

(* A step of the program that leaves the queue alone, or rewrites it. *)
LEMMA ProgramStep ==
  ASSUME Inv, Rewrites(disk, disk', {}), TaskMoves, UNCHANGED <<wire, server>>
  PROVE  Inv' /\ SentStays
<1>1. ServerKeeps
  BY DEF ServerKeeps, Inv, Shaped
<1> QED BY <1>1, RewritingStep

(* An acknowledgement removes its operation if it is still in the queue. *)
LEMMA AcknowledgingStep ==
  ASSUME Inv, task.pc = "acks", TaskMoves, UNCHANGED <<wire, server>>,
         NEW e, NEW b, Rewrites(disk, e, {}), Beside(e, b),
         Current \in disk.queue, disk' = Dequeue(b, Current)
  PROVE  Inv' /\ SentStays
<1>1. /\ Current.attempted /\ Current.sequence <= server.consumed
  BY CurrentConsumed
<1>2. Rewrites(disk, disk', {Current})
  BY <1>1, DiskStands, DroppingRewrites
<1>3. ServerKeeps
  BY DEF ServerKeeps, Inv, Shaped
<1> QED BY <1>1, <1>2, <1>3, RewritingStep

(* The whole program at once: the queue, the answers and the next step.      *)
LEMMA RemovingStep ==
  ASSUME Inv, task.pc = "acks", TaskMoves, UNCHANGED <<wire, server>>,
         disk' = RemoveIfIdentityMatches(disk, Current)
  PROVE  Inv' /\ SentStays
<1>1. CASE Current \in disk.queue
  <2>1. disk' = Dequeue(disk, Current)
    BY <1>1 DEF RemoveIfIdentityMatches, IdentityMatches
  <2> QED BY <1>1, <2>1, DiskStands, AcknowledgingStep
<1>2. CASE Current \notin disk.queue
  <2>1. disk' = disk
    BY <1>2 DEF RemoveIfIdentityMatches, IdentityMatches
  <2> QED BY <2>1, DiskStands, ProgramStep
<1> QED BY <1>1, <1>2

LEMMA CommitStep ==
  ASSUME Inv, CommitApplied
  PROVE  Inv' /\ SentStays
<1>1. task.pc = "acks" /\ task' = NextAcknowledgement /\ UNCHANGED <<wire, server>>
  BY DEF CommitApplied, Acknowledging
<1>2. TaskMoves
  BY <1>1, NextMoves
<1>3. CASE IdentityMatches(disk, Current)
  <2>1. PICK revision : disk' = CommitNoteAcknowledgement(disk, Current, revision)
    BY <1>3 DEF CommitApplied
  <2>2. PICK base, note, e :
          /\ e = IF base = Absent THEN disk ELSE Rebase(disk, Current, revision, base)
          /\ disk' = Dequeue(PutNote(e, Current.note, note), Current)
    BY <2>1 DEF CommitNoteAcknowledgement
  <2>3. Rewrites(disk, e, {})
    BY <2>2, DiskStands, RebasingRewrites
  <2>4. Beside(e, PutNote(e, Current.note, note))
    BY <2>3, BesideReflexive, PutNoteBeside DEF Rewrites
  <2> QED BY <1>1, <1>2, <1>3, <2>2, <2>3, <2>4, AcknowledgingStep DEF IdentityMatches
<1>4. CASE ~IdentityMatches(disk, Current)
  <2>1. disk' = disk
    BY <1>4 DEF CommitApplied
  <2> QED BY <1>1, <1>2, <2>1, DiskStands, ProgramStep
<1> QED BY <1>3, <1>4

LEMMA ReconcileStep ==
  ASSUME Inv, Reconcile
  PROVE  Inv' /\ SentStays
<1>1. task.pc = "acks" /\ UNCHANGED <<wire, server>> /\ Step # "none"
  BY ProgramRuns DEF Reconcile
<1>2. CASE ~IdentityMatches(disk, Current)
  <2>1. disk' = disk /\ task' = IdleTask
    BY <1>2 DEF Reconcile
  <2>2. TaskMoves
    BY <2>1 DEF TaskMoves, IdleTask, TaskFields
  <2> QED BY <1>1, <2>1, <2>2, DiskStands, ProgramStep
<1>3. CASE IdentityMatches(disk, Current)
  <2>1. disk' = ReconcileCompacted(disk, Current, task.remote) /\ Advance
    BY <1>3 DEF Reconcile
  <2>2. TaskMoves
    BY <1>1, <2>1, AdvanceMoves
  <2>3. PICK note, e :
          /\ e = IF task.remote = Absent THEN disk
                 ELSE Rebase(disk, Current, task.remote.revision, task.remote.text)
          /\ disk' = Dequeue(PutNote(e, Current.note, note), Current)
    BY <2>1 DEF ReconcileCompacted
  <2>4. Rewrites(disk, e, {})
    BY <2>3, DiskStands, RebasingRewrites
  <2>5. Beside(e, PutNote(e, Current.note, note))
    BY <2>4, BesideReflexive, PutNoteBeside DEF Rewrites
  <2> QED BY <1>1, <1>3, <2>2, <2>3, <2>4, <2>5, AcknowledgingStep DEF IdentityMatches
<1> QED BY <1>2, <1>3

LEMMA DeletionStep ==
  ASSUME Inv, RecordDeletion
  PROVE  Inv' /\ SentStays
<1>1. task.pc = "acks" /\ UNCHANGED <<wire, server>> /\ Step # "none"
  BY ProgramRuns DEF RecordDeletion, user
<1>2. CASE ~IdentityMatches(disk, Current)
  <2>1. disk' = disk /\ task' = IdleTask
    BY <1>2 DEF RecordDeletion
  <2>2. TaskMoves
    BY <2>1 DEF TaskMoves, IdleTask, TaskFields
  <2> QED BY <1>1, <2>1, <2>2, DiskStands, ProgramStep
<1>3. CASE IdentityMatches(disk, Current)
  <2>1. disk' = RecordRemoteDeletion(disk, Current, task.put, BaseText(task.put)) /\ Advance
    BY <1>3 DEF RecordDeletion
  <2>2. TaskMoves
    BY <1>1, <2>1, AdvanceMoves
  <2>3. PICK note, c, kept, e :
          /\ kept = [PutNote(disk, Current.note, note) EXCEPT !.conflicts[Current.note] = c]
          /\ e = Supersede(kept, Current.note, Current.sequence)
          /\ disk' = Dequeue(e, Current)
    BY <2>1 DEF RecordRemoteDeletion
  <2>4. Beside(disk, kept)
    BY <2>3, DiskStands, PutNoteBeside, ConflictBeside
  <2>5. Rewrites(disk, e, {})
    BY <2>3, <2>4, DiskStands, SupersedingRewrites
  <2>6. Beside(e, e)
    BY <2>5, BesideReflexive DEF Rewrites
  <2> QED BY <1>1, <1>3, <2>2, <2>3, <2>5, <2>6, AcknowledgingStep DEF IdentityMatches
<1> QED BY <1>2, <1>3

LEMMA TransactStep ==
  ASSUME Inv, Transact
  PROVE  Inv' /\ SentStays
<1>1. /\ Step \in {"put", "supersede", "remove", "rebase", "queue", "queuePin"}
      /\ disk' = Transaction /\ Advance /\ UNCHANGED <<wire, server>>
  BY DEF Transact
<1>2. TaskMoves /\ task.pc = "acks"
  BY <1>1, AdvanceMoves, ProgramRuns
<1>3. CASE Step = "put"
  <2>1. disk' = PutNote(disk, Target, task.put)
    BY <1>1, <1>3 DEF Transaction
  <2> QED BY <1>1, <1>2, <2>1, QueueingAside, ProgramStep
<1>4. CASE Step = "supersede"
  <2>1. disk' = Supersede(disk, Target, Current.sequence)
    BY <1>1, <1>4 DEF Transaction
  <2> QED BY <1>1, <1>2, <2>1, DiskStands, SupersedingRewrites, ProgramStep
<1>5. CASE Step = "remove"
  <2>1. disk' = RemoveIfIdentityMatches(disk, Current)
    BY <1>1, <1>5 DEF Transaction
  <2> QED BY <1>1, <1>2, <2>1, RemovingStep
<1>6. CASE Step = "rebase"
  <2>1. disk' = Rebase(disk, Current, task.remote.revision, task.remote.text)
    BY <1>1, <1>6 DEF Transaction
  <2> QED BY <1>1, <1>2, <2>1, DiskStands, RebasingRewrites, ProgramStep
<1>7. CASE Step \in {"queue", "queuePin"}
  <2>1. PICK request : disk' = QueueOperation(disk, request)
    BY <1>1, <1>7 DEF Transaction
  <2> QED BY <1>1, <1>2, <2>1, QueueingAside, ProgramStep
<1> QED BY <1>1, <1>3, <1>4, <1>5, <1>6, <1>7

LEMMA PushSteps ==
  ASSUME Inv, Push
  PROVE  Inv' /\ SentStays
<1>1. CASE SendBatch
  BY <1>1, ClaimingStep
<1>2. CASE CommitApplied
  BY <1>2, CommitStep
<1>3. CASE RemoveAcknowledged
  <2>1. /\ task.pc = "acks" /\ task' = NextAcknowledgement /\ UNCHANGED <<wire, server>>
        /\ disk' = RemoveIfIdentityMatches(disk, Current)
    BY <1>3 DEF RemoveAcknowledged, Acknowledging
  <2> QED BY <2>1, NextMoves, RemovingStep
<1>4. CASE BeginFetch
  <2>1. /\ task.pc = "acks" /\ UNCHANGED <<disk, wire, server>>
        /\ task' = [task EXCEPT !.target = Current.note, !.steps = <<"fetch">>]
    BY <1>4 DEF BeginFetch, Acknowledging, Begin
  <2>2. TaskMoves
    BY <2>1 DEF TaskMoves, Inv, Shaped, TaskFields
  <2> QED BY <2>1, <2>2, DiskStands, ProgramStep
<1>5. CASE Fetch
  <2>1. /\ task.pc = "acks" /\ UNCHANGED <<disk, wire, server>>
        /\ \E remote, steps : task' = [task EXCEPT !.remote = remote, !.steps = steps]
    BY Zenon, <1>5, ProgramRuns DEF Fetch
  <2>2. TaskMoves
    BY <2>1 DEF TaskMoves, Inv, Shaped, TaskFields
  <2> QED BY <2>1, <2>2, DiskStands, ProgramStep
<1>6. CASE Flush
  <2>1. /\ task.pc = "acks" /\ UNCHANGED <<disk, wire, server>>
        /\ \E steps : task' = [task EXCEPT !.steps = steps]
    BY <1>6, ProgramRuns DEF Flush, Then
  <2>2. TaskMoves
    BY <2>1 DEF TaskMoves, Inv, Shaped, TaskFields
  <2> QED BY <2>1, <2>2, DiskStands, ProgramStep
<1>7. CASE Flushed
  <2>1. UNCHANGED <<disk, wire, server>> /\ Step # "none" /\ Advance
    BY <1>7 DEF Flushed
  <2> QED BY <2>1, AdvanceMoves, DiskStands, ProgramStep
<1>8. CASE Merge
  <2>1. /\ task.pc = "acks" /\ UNCHANGED <<disk, wire, server>>
        /\ \/ \E steps, put : task' = [task EXCEPT !.steps = steps, !.put = put]
           \/ \E steps : task' = [task EXCEPT !.steps = steps]
    BY Zenon, <1>8, ProgramRuns DEF Merge, Then
  <2>2. TaskMoves
    BY Zenon, <2>1 DEF TaskMoves, Inv, Shaped, TaskFields
  <2> QED BY Zenon, <2>1, <2>2, DiskStands, ProgramStep
<1>9. CASE Prepare
  <2>1. /\ task.pc = "acks" /\ UNCHANGED <<disk, wire, server>>
        /\ \/ \E steps, put : task' = [task EXCEPT !.steps = steps, !.put = put]
           \/ \E steps, put, conflict :
                task' = [task EXCEPT !.steps = steps, !.conflict = conflict, !.put = put]
    BY Zenon, <1>9, ProgramRuns DEF Prepare
  <2>2. TaskMoves
    BY Zenon, <2>1 DEF TaskMoves, Inv, Shaped, TaskFields
  <2> QED BY Zenon, <2>1, <2>2, DiskStands, ProgramStep
<1>10. CASE RecordDeletion
  BY <1>10, DeletionStep
<1>11. CASE SetConflict
  <2>1. /\ UNCHANGED <<wire, server>> /\ Step # "none" /\ Advance
        /\ disk' = [disk EXCEPT !.conflicts[Target] = task.conflict]
    BY <1>11 DEF SetConflict
  <2> QED BY <2>1, AdvanceMoves, QueueingAside, ProgramStep
<1>12. CASE ConflictedPin
  <2>1. /\ task.pc = "acks" /\ UNCHANGED <<disk, wire, server>>
        /\ \/ \E steps, put : task' = [task EXCEPT !.steps = steps, !.put = put]
           \/ \E laterSave, pinned, steps :
                task' = [task EXCEPT !.laterSave = laterSave, !.pinned = pinned, !.steps = steps]
    BY Zenon, <1>12, ProgramRuns DEF ConflictedPin
  <2>2. TaskMoves
    BY Zenon, <2>1 DEF TaskMoves, Inv, Shaped, TaskFields
  <2> QED BY Zenon, <2>1, <2>2, DiskStands, ProgramStep
<1>13. CASE ReadPinned
  <2>1. /\ task.pc = "acks" /\ UNCHANGED <<disk, wire, server>>
        /\ \E steps, put : task' = [task EXCEPT !.steps = steps, !.put = put]
    BY Zenon, <1>13, ProgramRuns DEF ReadPinned
  <2>2. TaskMoves
    BY <2>1 DEF TaskMoves, Inv, Shaped, TaskFields
  <2> QED BY <2>1, <2>2, DiskStands, ProgramStep
<1>14. CASE Transact
  BY <1>14, TransactStep
<1>15. CASE ShowOutcome
  <2>1. UNCHANGED <<disk, wire, server>> /\ Step # "none" /\ Advance
    BY <1>15 DEF ShowOutcome
  <2> QED BY <2>1, AdvanceMoves, DiskStands, ProgramStep
<1>16. CASE Reconcile
  BY <1>16, ReconcileStep
<1> QED BY <1>1, <1>2, <1>3, <1>4, <1>5, <1>6, <1>7, <1>8, <1>9, <1>10, <1>11, <1>12, <1>13,
           <1>14, <1>15, <1>16 DEF Push

-----------------------------------------------------------------------------
(* The server, the network, the pages and a closed tab. *)
LEMMA OtherSteps ==
  ASSUME Inv, Others
  PROVE  Inv' /\ SentStays
<1>1. ASSUME NEW batch \in wire, Reply(batch) \/ LateArrival(batch) PROVE Inv' /\ SentStays
  <2>1. /\ server' = ApplyBatch(server, batch) /\ wire' \subseteq wire /\ disk' = disk
    BY <1>1 DEF Reply, LateArrival, Receive
  <2>2. CASE Reply(batch)
    <3>1. /\ task.pc = "sent" /\ task.batch = batch
          /\ \E results : task' = [task EXCEPT !.pc = "acks", !.results = results]
      BY Zenon, <2>2 DEF Reply
    <3>2. DOMAIN task' = TaskFields /\ task'.pc = "acks" /\ task'.batch = task.batch
      BY <3>1 DEF Inv, Shaped, TaskFields
    <3> QED BY <2>1, <3>1, <3>2, ReceivingStep
  <2>3. CASE LateArrival(batch)
    <3>1. task' = task /\ DOMAIN task' = TaskFields
      BY <2>3 DEF LateArrival, Inv, Shaped
    <3> QED BY <2>1, <3>1, ReceivingStep
  <2> QED BY <1>1, <2>2, <2>3
<1>2. ASSUME NEW n \in Notes, RemoteEdit(n) \/ RemoteDelete(n) PROVE Inv' /\ SentStays
  <2>1. /\ UNCHANGED <<disk, task, wire>>
        /\ \E notes : server' = [server EXCEPT !.notes = notes]
    <3>1. CASE RemoteEdit(n)
      <4>1. UNCHANGED <<disk, task, wire>>
        BY <3>1 DEF RemoteEdit
      <4>2. PICK revision, text :
              server' = [server EXCEPT !.notes[n].revision = revision, !.notes[n].text = text]
        BY Zenon, <3>1 DEF RemoteEdit
      <4>3. server' = [server EXCEPT !.notes =
                         [[server.notes EXCEPT ![n].revision = revision] EXCEPT ![n].text = text]]
        BY <4>2 DEF Inv, Shaped
      <4> QED BY <4>1, <4>3
    <3>2. CASE RemoteDelete(n)
      <4>1. UNCHANGED <<disk, task, wire>>
        BY <3>2 DEF RemoteDelete
      <4>2. PICK row : server' = [server EXCEPT !.notes[n] = row]
        BY <3>2 DEF RemoteDelete
      <4>3. server' = [server EXCEPT !.notes = [server.notes EXCEPT ![n] = row]]
        BY <4>2
      <4> QED BY <4>1, <4>3
    <3> QED BY <1>2, <3>1, <3>2
  <2>2. ServerKeeps
    BY <2>1 DEF ServerKeeps, Inv, Shaped
  <2>3. TaskMoves
    BY <2>1 DEF TaskMoves, Inv, Shaped
  <2> QED BY <2>1, <2>2, <2>3, DiskStands, RewritingStep
<1>3. ASSUME NEW n \in Notes, ApplyPage(n) PROVE Inv' /\ SentStays
  <2>1. /\ task.pc = "idle" /\ UNCHANGED <<wire, server>>
        /\ \E note : disk' = PutNote(disk, n, note)
        /\ \/ task' = task
           \/ task' = [task EXCEPT !.pc = "page", !.target = n, !.steps = <<"open">>,
                                   !.put = disk'.notes[n]]
    BY <1>3 DEF ApplyPage
  <2>2. TaskMoves
    BY <2>1 DEF TaskMoves, Inv, Shaped, TaskFields, TaskFollows
  <2>3. PICK note : disk' = PutNote(disk, n, note)
    BY <2>1
  <2>4. Rewrites(disk, disk', {})
    BY <2>3, QueueingAside
  <2> QED BY <2>1, <2>2, <2>4, ProgramStep
<1>4. CASE LoseReply \/ FetchFails \/ Crash
  <2>1. UNCHANGED <<disk, wire, server>> /\ task' = IdleTask
    BY <1>4 DEF LoseReply, FetchFails, Crash
  <2>2. TaskMoves
    BY <2>1 DEF TaskMoves, IdleTask, TaskFields
  <2> QED BY <2>1, <2>2, DiskStands, ProgramStep
<1>5. CASE Refuse
  <2>1. /\ task.pc = "sent" /\ server' = server /\ wire' \subseteq wire
        /\ \/ disk' = disk
           \/ disk' = Quarantine(disk, Current)
        /\ \E limit : task' = [IdleTask EXCEPT !.limit = limit]
    BY <1>5 DEF Refuse
  <2>2. DOMAIN task' = TaskFields /\ task'.pc = "idle" /\ task'.batch = {} /\ task'.steps = <<>>
    BY <2>1 DEF IdleTask, TaskFields
  <2>3. CASE disk' = Quarantine(disk, Current)
    BY <2>1, <2>2, <2>3, QuarantineStep
  <2>4. CASE disk' = disk
    <3>1. TaskMoves
      BY <2>2 DEF TaskMoves
    <3>2. ServerKeeps
      BY <2>1 DEF ServerKeeps, Inv, Shaped
    <3> QED BY <2>1, <2>4, <3>1, <3>2, DiskStands, RewritingStep
  <2> QED BY <2>1, <2>3, <2>4
<1>6. CASE Forget
  <2>1. UNCHANGED <<disk, task, wire>>
    BY <1>6 DEF Forget
  <2>2. PICK r : server' = [server EXCEPT !.results = @ \ {r}]
    BY <1>6 DEF Forget
  <2>3. ServerKeeps
    BY <2>2 DEF ServerKeeps, Inv, Shaped
  <2>4. TaskMoves
    BY <2>1 DEF TaskMoves, Inv, Shaped
  <2> QED BY <2>1, <2>3, <2>4, DiskStands, RewritingStep
<1> QED BY <1>1, <1>2, <1>3, <1>4, <1>5, <1>6 DEF Others

LEMMA NextInv ==
  ASSUME Inv, [Next]_vars
  PROVE  Inv' /\ SentStays
<1>1. CASE User
  BY <1>1, UserSteps
<1>2. CASE Push
  BY <1>2, PushSteps
<1>3. CASE Others
  BY <1>3, OtherSteps
<1>4. CASE UNCHANGED vars
  BY <1>4, DiskStands, UserStep DEF vars
<1> QED BY <1>1, <1>2, <1>3, <1>4 DEF Next

(* The queue, the requests under way, the server's results and the push in   *)
(* progress fit together in every behaviour.                                 *)
THEOREM Invariant == Spec => []Inv
<1>1. Init => Inv
  BY InitInv
<1>2. Inv /\ [Next]_vars => Inv'
  BY NextInv
<1> QED BY <1>1, <1>2, PTL DEF Spec

(* queueOperationInStores, claim, quarantine and the rewriting of operations *)
(* keep the queue in the order in which its operations were created, and     *)
(* what was sent lies before what was not.                                   *)
THEOREM QueueOrderedHolds == Spec => []QueueOrdered
<1>1. Inv => QueueOrdered
  BY InvIsEnough
<1> QED BY <1>1, Invariant, PTL

(* An acknowledgement speaks of the operation the browser has under its      *)
(* sequence, whatever was lost, repeated, late, refused or quarantined.      *)
THEOREM ResultsMatchQueueHolds == Spec => []ResultsMatchQueue
<1>1. Inv => ResultsMatchQueue
  BY InvIsEnough
<1> QED BY <1>1, Invariant, PTL

(* No request of this browser, however late, has a gap before an operation   *)
(* the server has not consumed.                                              *)
THEOREM NoGapHolds == Spec => []NoGap
<1>1. Inv => NoGap
  BY DEF Inv
<1> QED BY <1>1, Invariant, PTL

(* An operation that was sent keeps its identity and payload until it leaves *)
(* the queue, or becomes a noop of a note that needs attention.              *)
THEOREM SentStaysAsItWasHolds == Spec => SentStaysAsItWas
<1>1. Inv /\ [Next]_vars => [SentStays]_vars
  BY NextInv
<1>2. [][SentStays]_vars => SentStaysAsItWas
  BY PTL DEF SentStaysAsItWas, SentStays
<1> QED BY <1>1, <1>2, Invariant, PTL DEF Spec

-----------------------------------------------------------------------------
(* The programs are put together from explicit parts. *)
LEMMA ConcatIs ==
  ASSUME NEW S, NEW s \in Seq(S), NEW t \in Seq(S), NEW u \in Seq(S), Len(u) = Len(s) + Len(t),
         \A i \in 1 .. Len(s) : u[i] = s[i],
         \A i \in 1 .. Len(t) : u[Len(s) + i] = t[i]
  PROVE  s \o t = u
<1>1. PICK w : w = s \o t
  OBVIOUS
<1>2. /\ w \in Seq(S) /\ Len(w) = Len(s) + Len(t)
      /\ \A i \in 1 .. Len(s) + Len(t) : w[i] = IF i <= Len(s) THEN s[i] ELSE t[i - Len(s)]
  BY <1>1, ConcatProperties
<1>3. Len(s) \in Nat /\ Len(t) \in Nat
  OBVIOUS
<1>4. ASSUME NEW i \in 1 .. Len(w) PROVE w[i] = u[i]
  <2>1. CASE i <= Len(s)
    BY <1>2, <1>3, <2>1
  <2>2. CASE ~(i <= Len(s))
    <3>1. PICK j : j = i - Len(s)
      OBVIOUS
    <3>2. j \in 1 .. Len(t) /\ i = Len(s) + j
      BY <1>2, <1>3, <2>2, <3>1
    <3>3. w[i] = t[j]
      BY <1>2, <1>3, <2>2, <3>1
    <3>4. u[i] = t[j]
      BY <3>2
    <3> QED BY <3>3, <3>4
  <2> QED BY <2>1, <2>2
<1>5. w = u
  BY <1>2, <1>4, SeqEqual
<1> QED BY <1>1, <1>5

LEMMA Concat1and1 ==
  ASSUME NEW a, NEW b
  PROVE  <<a>> \o <<b>> = <<a, b>>
<1> DEFINE S == {a, b}
<1>1. PICK s : s = <<a>>
  OBVIOUS
<1>2. PICK t : t = <<b>>
  OBVIOUS
<1>3. PICK u : u = <<a, b>>
  OBVIOUS
<1>4. Len(s) = 1 /\ Len(t) = 1 /\ Len(u) = 2
  BY <1>1, <1>2, <1>3
<1>5. s \in Seq(S) /\ t \in Seq(S) /\ u \in Seq(S)
  BY <1>1, <1>2, <1>3
<1>6. \A i \in 1 .. 1 : u[i] = s[i]
  BY <1>1, <1>3
<1>7. \A i \in 1 .. 1 : u[1 + i] = t[i]
  BY <1>2, <1>3
<1>8. /\ Len(u) = Len(s) + Len(t) /\ \A i \in 1 .. Len(s) : u[i] = s[i]
      /\ \A i \in 1 .. Len(t) : u[Len(s) + i] = t[i]
  BY <1>4, <1>6, <1>7
<1>9. s \o t = u
  BY <1>5, <1>8, ConcatIs
<1> QED BY <1>1, <1>2, <1>3, <1>9

LEMMA Concat1and3 ==
  ASSUME NEW a, NEW b, NEW c, NEW d
  PROVE  <<a>> \o <<b, c, d>> = <<a, b, c, d>>
<1> DEFINE S == {a, b, c, d}
<1>1. PICK s : s = <<a>>
  OBVIOUS
<1>2. PICK t : t = <<b, c, d>>
  OBVIOUS
<1>3. PICK u : u = <<a, b, c, d>>
  OBVIOUS
<1>4. Len(s) = 1 /\ Len(t) = 3 /\ Len(u) = 4
  BY <1>1, <1>2, <1>3
<1>5. s \in Seq(S) /\ t \in Seq(S) /\ u \in Seq(S)
  BY <1>1, <1>2, <1>3
<1>6. \A i \in 1 .. 1 : u[i] = s[i]
  BY <1>1, <1>3
<1>7. \A i \in 1 .. 3 : u[1 + i] = t[i]
  BY <1>2, <1>3
<1>8. /\ Len(u) = Len(s) + Len(t) /\ \A i \in 1 .. Len(s) : u[i] = s[i]
      /\ \A i \in 1 .. Len(t) : u[Len(s) + i] = t[i]
  BY <1>4, <1>6, <1>7
<1>9. s \o t = u
  BY <1>5, <1>8, ConcatIs
<1> QED BY <1>1, <1>2, <1>3, <1>9

LEMMA Concat3and1 ==
  ASSUME NEW a, NEW b, NEW c, NEW d
  PROVE  <<a, b, c>> \o <<d>> = <<a, b, c, d>>
<1> DEFINE S == {a, b, c, d}
<1>1. PICK s : s = <<a, b, c>>
  OBVIOUS
<1>2. PICK t : t = <<d>>
  OBVIOUS
<1>3. PICK u : u = <<a, b, c, d>>
  OBVIOUS
<1>4. Len(s) = 3 /\ Len(t) = 1 /\ Len(u) = 4
  BY <1>1, <1>2, <1>3
<1>5. s \in Seq(S) /\ t \in Seq(S) /\ u \in Seq(S)
  BY <1>1, <1>2, <1>3
<1>6. \A i \in 1 .. 3 : u[i] = s[i]
  BY <1>1, <1>3
<1>7. \A i \in 1 .. 1 : u[3 + i] = t[i]
  BY <1>2, <1>3
<1>8. /\ Len(u) = Len(s) + Len(t) /\ \A i \in 1 .. Len(s) : u[i] = s[i]
      /\ \A i \in 1 .. Len(t) : u[Len(s) + i] = t[i]
  BY <1>4, <1>6, <1>7
<1>9. s \o t = u
  BY <1>5, <1>8, ConcatIs
<1> QED BY <1>1, <1>2, <1>3, <1>9

LEMMA Concat4and1 ==
  ASSUME NEW a, NEW b, NEW c, NEW d, NEW e
  PROVE  <<a, b, c, d>> \o <<e>> = <<a, b, c, d, e>>
<1> DEFINE S == {a, b, c, d, e}
<1>1. PICK s : s = <<a, b, c, d>>
  OBVIOUS
<1>2. PICK t : t = <<e>>
  OBVIOUS
<1>3. PICK u : u = <<a, b, c, d, e>>
  OBVIOUS
<1>4. Len(s) = 4 /\ Len(t) = 1 /\ Len(u) = 5
  BY <1>1, <1>2, <1>3
<1>5. s \in Seq(S) /\ t \in Seq(S) /\ u \in Seq(S)
  BY <1>1, <1>2, <1>3
<1>6. \A i \in 1 .. 4 : u[i] = s[i]
  BY <1>1, <1>3
<1>7. \A i \in 1 .. 1 : u[4 + i] = t[i]
  BY <1>2, <1>3
<1>8. /\ Len(u) = Len(s) + Len(t) /\ \A i \in 1 .. Len(s) : u[i] = s[i]
      /\ \A i \in 1 .. Len(t) : u[Len(s) + i] = t[i]
  BY <1>4, <1>6, <1>7
<1>9. s \o t = u
  BY <1>5, <1>8, ConcatIs
<1> QED BY <1>1, <1>2, <1>3, <1>9

LEMMA Concat5and1 ==
  ASSUME NEW a, NEW b, NEW c, NEW d, NEW e, NEW f
  PROVE  <<a, b, c, d, e>> \o <<f>> = <<a, b, c, d, e, f>>
<1> DEFINE S == {a, b, c, d, e, f}
<1>1. PICK s : s = <<a, b, c, d, e>>
  OBVIOUS
<1>2. PICK t : t = <<f>>
  OBVIOUS
<1>3. PICK u : u = <<a, b, c, d, e, f>>
  OBVIOUS
<1>4. Len(s) = 5 /\ Len(t) = 1 /\ Len(u) = 6
  BY <1>1, <1>2, <1>3
<1>5. s \in Seq(S) /\ t \in Seq(S) /\ u \in Seq(S)
  BY <1>1, <1>2, <1>3
<1>6. \A i \in 1 .. 5 : u[i] = s[i]
  BY <1>1, <1>3
<1>7. \A i \in 1 .. 1 : u[5 + i] = t[i]
  BY <1>2, <1>3
<1>8. /\ Len(u) = Len(s) + Len(t) /\ \A i \in 1 .. Len(s) : u[i] = s[i]
      /\ \A i \in 1 .. Len(t) : u[Len(s) + i] = t[i]
  BY <1>4, <1>6, <1>7
<1>9. s \o t = u
  BY <1>5, <1>8, ConcatIs
<1> QED BY <1>1, <1>2, <1>3, <1>9

(* Types.                                                                    *)

(* The programs of task.steps, and what is left of them after each step.     *)
FetchPrograms == {<<"fetch">>, <<"flush", "merge">>, <<"saving", "merge">>, <<"merge">>,
                  <<"flush", "prepare">>, <<"saving", "prepare">>, <<"prepare">>,
                  <<"reconcile">>, <<"pin">>, <<"deletion">>}

MergePrograms == {<<"put", "supersede", "remove", "queue", "open">>,
                  <<"supersede", "remove", "queue", "open">>,
                  <<"remove", "queue", "open">>, <<"queue", "open">>}

ConflictPrograms == {<<"conflict", "put", "supersede", "remove", "flushAny", "show">>,
                     <<"put", "supersede", "remove", "flushAny", "show">>,
                     <<"supersede", "remove", "flushAny", "show">>,
                     <<"remove", "flushAny", "show">>, <<"flushAny", "show">>,
                     <<"saving", "show">>, <<"show">>}

ReplacePrograms == {<<"put", "supersede", "remove">>, <<"supersede", "remove">>,
                    <<"put", "remove">>, <<"remove">>}

PinPrograms == {<<"rebase", "remove", "readPin", "put", "queuePin", "open">>,
                <<"remove", "readPin", "put", "queuePin", "open">>,
                <<"readPin", "put", "queuePin", "open">>,
                <<"put", "queuePin", "open">>, <<"queuePin", "open">>,
                <<"rebase", "remove", "readPin", "put", "open">>,
                <<"remove", "readPin", "put", "open">>,
                <<"readPin", "put", "open">>, <<"put", "open">>}

Programs == FetchPrograms \cup MergePrograms \cup ConflictPrograms \cup ReplacePrograms
            \cup PinPrograms \cup {<<"open">>}

LEMMA ProgramTails ==
  ASSUME NEW s \in Programs, Len(s) > 1
  PROVE  /\ Tail(s) \in Programs
         /\ s \in FetchPrograms => Tail(s) \in {<<"merge">>, <<"prepare">>}
         /\ s \in MergePrograms => Tail(s) \in MergePrograms \cup {<<"open">>}
         /\ s \in ConflictPrograms => Tail(s) \in ConflictPrograms
         /\ s \in ReplacePrograms => Tail(s) \in ReplacePrograms
         /\ s \in PinPrograms => Tail(s) \in PinPrograms \cup {<<"open">>}
<1>1. s \in FetchPrograms => Tail(s) \in {<<"merge">>, <<"prepare">>}
  <2>1. s = <<"flush", "merge">> => Tail(s) = <<"merge">>
    OBVIOUS
  <2>2. s = <<"saving", "merge">> => Tail(s) = <<"merge">>
    OBVIOUS
  <2>3. s = <<"flush", "prepare">> => Tail(s) = <<"prepare">>
    OBVIOUS
  <2>4. s = <<"saving", "prepare">> => Tail(s) = <<"prepare">>
    OBVIOUS
  <2>5. s # <<"fetch">>
    OBVIOUS
  <2>6. s # <<"merge">>
    OBVIOUS
  <2>7. s # <<"prepare">>
    OBVIOUS
  <2>8. s # <<"reconcile">>
    OBVIOUS
  <2>9. s # <<"pin">>
    OBVIOUS
  <2>10. s # <<"deletion">>
    OBVIOUS
  <2> QED BY <2>1, <2>2, <2>3, <2>4, <2>5, <2>6, <2>7, <2>8, <2>9, <2>10 DEF FetchPrograms
<1>2. s \in MergePrograms => Tail(s) \in MergePrograms \cup {<<"open">>}
  <2>1. s = <<"put", "supersede", "remove", "queue", "open">>
         => Tail(s) = <<"supersede", "remove", "queue", "open">>
    OBVIOUS
  <2>2. s = <<"supersede", "remove", "queue", "open">>
         => Tail(s) = <<"remove", "queue", "open">>
    OBVIOUS
  <2>3. s = <<"remove", "queue", "open">> => Tail(s) = <<"queue", "open">>
    OBVIOUS
  <2>4. s = <<"queue", "open">> => Tail(s) = <<"open">>
    OBVIOUS
  <2> QED BY <2>1, <2>2, <2>3, <2>4 DEF MergePrograms
<1>3. s \in ConflictPrograms => Tail(s) \in ConflictPrograms
  <2>1. s = <<"conflict", "put", "supersede", "remove", "flushAny", "show">>
         => Tail(s) = <<"put", "supersede", "remove", "flushAny", "show">>
    OBVIOUS
  <2>2. s = <<"put", "supersede", "remove", "flushAny", "show">>
         => Tail(s) = <<"supersede", "remove", "flushAny", "show">>
    OBVIOUS
  <2>3. s = <<"supersede", "remove", "flushAny", "show">>
         => Tail(s) = <<"remove", "flushAny", "show">>
    OBVIOUS
  <2>4. s = <<"remove", "flushAny", "show">> => Tail(s) = <<"flushAny", "show">>
    OBVIOUS
  <2>5. s = <<"flushAny", "show">> => Tail(s) = <<"show">>
    OBVIOUS
  <2>6. s = <<"saving", "show">> => Tail(s) = <<"show">>
    OBVIOUS
  <2>7. s # <<"show">>
    OBVIOUS
  <2> QED BY <2>1, <2>2, <2>3, <2>4, <2>5, <2>6, <2>7 DEF ConflictPrograms
<1>4. s \in ReplacePrograms => Tail(s) \in ReplacePrograms
  <2>1. s = <<"put", "supersede", "remove">> => Tail(s) = <<"supersede", "remove">>
    OBVIOUS
  <2>2. s = <<"supersede", "remove">> => Tail(s) = <<"remove">>
    OBVIOUS
  <2>3. s = <<"put", "remove">> => Tail(s) = <<"remove">>
    OBVIOUS
  <2>4. s # <<"remove">>
    OBVIOUS
  <2> QED BY <2>1, <2>2, <2>3, <2>4 DEF ReplacePrograms
<1>5. s \in PinPrograms => Tail(s) \in PinPrograms \cup {<<"open">>}
  <2>1. s = <<"rebase", "remove", "readPin", "put", "queuePin", "open">>
         => Tail(s) = <<"remove", "readPin", "put", "queuePin", "open">>
    OBVIOUS
  <2>2. s = <<"remove", "readPin", "put", "queuePin", "open">>
         => Tail(s) = <<"readPin", "put", "queuePin", "open">>
    OBVIOUS
  <2>3. s = <<"readPin", "put", "queuePin", "open">> => Tail(s) = <<"put", "queuePin", "open">>
    OBVIOUS
  <2>4. s = <<"put", "queuePin", "open">> => Tail(s) = <<"queuePin", "open">>
    OBVIOUS
  <2>5. s = <<"queuePin", "open">> => Tail(s) = <<"open">>
    OBVIOUS
  <2>6. s = <<"rebase", "remove", "readPin", "put", "open">>
         => Tail(s) = <<"remove", "readPin", "put", "open">>
    OBVIOUS
  <2>7. s = <<"remove", "readPin", "put", "open">> => Tail(s) = <<"readPin", "put", "open">>
    OBVIOUS
  <2>8. s = <<"readPin", "put", "open">> => Tail(s) = <<"put", "open">>
    OBVIOUS
  <2>9. s = <<"put", "open">> => Tail(s) = <<"open">>
    OBVIOUS
  <2> QED BY <2>1, <2>2, <2>3, <2>4, <2>5, <2>6, <2>7, <2>8, <2>9 DEF PinPrograms
<1>6. s # <<"open">>
  OBVIOUS
<1>7. {<<"merge">>, <<"prepare">>} \subseteq FetchPrograms
  BY DEF FetchPrograms
<1> QED BY <1>1, <1>2, <1>3, <1>4, <1>5, <1>6, <1>7 DEF Programs

LEMMA ProgramsOfSteps ==
  Programs \subseteq Seq(Steps)
<1>1. FetchPrograms \subseteq Seq(Steps)
  BY DEF FetchPrograms, Steps
<1>2. MergePrograms \subseteq Seq(Steps)
  BY DEF MergePrograms, Steps
<1>3. ConflictPrograms \subseteq Seq(Steps)
  BY DEF ConflictPrograms, Steps
<1>4. ReplacePrograms \subseteq Seq(Steps)
  BY DEF ReplacePrograms, Steps
<1>5. PinPrograms \subseteq Seq(Steps)
  BY DEF PinPrograms, Steps
<1>6. <<"open">> \in Seq(Steps)
  BY DEF Steps
<1> QED BY <1>1, <1>2, <1>3, <1>4, <1>5, <1>6 DEF Programs

(* The programs that may have a step next. *)
LEMMA ProgramHeads ==
  ASSUME NEW s \in Programs
  PROVE  /\ s # <<>>
         /\ s \in FetchPrograms => Head(s) \in {"fetch", "flush", "saving", "merge", "prepare",
                                                "reconcile", "pin", "deletion"}
         /\ s \in MergePrograms => Head(s) \in {"put", "supersede", "remove", "queue"}
         /\ s \in ConflictPrograms => Head(s) \in {"conflict", "put", "supersede", "remove",
                                                   "flushAny", "saving", "show"}
         /\ s \in ReplacePrograms => Head(s) \in {"put", "supersede", "remove"}
         /\ s \in PinPrograms => Head(s) \in {"rebase", "remove", "readPin", "put", "queuePin"}
<1>1. /\ s # <<>>
      /\ s \in FetchPrograms => Head(s) \in {"fetch", "flush", "saving", "merge", "prepare",
                                             "reconcile", "pin", "deletion"}
  BY DEF FetchPrograms, Programs, MergePrograms, ConflictPrograms, ReplacePrograms, PinPrograms
<1>2. s \in MergePrograms => Head(s) \in {"put", "supersede", "remove", "queue"}
  BY DEF MergePrograms
<1>3. s \in ConflictPrograms => Head(s) \in {"conflict", "put", "supersede", "remove",
                                             "flushAny", "saving", "show"}
  BY DEF ConflictPrograms
<1>4. s \in ReplacePrograms => Head(s) \in {"put", "supersede", "remove"}
  BY DEF ReplacePrograms
<1>5. s \in PinPrograms => Head(s) \in {"rebase", "remove", "readPin", "put", "queuePin"}
  BY DEF PinPrograms
<1> QED BY <1>1, <1>2, <1>3, <1>4, <1>5

(* The shape of every variable. A program that works on the server's copy of *)
(* a note has it, and one that stores a version has that.                    *)
Budget == [typed : 0 .. MaxTyped, remote : 0 .. MaxRemote, actions : Nat, faults : Nat,
           fresh : SUBSET Notes]

UserTyped ==
  /\ editor \in Editor /\ saver \in Saver /\ chore \in Chore
  /\ editor.dirty => editor.note # Absent
  /\ saver.pc = "read" => saver.note # Absent
  /\ chore.kind # "none" => chore.note # Absent /\ chore.local # Absent

Prepared ==
  /\ task.steps \in MergePrograms \cup ConflictPrograms \cup PinPrograms => task.remote # Absent
  /\ task.steps \in MergePrograms \cup {<<"deletion">>} => task.put # Absent
  /\ Step = "conflict" => task.conflict # Absent

TaskTyped ==
  /\ task \in Task
  /\ task.steps \in Programs \cup {<<>>}
  /\ task.steps # <<>> => task.target # Absent
  /\ task.pc = "acks" => \A q \in task.batch : \E r \in task.results : r.sequence = q.sequence
  /\ Prepared

NetTyped ==
  /\ wire \subseteq SUBSET Operation
  /\ server.notes \in [Notes -> Row] /\ server.results \subseteq Result

AsideTyped == budget \in Budget /\ owed \subseteq Edits

TypeInv == disk \in Disk /\ UserTyped /\ TaskTyped /\ NetTyped /\ AsideTyped

LEMMA TypeInvIsEnough ==
  ASSUME TypeInv
  PROVE  TypeOK
<1>1. disk \in [notes : [Notes -> Optional(Note)], queue : SUBSET disk.queue, sequence : Nat,
                created : Nat, rejected : SUBSET Notes, conflicts : [Notes -> Optional(Conflict)]]
  BY DEF TypeInv, Disk
<1>2. \A q \in disk.queue : q \in Operation
  BY DEF TypeInv, Disk
<1>3. task.steps \in Seq(Steps) /\ task.batch \subseteq Operation
  BY DEF TypeInv, TaskTyped, Task
<1> QED BY <1>1, <1>2, <1>3 DEF TypeOK, TypeInv, UserTyped, NetTyped, AsideTyped

-----------------------------------------------------------------------------
(* The transactions, as functions from disks to disks.                       *)

(* What queueOperationInStores leaves of a request: an operation of its own, *)
(* one in the place of an operation that was not sent, or the first save of  *)
(* a note, which takes its pin along.                                        *)
Appends(d, r, old, new) ==
  /\ old \notin d.queue /\ new.sequence = d.sequence + 1
  /\ new.type = r.type /\ new.base = r.base /\ new.text = r.text

Coalesces(d, r, old, new) ==
  /\ old \in d.queue /\ ~old.attempted /\ old.note = r.note /\ old.type = r.type
  /\ \A p \in d.queue : p.note = r.note /\ p.type = r.type /\ ~p.attempted => p.sequence <= old.sequence
  /\ new.sequence = old.sequence
  /\ new.type = r.type /\ new.base = r.base /\ new.text = r.text /\ r.type # "note.delete"

Travels(d, r, old, new) ==
  /\ old \in d.queue /\ ~old.attempted /\ old.note = r.note /\ old.type = "note.save"
  /\ new.sequence = old.sequence /\ r.type = "note.pin"
  /\ new.type = old.type /\ new.base = old.base /\ new.text = old.text

Enqueues(d, e, r, old, new) ==
  /\ new \in Operation /\ ~new.attempted /\ new.note = r.note
  /\ e.queue = (d.queue \ {old}) \cup {new}
  /\ Appends(d, r, old, new) \/ Coalesces(d, r, old, new) \/ Travels(d, r, old, new)

Queueing(d, e, r) ==
  /\ e \in Disk
  /\ e.notes = d.notes /\ e.conflicts = d.conflicts /\ e.rejected = d.rejected \ {r.note}
  /\ \E old, new : Enqueues(d, e, r, old, new)

LEMMA DiskIs ==
  ASSUME NEW d \in Disk
  PROVE  /\ d.notes \in [Notes -> Optional(Note)] /\ d.queue \subseteq Operation
         /\ d.sequence \in Nat /\ d.created \in Nat /\ d.rejected \subseteq Notes
         /\ d.conflicts \in [Notes -> Optional(Conflict)]
         /\ d = [notes |-> d.notes, queue |-> d.queue, sequence |-> d.sequence,
                 created |-> d.created, rejected |-> d.rejected, conflicts |-> d.conflicts]
BY DEF Disk

LEMMA OperationIs ==
  ASSUME NEW q \in Operation
  PROVE  /\ q.id \in Nat \ {0} /\ q.sequence \in Nat \ {0} /\ q.attempted \in BOOLEAN
         /\ q.type \in Types /\ q.note \in Notes /\ q.base \in Optional(Nat) /\ q.text \in Text
         /\ q.baseText \in Optional(Text) /\ q.pinned \in BOOLEAN
BY DEF Operation

LEMMA ReplacedTyped ==
  ASSUME NEW d \in Disk, NEW old, NEW new \in Operation
  PROVE  /\ ReplaceOperation(d, old, new) \in Disk
         /\ ReplaceOperation(d, old, new) = [d EXCEPT !.queue = (d.queue \ {old}) \cup {new}]
BY DEF Disk, ReplaceOperation

(* The newest of some operations of a queue. *)
LEMMA NewestOf ==
  ASSUME NEW d, Ordered(d), NEW S, S \subseteq d.queue, S # {}
  PROVE  Newest(S) \in S /\ \A r \in S : r.sequence <= Newest(S).sequence
<1>1. \A q \in S : q.sequence \in Nat /\ q.sequence <= d.sequence
  BY DEF Ordered, Formed
<1>2. d.sequence \in Nat
  BY DEF Ordered
<1> QED BY <1>1, <1>2, NewestExists

LEMMA QueueingTyped ==
  ASSUME NEW before \in Disk, Ordered(before), NEW r \in Request
  PROVE  Queueing(before, QueueOperation(before, r), r)
<1> DEFINE d    == [before EXCEPT !.rejected = @ \ {r.note}]
           init == InitialSaves(d, r.note)
           same == Coalescable(d, r)
           e    == QueueOperation(before, r)
<1>1. /\ d \in Disk /\ d.queue = before.queue /\ d.sequence = before.sequence
      /\ d.notes = before.notes /\ d.conflicts = before.conflicts
      /\ d.rejected = before.rejected \ {r.note} /\ d.created = before.created
  BY DEF Disk
<1>2. /\ r.type \in Types /\ r.note \in Notes /\ r.base \in Optional(Nat) /\ r.text \in Text
      /\ r.baseText \in Optional(Text) /\ r.pinned \in BOOLEAN
  BY DEF Request
<1>3. Ordered(d)
  BY <1>1, BesideIsOrdered, DiskIs DEF Beside, DiskFields, Ordered
<1>4. init \subseteq d.queue /\ \A q \in init : ~q.attempted /\ q.note = r.note /\ q.type = "note.save"
  BY DEF InitialSaves, Queued
<1>5. /\ same \subseteq d.queue
      /\ \A q \in same : ~q.attempted /\ q.note = r.note /\ q.type = r.type /\ r.type # "note.delete"
      /\ \A q \in d.queue : q.note = r.note /\ q.type = r.type /\ ~q.attempted /\ r.type # "note.delete"
           => q \in same
  BY DEF Coalescable, Queued
<1>6. e = IF r.type = "note.pin" /\ init # {}
          THEN ReplaceOperation(d, Newest(init), [Newest(init) EXCEPT !.pinned = r.pinned])
          ELSE IF same # {}
          THEN ReplaceOperation(d, Newest(same),
                 [Newest(same) EXCEPT !.base = r.base, !.text = r.text,
                                      !.baseText = r.baseText, !.pinned = r.pinned])
          ELSE [d EXCEPT
                  !.sequence = NextSequence(d), !.created = @ + 1,
                  !.queue = @ \cup {[id |-> d.created + 1, sequence |-> NextSequence(d),
                                     attempted |-> FALSE, type |-> r.type,
                                     note |-> r.note, base |-> r.base, text |-> r.text,
                                     baseText |-> r.baseText, pinned |-> r.pinned]}]
  BY DEF QueueOperation
<1> HIDE DEF d, init, same, e
<1>7. CASE r.type = "note.pin" /\ init # {}
  <2>1. PICK q \in init : q = Newest(init)
    BY <1>3, <1>4, <1>7, NewestOf
  <2>2. q \in d.queue /\ q \in Operation
    BY <1>1, <1>4, DiskIs
  <2>3. PICK new : new = [q EXCEPT !.pinned = r.pinned]
    OBVIOUS
  <2>4. new \in Operation
    BY <1>2, <2>2, <2>3 DEF Operation
  <2>5. /\ new.note = q.note /\ new.type = q.type /\ new.base = q.base /\ new.text = q.text
        /\ new.sequence = q.sequence /\ new.attempted = q.attempted
    BY <2>2, <2>3 DEF Operation
  <2>6. e = ReplaceOperation(d, q, new)
    BY <1>6, <1>7, <2>1, <2>3
  <2>7. /\ e \in Disk /\ e.notes = d.notes /\ e.conflicts = d.conflicts /\ e.rejected = d.rejected
        /\ e.queue = (d.queue \ {q}) \cup {new}
    BY <1>1, <2>4, <2>6, ReplacedTyped DEF Disk
  <2>8. Travels(before, r, q, new)
    BY <1>1, <1>4, <1>7, <2>2, <2>5 DEF Travels
  <2>9. Enqueues(before, e, r, q, new)
    BY <1>1, <1>4, <2>4, <2>5, <2>7, <2>8 DEF Enqueues
  <2> QED BY <1>1, <2>7, <2>9 DEF Queueing, e
<1>8. CASE ~(r.type = "note.pin" /\ init # {}) /\ same # {}
  <2>1. PICK q \in same : q = Newest(same) /\ \A p \in same : p.sequence <= q.sequence
    BY <1>3, <1>5, <1>8, NewestOf
  <2>2. q \in d.queue /\ q \in Operation
    BY <1>1, <1>5, DiskIs
  <2>3. PICK new : new = [q EXCEPT !.base = r.base, !.text = r.text,
                                   !.baseText = r.baseText, !.pinned = r.pinned]
    OBVIOUS
  <2>4. new = [id |-> q.id, sequence |-> q.sequence, attempted |-> q.attempted, type |-> q.type,
               note |-> q.note, base |-> r.base, text |-> r.text, baseText |-> r.baseText,
               pinned |-> r.pinned]
    BY <2>2, <2>3 DEF Operation
  <2>5. new \in Operation
    BY <1>2, <2>2, <2>4, OperationIs DEF Operation
  <2>6. e = ReplaceOperation(d, q, new)
    BY <1>6, <1>8, <2>1, <2>3
  <2>7. /\ e \in Disk /\ e.notes = d.notes /\ e.conflicts = d.conflicts /\ e.rejected = d.rejected
        /\ e.queue = (d.queue \ {q}) \cup {new}
    BY <1>1, <2>5, <2>6, ReplacedTyped DEF Disk
  <2>8. Coalesces(before, r, q, new)
    BY <1>1, <1>5, <1>8, <2>1, <2>2, <2>4 DEF Coalesces
  <2>9. Enqueues(before, e, r, q, new)
    BY <1>1, <1>5, <2>2, <2>4, <2>5, <2>7, <2>8 DEF Enqueues
  <2> QED BY <1>1, <2>7, <2>9 DEF Queueing, e
<1>9. CASE ~(r.type = "note.pin" /\ init # {}) /\ same = {}
  <2>1. PICK new : new = [id |-> d.created + 1, sequence |-> d.sequence + 1, attempted |-> FALSE,
                          type |-> r.type, note |-> r.note, base |-> r.base, text |-> r.text,
                          baseText |-> r.baseText, pinned |-> r.pinned]
    OBVIOUS
  <2>2. d.created \in Nat /\ d.sequence \in Nat
    BY <1>1, DiskIs
  <2>3. new \in Operation
    BY <1>2, <2>1, <2>2 DEF Operation
  <2>4. e = [d EXCEPT !.sequence = d.sequence + 1, !.created = d.created + 1,
                      !.queue = d.queue \cup {new}]
    BY <1>6, <1>9, <2>1 DEF NextSequence
  <2>5. e = [notes |-> d.notes, queue |-> d.queue \cup {new}, sequence |-> d.sequence + 1,
             created |-> d.created + 1, rejected |-> d.rejected, conflicts |-> d.conflicts]
    BY <1>1, <2>4 DEF Disk
  <2>6. /\ e.notes = d.notes /\ e.conflicts = d.conflicts /\ e.rejected = d.rejected
        /\ e.queue = d.queue \cup {new}
    BY <2>5
  <2>7. e \in Disk
    BY <1>1, <2>2, <2>3, <2>5, DiskIs DEF Disk
  <2>8. new \notin d.queue
    BY <1>3, <2>1, <2>2 DEF Ordered
  <2>9. Appends(before, r, new, new)
    BY <1>1, <2>1, <2>8 DEF Appends
  <2>10. e.queue = (d.queue \ {new}) \cup {new}
    BY <2>6
  <2>11. new.note = r.note /\ ~new.attempted
    BY <2>1
  <2>12. Enqueues(before, e, r, new, new)
    BY <1>1, <2>3, <2>9, <2>10, <2>11 DEF Enqueues
  <2> QED BY <1>1, <2>6, <2>7, <2>12 DEF Queueing, e
<1> QED BY <1>7, <1>8, <1>9

(* The same disk except for the queue. *)
QueueOnly(d, e) ==
  /\ e \in Disk /\ e.notes = d.notes /\ e.conflicts = d.conflicts /\ e.rejected = d.rejected
  /\ e.sequence = d.sequence

(* The same disk except for one note, or one conflict. *)
Puts(d, e, n, note) ==
  /\ e \in Disk /\ e.notes[n] = note /\ \A m : m # n => e.notes[m] = d.notes[m]
  /\ e.queue = d.queue /\ e.conflicts = d.conflicts /\ e.rejected = d.rejected
  /\ e.sequence = d.sequence

Files(d, e, n, c) ==
  /\ e \in Disk /\ e.conflicts[n] = c /\ \A m : m # n => e.conflicts[m] = d.conflicts[m]
  /\ e.queue = d.queue /\ e.notes = d.notes /\ e.rejected = d.rejected
  /\ e.sequence = d.sequence

LEMMA PutTyped ==
  ASSUME NEW d \in Disk, NEW n \in Notes, NEW note \in Optional(Note)
  PROVE  Puts(d, PutNote(d, n, note), n, note)
<1>1. PICK e : e = PutNote(d, n, note)
  OBVIOUS
<1>2. PICK notes : notes = [d.notes EXCEPT ![n] = note]
  OBVIOUS
<1>3. notes \in [Notes -> Optional(Note)]
  BY <1>2, DiskIs
<1>4. e = [notes |-> notes, queue |-> d.queue, sequence |-> d.sequence,
           created |-> d.created, rejected |-> d.rejected, conflicts |-> d.conflicts]
  BY <1>1, <1>2, DiskIs DEF PutNote
<1>5. e \in Disk
  BY <1>3, <1>4, DiskIs DEF Disk
<1>6. notes[n] = note /\ \A m : m # n => notes[m] = d.notes[m]
  BY <1>2, DiskIs
<1> QED BY <1>1, <1>4, <1>5, <1>6 DEF Puts

LEMMA RemoveTyped ==
  ASSUME NEW d, NEW n
  PROVE  RemoveLocalNote(d, n) = PutNote(d, n, Absent) /\ Absent \in Optional(Note)
BY DEF RemoveLocalNote, PutNote, Optional

LEMMA ConflictTyped ==
  ASSUME NEW d \in Disk, NEW n \in Notes, NEW c \in Optional(Conflict)
  PROVE  Files(d, [d EXCEPT !.conflicts[n] = c], n, c)
<1>1. PICK e : e = [d EXCEPT !.conflicts[n] = c]
  OBVIOUS
<1>2. PICK conflicts : conflicts = [d.conflicts EXCEPT ![n] = c]
  OBVIOUS
<1>3. conflicts \in [Notes -> Optional(Conflict)]
  BY <1>2, DiskIs
<1>4. e = [notes |-> d.notes, queue |-> d.queue, sequence |-> d.sequence,
           created |-> d.created, rejected |-> d.rejected, conflicts |-> conflicts]
  BY <1>2, <1>1, DiskIs
<1>5. e \in Disk
  BY <1>3, <1>4, DiskIs DEF Disk
<1>6. conflicts[n] = c /\ \A m : m # n => conflicts[m] = d.conflicts[m]
  BY <1>2, DiskIs
<1>7. Files(d, e, n, c)
  BY <1>4, <1>5, <1>6 DEF Files
<1> QED BY <1>1, <1>7

LEMMA QueueTyped ==
  ASSUME NEW d \in Disk, NEW queue, queue \subseteq Operation, NEW e, e = [d EXCEPT !.queue = queue]
  PROVE  QueueOnly(d, e) /\ e.queue = queue
<1>1. e = [notes |-> d.notes, queue |-> queue, sequence |-> d.sequence,
           created |-> d.created, rejected |-> d.rejected, conflicts |-> d.conflicts]
  BY DiskIs
<1>2. e \in Disk
  BY <1>1, DiskIs DEF Disk
<1> QED BY <1>1, <1>2 DEF QueueOnly

(* An operation that is not sent any more. *)
Noop(q) == [q EXCEPT !.type = "noop"]

LEMMA NoopTyped ==
  ASSUME NEW q \in Operation
  PROVE  /\ Noop(q) \in Operation /\ Noop(q).type = "noop" /\ Noop(q).note = q.note
         /\ Noop(q).sequence = q.sequence /\ Noop(q).attempted = q.attempted
         /\ Noop(q).base = q.base
<1>1. PICK r : r = Noop(q)
  OBVIOUS
<1>2. r = [id |-> q.id, sequence |-> q.sequence, attempted |-> q.attempted, type |-> "noop",
           note |-> q.note, base |-> q.base, text |-> q.text, baseText |-> q.baseText,
           pinned |-> q.pinned]
  BY <1>1 DEF Operation, Noop
<1>3. r \in Operation
  BY <1>2, OperationIs DEF Operation, Types
<1> QED BY <1>1, <1>2, <1>3

SupersededQueue(d, n, after) ==
  {IF q.note = n /\ q.sequence > after /\ ~q.attempted THEN Noop(q) ELSE q : q \in d.queue}

LEMMA SupersedeTyped ==
  ASSUME NEW d \in Disk, NEW n, NEW after
  PROVE  /\ QueueOnly(d, Supersede(d, n, after))
         /\ Supersede(d, n, after).queue = SupersededQueue(d, n, after)
<1>1. PICK queue : queue = SupersededQueue(d, n, after)
  OBVIOUS
<1>2. queue \subseteq Operation
  BY <1>1, DiskIs, NoopTyped DEF SupersededQueue
<1>3. Supersede(d, n, after) = [d EXCEPT !.queue = queue]
  BY <1>1 DEF Supersede, SupersededQueue, Noop
<1> QED BY <1>1, <1>2, <1>3, QueueTyped

(* An operation that moved to a newer revision. *)
Moved(q, revision, text) ==
  [q EXCEPT !.base = revision, !.baseText = IF q.type = "note.save" THEN text ELSE @]

LEMMA MovedTyped ==
  ASSUME NEW q \in Operation, NEW revision \in Nat, NEW text \in Text
  PROVE  /\ Moved(q, revision, text) \in Operation /\ Moved(q, revision, text).type = q.type
         /\ Moved(q, revision, text).note = q.note
         /\ Moved(q, revision, text).sequence = q.sequence
         /\ Moved(q, revision, text).attempted = q.attempted
         /\ Moved(q, revision, text).text = q.text
         /\ Moved(q, revision, text).base = revision
<1>1. PICK r : r = Moved(q, revision, text)
  OBVIOUS
<1>2. PICK b : b = IF q.type = "note.save" THEN text ELSE q.baseText
  OBVIOUS
<1>3. r = [id |-> q.id, sequence |-> q.sequence, attempted |-> q.attempted, type |-> q.type,
           note |-> q.note, base |-> revision, text |-> q.text, baseText |-> b,
           pinned |-> q.pinned]
  BY <1>1, <1>2 DEF Operation, Moved
<1>4. b \in Optional(Text) /\ revision \in Optional(Nat)
  BY <1>2, OperationIs DEF Optional
<1>5. r \in Operation
  BY <1>3, <1>4, OperationIs DEF Operation
<1> QED BY <1>1, <1>3, <1>5

MovedQueue(d, o, revision, text) ==
  {IF q \in Rebasable(d, o) THEN Moved(q, revision, text) ELSE q : q \in d.queue}

LEMMA RebaseTyped ==
  ASSUME NEW d \in Disk, NEW o, NEW revision \in Nat, NEW text \in Text
  PROVE  /\ QueueOnly(d, Rebase(d, o, revision, text))
         /\ Rebase(d, o, revision, text).queue = MovedQueue(d, o, revision, text)
<1>1. PICK queue : queue = MovedQueue(d, o, revision, text)
  OBVIOUS
<1>2. queue \subseteq Operation
  BY <1>1, DiskIs, MovedTyped DEF MovedQueue
<1>3. Rebase(d, o, revision, text) = [d EXCEPT !.queue = queue]
  BY Zenon, <1>1 DEF Rebase, MovedQueue, Moved
<1> QED BY <1>1, <1>2, <1>3, QueueTyped

LEMMA DequeueTyped ==
  ASSUME NEW d \in Disk, NEW o
  PROVE  QueueOnly(d, Dequeue(d, o)) /\ Dequeue(d, o).queue = d.queue \ {o}
<1>1. Dequeue(d, o) = [d EXCEPT !.queue = d.queue \ {o}]
  BY DEF Dequeue
<1>2. d.queue \ {o} \subseteq Operation
  BY DiskIs
<1>3. PICK e : e = Dequeue(d, o)
  OBVIOUS
<1>4. QueueOnly(d, e) /\ e.queue = d.queue \ {o}
  BY <1>1, <1>2, <1>3, QueueTyped
<1> QED BY <1>3, <1>4

(* An operation that was sent. *)
Sending(q) == [q EXCEPT !.attempted = TRUE]

LEMMA SendingTyped ==
  ASSUME NEW q \in Operation
  PROVE  /\ Sending(q) \in Operation /\ Sending(q).type = q.type /\ Sending(q).note = q.note
         /\ Sending(q).sequence = q.sequence /\ Sending(q).attempted = TRUE
         /\ Sending(q).text = q.text /\ Sending(q).base = q.base /\ Sending(q).id = q.id
         /\ q.attempted => Sending(q) = q
<1>1. PICK r : r = Sending(q)
  OBVIOUS
<1>2. r = [id |-> q.id, sequence |-> q.sequence, attempted |-> TRUE, type |-> q.type,
           note |-> q.note, base |-> q.base, text |-> q.text, baseText |-> q.baseText,
           pinned |-> q.pinned]
  BY <1>1 DEF Operation, Sending
<1>3. r \in Operation
  BY <1>2, OperationIs DEF Operation
<1>4. q.attempted => q.attempted = TRUE
  BY OperationIs
<1>5. q.attempted => r = q
  BY <1>2, <1>4 DEF Operation
<1> QED BY <1>1, <1>2, <1>3, <1>5

LEMMA ClaimTyped ==
  ASSUME NEW d \in Disk, NEW B, B \subseteq d.queue
  PROVE  /\ QueueOnly(d, Claim(d, B)) /\ Attempted(B) \subseteq Operation
         /\ Attempted(B) = {Sending(q) : q \in B}
         /\ Claim(d, B).queue = (d.queue \ B) \cup Attempted(B)
<1>1. Attempted(B) = {Sending(q) : q \in B}
  BY DEF Attempted, Sending
<1>2. Attempted(B) \subseteq Operation
  <2>1. \A q \in B : q \in Operation
    BY DiskIs
  <2>2. \A q \in B : Sending(q) \in Operation
    BY <2>1, SendingTyped
  <2> QED BY <1>1, <2>2
<1>3. PICK queue : queue = (d.queue \ B) \cup Attempted(B)
  OBVIOUS
<1>4. queue \subseteq Operation
  BY <1>2, <1>3, DiskIs
<1>5. Claim(d, B) = [d EXCEPT !.queue = queue]
  BY <1>3 DEF Claim
<1> QED BY <1>1, <1>2, <1>3, <1>4, <1>5, QueueTyped

(* What quarantineQueueOperation leaves in the place of an operation. *)
Slot(q) == [q EXCEPT !.type = "noop", !.base = Absent, !.text = {}, !.baseText = Absent]

LEMMA QuarantineTyped ==
  ASSUME NEW d \in Disk, NEW q \in Operation
  PROVE  /\ Quarantine(d, q) \in Disk /\ Slot(q) \in Operation
         /\ Slot(q).type = "noop" /\ Slot(q).note = q.note /\ Slot(q).sequence = q.sequence
         /\ Slot(q).attempted = q.attempted /\ Slot(q).base = Absent /\ Slot(q).id = q.id
         /\ Quarantine(d, q).notes = d.notes /\ Quarantine(d, q).conflicts = d.conflicts
         /\ Quarantine(d, q).sequence = d.sequence
         /\ Quarantine(d, q).queue = (d.queue \ {q}) \cup {Slot(q)}
         /\ Quarantine(d, q).rejected = d.rejected \cup {q.note}
<1>1. PICK s : s = Slot(q)
  OBVIOUS
<1>2. s = [id |-> q.id, sequence |-> q.sequence, attempted |-> q.attempted, type |-> "noop",
           note |-> q.note, base |-> Absent, text |-> {}, baseText |-> Absent,
           pinned |-> q.pinned]
  BY <1>1 DEF Operation, Slot
<1>3. s \in Operation
  BY <1>2, OperationIs DEF Operation, Types, Optional, Text
<1>4. PICK e : e = Quarantine(d, q)
  OBVIOUS
<1>5. e = [notes |-> d.notes, queue |-> (d.queue \ {q}) \cup {s}, sequence |-> d.sequence,
           created |-> d.created, rejected |-> d.rejected \cup {q.note}, conflicts |-> d.conflicts]
  <2>1. PICK f : f = ReplaceOperation(d, q, s)
    OBVIOUS
  <2>2. f = [notes |-> d.notes, queue |-> (d.queue \ {q}) \cup {s}, sequence |-> d.sequence,
             created |-> d.created, rejected |-> d.rejected, conflicts |-> d.conflicts]
    BY <2>1, DiskIs DEF ReplaceOperation
  <2>3. e = [f EXCEPT !.rejected = @ \cup {q.note}]
    BY <1>1, <1>4, <2>1 DEF Quarantine, Slot
  <2> QED BY <2>2, <2>3
<1>6. e \in Disk
  BY <1>3, <1>5, DiskIs, OperationIs DEF Disk
<1> QED BY <1>1, <1>2, <1>3, <1>4, <1>5, <1>6

(* Versions of a note. *)
LEMMA NoteIs ==
  ASSUME NEW v \in Note
  PROVE  /\ v.text \in Text /\ v.revision \in Nat /\ v.pending \in BOOLEAN
         /\ v.base \in Optional(Nat) /\ v.baseText \in Optional(Text) /\ v.pinned \in BOOLEAN
         /\ v = [text |-> v.text, revision |-> v.revision, pending |-> v.pending, base |-> v.base,
                 baseText |-> v.baseText, pinned |-> v.pinned]
BY DEF Note

LEMMA RemoteIs ==
  ASSUME NEW r \in Remote
  PROVE  r.text \in Text /\ r.revision \in Nat /\ r.pinned \in BOOLEAN
BY DEF Remote

LEMMA OrTyped ==
  ASSUME NEW S, NEW x \in Optional(S), NEW y \in S
  PROVE  Or(x, y) \in S
BY DEF Or, Optional

LEMMA SettledTyped ==
  ASSUME NEW r \in Remote
  PROVE  /\ Settled(r) \in Note /\ Settled(r).text = r.text /\ Settled(r).revision = r.revision
         /\ Settled(r).pending = FALSE /\ Settled(r).base = Absent
BY RemoteIs DEF Settled, Note, Optional

LEMMA RequestsTyped ==
  ASSUME NEW n \in Notes, NEW base \in Optional(Nat), NEW note \in Note, NEW pinned \in BOOLEAN
  PROVE  /\ Save(n, base, note) \in Request /\ PinRequest(n, base, pinned) \in Request
         /\ DeleteRequest(n, base) \in Request
BY NoteIs DEF Save, PinRequest, DeleteRequest, Request, Types, Optional, Text

(* What an acknowledgement makes of the cached note. *)
LEMMA AcknowledgedTyped ==
  ASSUME NEW v \in Note, NEW o \in Operation, NEW revision \in Nat, NEW later \in BOOLEAN,
         NEW laterPin \in BOOLEAN, NEW a, a = Acknowledged(v, o, revision, later, laterPin)
  PROVE  /\ a \in Note /\ a.text = v.text /\ a.revision = revision /\ a.pending = later
         /\ a.base = IF later THEN revision ELSE Absent
<1>1. PICK p : p = IF o.type = "note.pin" /\ ~laterPin THEN o.pinned ELSE v.pinned
  OBVIOUS
<1>2. PICK b : b = IF o.type # "note.save" THEN v.baseText ELSE IF later THEN o.text ELSE Absent
  OBVIOUS
<1>3. PICK c : c = IF later THEN revision ELSE Absent
  OBVIOUS
<1>4. a = [v EXCEPT !.revision = revision, !.pending = later, !.base = c, !.pinned = p,
                    !.baseText = b]
  BY <1>1, <1>2, <1>3 DEF Acknowledged
<1>5. a = [text |-> v.text, revision |-> revision, pending |-> later, base |-> c,
           baseText |-> b, pinned |-> p]
  BY <1>4, NoteIs
<1>6. p \in BOOLEAN /\ b \in Optional(Text) /\ c \in Optional(Nat)
  BY <1>1, <1>2, <1>3, NoteIs, OperationIs DEF Optional
<1>7. a \in Note
  BY <1>5, <1>6, NoteIs DEF Note
<1> QED BY <1>3, <1>5, <1>7

(* commitNoteAcknowledgement as a whole. *)
SentText(d, o) ==
  IF o.type = "note.save" THEN o.text
  ELSE IF d.notes[o.note] = Absent THEN Absent ELSE d.notes[o.note].text

Committed(d, e, o, revision) ==
  /\ e \in Disk /\ e.conflicts = d.conflicts /\ e.rejected = d.rejected /\ e.sequence = d.sequence
  /\ \A m : m # o.note => e.notes[m] = d.notes[m]
  /\ d.notes[o.note] = Absent => e.notes[o.note] = Absent
  /\ d.notes[o.note] # Absent =>
       /\ e.notes[o.note] \in Note /\ e.notes[o.note].text = d.notes[o.note].text
       /\ e.notes[o.note].revision = revision /\ e.notes[o.note].pending = HasLater(d, o)
       /\ e.notes[o.note].base = IF HasLater(d, o) THEN revision ELSE Absent
  /\ e.queue = (IF SentText(d, o) = Absent THEN d.queue
                ELSE MovedQueue(d, o, revision, SentText(d, o))) \ {o}

LEMMA CommitTyped ==
  ASSUME NEW d \in Disk, NEW o \in Operation, NEW revision \in Nat
  PROVE  Committed(d, CommitNoteAcknowledgement(d, o, revision), o, revision)
<1>1. PICK e : e = CommitNoteAcknowledgement(d, o, revision)
  OBVIOUS
<1>2. PICK local : local = d.notes[o.note]
  OBVIOUS
<1>3. PICK base : base = SentText(d, o)
  OBVIOUS
<1>4. PICK rebased : rebased = IF base = Absent THEN d ELSE Rebase(d, o, revision, base)
  OBVIOUS
<1>5. PICK later \in BOOLEAN : later = HasLater(d, o)
  BY DEF HasLater
<1>6. PICK laterPin \in BOOLEAN : laterPin = (Later(d, o, "note.pin") # {})
  OBVIOUS
<1>7. PICK a : a = Acknowledged(local, o, revision, later, laterPin)
  OBVIOUS
<1>8. PICK note : note = IF local = Absent THEN Absent ELSE a
  OBVIOUS
<1>9. e = Dequeue(PutNote(rebased, o.note, note), o)
  BY <1>1, <1>2, <1>3, <1>4, <1>5, <1>6, <1>7, <1>8 DEF CommitNoteAcknowledgement, SentText
<1>10. o.note \in Notes /\ local \in Optional(Note)
  BY <1>2, DiskIs, OperationIs
<1>11. local # Absent => local \in Note
  BY <1>10 DEF Optional
<1>12. local # Absent =>
         /\ a \in Note /\ a.text = local.text /\ a.revision = revision /\ a.pending = later
         /\ a.base = IF later THEN revision ELSE Absent
  BY <1>7, <1>11, AcknowledgedTyped
<1>13. note \in Optional(Note)
  BY <1>8, <1>12 DEF Optional
<1>14. base # Absent => base \in Text
  BY <1>2, <1>3, <1>11, NoteIs, OperationIs DEF SentText
<1>15. /\ rebased \in Disk /\ rebased.notes = d.notes /\ rebased.conflicts = d.conflicts
       /\ rebased.rejected = d.rejected /\ rebased.sequence = d.sequence
       /\ rebased.queue = IF base = Absent THEN d.queue ELSE MovedQueue(d, o, revision, base)
  <2>1. CASE base = Absent
    BY <1>4, <2>1
  <2>2. CASE base # Absent
    <3>1. rebased = Rebase(d, o, revision, base) /\ base \in Text
      BY <1>4, <1>14, <2>2
    <3>2. QueueOnly(d, rebased) /\ rebased.queue = MovedQueue(d, o, revision, base)
      BY <3>1, RebaseTyped
    <3> QED BY <2>2, <3>2 DEF QueueOnly
  <2> QED BY <2>1, <2>2
<1>16. PICK f : f = PutNote(rebased, o.note, note)
  OBVIOUS
<1>17. Puts(rebased, f, o.note, note)
  BY <1>10, <1>13, <1>15, <1>16, PutTyped
<1>18. QueueOnly(f, e) /\ e.queue = f.queue \ {o}
  BY <1>9, <1>16, <1>17, DequeueTyped DEF Puts
<1>19. /\ e \in Disk /\ e.conflicts = d.conflicts /\ e.rejected = d.rejected /\ e.sequence = d.sequence
       /\ \A m : m # o.note => e.notes[m] = d.notes[m]
       /\ e.notes[o.note] = note
       /\ e.queue = (IF base = Absent THEN d.queue ELSE MovedQueue(d, o, revision, base)) \ {o}
  BY <1>15, <1>17, <1>18 DEF QueueOnly, Puts
<1> QED BY <1>1, <1>2, <1>3, <1>5, <1>8, <1>12, <1>19 DEF Committed

(* reconcile as a whole. *)
Reconciling(d, e, o, remote) ==
  /\ e \in Disk /\ e.conflicts = d.conflicts /\ e.rejected = d.rejected /\ e.sequence = d.sequence
  /\ \A m : m # o.note => e.notes[m] = d.notes[m]
  /\ e.notes[o.note] = Reconciled(d, o, remote)
  /\ e.queue = (IF remote = Absent THEN d.queue
                ELSE MovedQueue(d, o, remote.revision, remote.text)) \ {o}

LEMMA ReconcileTyped ==
  ASSUME NEW d \in Disk, NEW o \in Operation, NEW remote \in Optional(Remote)
  PROVE  Reconciling(d, ReconcileCompacted(d, o, remote), o, remote)
<1>1. PICK e : e = ReconcileCompacted(d, o, remote)
  OBVIOUS
<1>2. PICK rebased : rebased = IF remote = Absent THEN d
                               ELSE Rebase(d, o, remote.revision, remote.text)
  OBVIOUS
<1>3. PICK note : note = Reconciled(d, o, remote)
  OBVIOUS
<1>4. e = Dequeue(PutNote(rebased, o.note, note), o)
  BY <1>1, <1>2, <1>3 DEF ReconcileCompacted
<1>5. o.note \in Notes /\ d.notes[o.note] \in Optional(Note)
  BY DiskIs, OperationIs
<1>6. remote # Absent => remote \in Remote
  BY DEF Optional
<1>7. note \in Optional(Note)
  <2>1. PICK local : local = d.notes[o.note]
    OBVIOUS
  <2>2. PICK kept : kept = IF local = Absent THEN remote ELSE local
    OBVIOUS
  <2>3. CASE Rebasable(d, o) = {}
    <3>1. note = IF remote = Absent THEN Absent ELSE Settled(remote)
      BY <1>3, <2>3 DEF Reconciled
    <3> QED BY <1>6, <3>1, SettledTyped DEF Optional
  <2>4. CASE Rebasable(d, o) # {} /\ remote = Absent
    BY <1>3, <1>5, <2>4 DEF Reconciled
  <2>5. CASE Rebasable(d, o) # {} /\ remote # Absent
    <3>1. note = [text |-> kept.text, revision |-> remote.revision, pending |-> TRUE,
                  base |-> remote.revision, baseText |-> remote.text, pinned |-> kept.pinned]
      BY <1>3, <2>1, <2>2, <2>5 DEF Reconciled
    <3>2. local # Absent => local \in Note
      BY <1>5, <2>1 DEF Optional
    <3>3. kept.text \in Text /\ kept.pinned \in BOOLEAN
      BY <1>6, <2>2, <2>5, <3>2, NoteIs, RemoteIs
    <3>4. remote.revision \in Nat /\ remote.text \in Text
      BY <1>6, <2>5, RemoteIs
    <3> QED BY <3>1, <3>3, <3>4 DEF Note, Optional
  <2> QED BY <2>3, <2>4, <2>5
<1>8. /\ rebased \in Disk /\ rebased.notes = d.notes /\ rebased.conflicts = d.conflicts
      /\ rebased.rejected = d.rejected /\ rebased.sequence = d.sequence
      /\ rebased.queue = IF remote = Absent THEN d.queue
                         ELSE MovedQueue(d, o, remote.revision, remote.text)
  <2>1. CASE remote = Absent
    BY <1>2, <2>1
  <2>2. CASE remote # Absent
    <3>1. QueueOnly(d, rebased) /\ rebased.queue = MovedQueue(d, o, remote.revision, remote.text)
      BY <1>2, <1>6, <2>2, RebaseTyped, RemoteIs
    <3> QED BY <2>2, <3>1 DEF QueueOnly
  <2> QED BY <2>1, <2>2
<1>9. PICK f : f = PutNote(rebased, o.note, note)
  OBVIOUS
<1>10. Puts(rebased, f, o.note, note)
  BY <1>5, <1>7, <1>8, <1>9, PutTyped
<1>11. QueueOnly(f, e) /\ e.queue = f.queue \ {o}
  BY <1>4, <1>9, <1>10, DequeueTyped DEF Puts
<1> QED BY <1>1, <1>3, <1>8, <1>10, <1>11 DEF QueueOnly, Reconciling, Puts

(* createRemoteDeletion as a whole. *)
Deleting(d, e, o, note, base) ==
  /\ e \in Disk /\ e.rejected = d.rejected /\ e.sequence = d.sequence
  /\ \A m : m # o.note => e.notes[m] = d.notes[m] /\ e.conflicts[m] = d.conflicts[m]
  /\ e.notes[o.note] \in Note /\ e.notes[o.note] = [note EXCEPT !.pending = FALSE]
  /\ e.conflicts[o.note] = [base |-> base, local |-> note.text, remote |-> Absent]
  /\ e.queue = SupersededQueue(d, o.note, o.sequence) \ {o}

LEMMA DeletionTyped ==
  ASSUME NEW d \in Disk, NEW o \in Operation, NEW note \in Note, NEW base \in Text
  PROVE  Deleting(d, RecordRemoteDeletion(d, o, note, base), o, note, base)
<1>1. PICK v : v = [note EXCEPT !.pending = FALSE]
  OBVIOUS
<1>2. v \in Note
  BY <1>1 DEF Note
<1>3. PICK c : c = [base |-> base, local |-> note.text, remote |-> Absent]
  OBVIOUS
<1>4. c \in Conflict
  BY <1>3, NoteIs DEF Conflict, Optional
<1>5. o.note \in Notes /\ v \in Optional(Note) /\ c \in Optional(Conflict)
  BY <1>2, <1>4, OperationIs DEF Optional
<1>6. PICK f : f = PutNote(d, o.note, v)
  OBVIOUS
<1>7. Puts(d, f, o.note, v)
  BY <1>5, <1>6, PutTyped
<1>8. PICK g : g = [f EXCEPT !.conflicts[o.note] = c]
  OBVIOUS
<1>9. Files(f, g, o.note, c)
  BY <1>5, <1>7, <1>8, ConflictTyped DEF Puts
<1>10. PICK h : h = Supersede(g, o.note, o.sequence)
  OBVIOUS
<1>11. QueueOnly(g, h) /\ h.queue = SupersededQueue(g, o.note, o.sequence)
  BY <1>9, <1>10, SupersedeTyped DEF Files
<1>12. PICK e : e = RecordRemoteDeletion(d, o, note, base)
  OBVIOUS
<1>13. e = Dequeue(h, o)
  BY <1>1, <1>3, <1>6, <1>8, <1>10, <1>12 DEF RecordRemoteDeletion
<1>14. QueueOnly(h, e) /\ e.queue = h.queue \ {o}
  BY <1>11, <1>13, DequeueTyped DEF QueueOnly
<1>15. SupersededQueue(g, o.note, o.sequence) = SupersededQueue(d, o.note, o.sequence)
  BY <1>7, <1>9 DEF SupersededQueue, Puts, Files
<1> QED BY <1>1, <1>2, <1>3, <1>7, <1>9, <1>11, <1>12, <1>14, <1>15 DEF QueueOnly, Deleting, Puts, Files

LEMMA ProgramsApart ==
  /\ MergePrograms \cap ConflictPrograms = {} /\ MergePrograms \cap PinPrograms = {}
  /\ MergePrograms \cap ReplacePrograms = {} /\ MergePrograms \cap FetchPrograms = {}
  /\ ConflictPrograms \cap PinPrograms = {} /\ ConflictPrograms \cap ReplacePrograms = {}
  /\ ConflictPrograms \cap FetchPrograms = {} /\ PinPrograms \cap ReplacePrograms = {}
  /\ PinPrograms \cap FetchPrograms = {} /\ ReplacePrograms \cap FetchPrograms = {}
  /\ <<"open">> \notin FetchPrograms \cup MergePrograms \cup ConflictPrograms
                       \cup ReplacePrograms \cup PinPrograms
<1>1. MergePrograms \cap ConflictPrograms = {}
  BY DEF MergePrograms, ConflictPrograms
<1>2. MergePrograms \cap PinPrograms = {}
  BY DEF MergePrograms, PinPrograms
<1>3. MergePrograms \cap ReplacePrograms = {}
  BY DEF MergePrograms, ReplacePrograms
<1>4. MergePrograms \cap FetchPrograms = {}
  BY DEF MergePrograms, FetchPrograms
<1>5. ConflictPrograms \cap PinPrograms = {}
  BY DEF ConflictPrograms, PinPrograms
<1>6. ConflictPrograms \cap ReplacePrograms = {}
  BY DEF ConflictPrograms, ReplacePrograms
<1>7. ConflictPrograms \cap FetchPrograms = {}
  BY DEF ConflictPrograms, FetchPrograms
<1>8. PinPrograms \cap ReplacePrograms = {}
  BY DEF PinPrograms, ReplacePrograms
<1>9. PinPrograms \cap FetchPrograms = {}
  BY DEF PinPrograms, FetchPrograms
<1>10. ReplacePrograms \cap FetchPrograms = {}
  BY DEF ReplacePrograms, FetchPrograms
<1>11. <<"open">> \notin FetchPrograms \cup MergePrograms \cup ConflictPrograms
                         \cup ReplacePrograms \cup PinPrograms
  BY DEF FetchPrograms, MergePrograms, ConflictPrograms, ReplacePrograms, PinPrograms
<1> QED BY <1>1, <1>2, <1>3, <1>4, <1>5, <1>6, <1>7, <1>8, <1>9, <1>10, <1>11

(* The operation an acknowledgement is about, and its result. *)
LEMMA CurrentTyped ==
  ASSUME Inv, TypeInv, task.pc = "acks"
  PROVE  /\ Current \in Operation /\ Current \in task.batch
         /\ CurrentResult \in task.results /\ CurrentResult \in Result
         /\ CurrentResult.sequence = Current.sequence
<1>1. Current \in task.batch
  BY CurrentConsumed
<1>2. task.batch \subseteq Operation /\ task.results \subseteq Result
  BY DEF TypeInv, TaskTyped, Task
<1>3. \E r \in task.results : r.sequence = Current.sequence
  BY <1>1 DEF TypeInv, TaskTyped
<1>4. CurrentResult \in task.results /\ CurrentResult.sequence = Current.sequence
  BY <1>3 DEF CurrentResult
<1> QED BY <1>1, <1>2, <1>4

LEMMA IdleTyped ==
  ASSUME NEW limit \in Nat, NEW t, t = [IdleTask EXCEPT !.limit = limit]
  PROVE  /\ t \in Task /\ t.pc = "idle" /\ t.steps = <<>> /\ t.batch = {} /\ t.target = Absent
         /\ t.limit = limit
<1>1. t = [pc |-> "idle", limit |-> limit, batch |-> {}, results |-> {},
           target |-> Absent, steps |-> <<>>, remote |-> Absent, put |-> Absent,
           conflict |-> Absent, pinned |-> FALSE, laterSave |-> FALSE]
  BY DEF IdleTask
<1>2. <<>> \in Seq(Steps)
  OBVIOUS
<1>3. /\ t.pc = "idle" /\ t.steps = <<>> /\ t.batch = {} /\ t.target = Absent
      /\ t.limit = limit
  BY <1>1
<1>4. /\ Absent \in Optional(Notes) /\ Absent \in Optional(Remote)
      /\ Absent \in Optional(Note) /\ Absent \in Optional(Conflict)
  BY DEF Optional
<1>5. /\ {} \in SUBSET Operation /\ {} \in SUBSET Result
      /\ "idle" \in {"idle", "sent", "acks", "page"} /\ FALSE \in BOOLEAN
  OBVIOUS
<1>6. [pc |-> "idle", limit |-> limit, batch |-> {}, results |-> {},
       target |-> Absent, steps |-> <<>>, remote |-> Absent, put |-> Absent,
       conflict |-> Absent, pinned |-> FALSE, laterSave |-> FALSE] \in Task
  BY <1>2, <1>4, <1>5, SMT DEF Task
<1> QED BY <1>1, <1>3, <1>6

LEMMA IdlePrepared ==
  ASSUME task'.steps = <<>>
  PROVE  Prepared'
<1>1. <<>> \notin Programs
  BY ProgramHeads
<1>2. Step' = "none"
  BY DEF Step
<1>3. <<>> # <<"deletion">>
  OBVIOUS
<1> QED BY <1>1, <1>2, <1>3 DEF Prepared, Programs

LEMMA IdleTaskTyped ==
  ASSUME NEW limit \in Nat, task' = [IdleTask EXCEPT !.limit = limit] \/ task' = IdleTask
  PROVE  TaskTyped'
<1>1. \E l \in Nat : task' = [IdleTask EXCEPT !.limit = l]
  <2>1. IdleTask = [IdleTask EXCEPT !.limit = IdleTask.limit] /\ IdleTask.limit = BatchLimit
    BY DEF IdleTask
  <2>2. BatchLimit \in Nat
    BY SyncAssumption
  <2> QED BY <2>1, <2>2
<1>2. PICK l \in Nat : task' = [IdleTask EXCEPT !.limit = l]
  BY <1>1
<1>4. /\ task' \in Task /\ task'.pc = "idle" /\ task'.steps = <<>>
  BY <1>2, IdleTyped
<1>3. Prepared'
  BY <1>4, IdlePrepared
<1> QED BY <1>4, <1>3 DEF TaskTyped

LEMMA NextTyped ==
  ASSUME Inv, TypeInv, task.pc \in {"acks", "page"}, task' = NextAcknowledgement
  PROVE  TaskTyped'
<1> DEFINE rest == {q \in task.batch : q # Current}
<1>1. task.limit \in Nat /\ task.batch \subseteq Operation /\ task.results \subseteq Result
  BY DEF TypeInv, TaskTyped, Task
<1>2. CASE rest = {}
  BY <1>1, <1>2, IdleTaskTyped DEF NextAcknowledgement
<1>3. CASE rest # {}
  <2>1. PICK r : r = rest
    OBVIOUS
  <2>2. r \subseteq task.batch
    BY <2>1
  <2>3. task' = [IdleTask EXCEPT !.limit = task.limit, !.pc = "acks", !.batch = r,
                                 !.results = task.results]
    BY <1>3, <2>1 DEF NextAcknowledgement
  <2>4. task' = [pc |-> "acks", limit |-> task.limit, batch |-> r, results |-> task.results,
                 target |-> Absent, steps |-> <<>>, remote |-> Absent, put |-> Absent,
                 conflict |-> Absent, pinned |-> FALSE, laterSave |-> FALSE]
    BY <2>3 DEF IdleTask
  <2>5. <<>> \in Seq(Steps)
    OBVIOUS
  <2>6. task' \in Task
    BY <1>1, <2>2, <2>4, <2>5 DEF Task, Optional
  <2>7. Prepared'
    BY <2>4, IdlePrepared
  <2>8. task.pc = "acks"
    <3>1. task.batch # {}
      BY <1>3
    <3> QED BY <3>1 DEF Inv, TaskFollows
  <2>9. \A q \in r : \E x \in task.results : x.sequence = q.sequence
    BY <2>2, <2>8 DEF TypeInv, TaskTyped
  <2>10. task'.steps = <<>> /\ task'.batch = r /\ task'.results = task.results
    BY <2>4
  <2> QED BY <2>6, <2>7, <2>9, <2>10 DEF TaskTyped
<1> QED BY <1>2, <1>3

(* The next step of a program keeps what was prepared for it. *)
LEMMA TailTyped ==
  ASSUME Inv, TypeInv, task.steps # <<>>, Len(task.steps) > 1,
         task' = [task EXCEPT !.steps = Tail(task.steps)]
  PROVE  TaskTyped'
<1>1. task \in Task /\ task.steps \in Programs
  BY DEF TypeInv, TaskTyped
<1>2. PICK t : t = Tail(task.steps)
  OBVIOUS
<1>3. /\ t \in Programs
      /\ task.steps \in FetchPrograms => t \in {<<"merge">>, <<"prepare">>}
      /\ task.steps \in MergePrograms => t \in MergePrograms \cup {<<"open">>}
      /\ task.steps \in ConflictPrograms => t \in ConflictPrograms
      /\ task.steps \in ReplacePrograms => t \in ReplacePrograms
      /\ task.steps \in PinPrograms => t \in PinPrograms \cup {<<"open">>}
  BY <1>1, <1>2, ProgramTails
<1>4. task.steps # <<"open">>
  <2>1. ~(Len(<<"open">>) > 1)
    OBVIOUS
  <2> QED BY <2>1
<1>5. t \in Seq(Steps)
  BY <1>3, ProgramsOfSteps
<1>6. /\ task' \in Task /\ task'.steps = t /\ task'.pc = task.pc /\ task'.batch = task.batch
      /\ task'.results = task.results /\ task'.target = task.target
      /\ task'.remote = task.remote /\ task'.put = task.put /\ task'.conflict = task.conflict
  BY <1>1, <1>2, <1>5 DEF Task
<1>7. /\ t \in MergePrograms => task.steps \in MergePrograms
      /\ t \in ConflictPrograms => task.steps \in ConflictPrograms
      /\ t \in PinPrograms => task.steps \in PinPrograms
      /\ t # <<"deletion">>
  <2>1. {<<"merge">>, <<"prepare">>} \subseteq FetchPrograms /\ <<"deletion">> \in FetchPrograms
    BY DEF FetchPrograms
  <2>2. <<"deletion">> \notin {<<"merge">>, <<"prepare">>, <<"open">>}
    OBVIOUS
  <2> QED BY <1>1, <1>3, <1>4, <2>1, <2>2, ProgramsApart DEF Programs
<1>8. Step' # "conflict"
  <2>1. Step' = Head(t) /\ t # <<>>
    BY <1>3, <1>6, ProgramHeads DEF Step
  <2>2. SUFFICES ASSUME Head(t) = "conflict" PROVE FALSE
    BY <2>1
  <2>3. t \in ConflictPrograms
    <3>1. Head(<<"open">>) = "open"
      OBVIOUS
    <3> QED BY <1>3, <2>2, <3>1, ProgramHeads DEF Programs
  <2>4. task.steps \in ConflictPrograms
    BY <1>7, <2>3
  <2> QED BY <1>2, <2>2, <2>4 DEF ConflictPrograms
<1>9. Prepared'
  BY <1>6, <1>7, <1>8 DEF Prepared, TypeInv, TaskTyped
<1> QED BY <1>3, <1>6, <1>9 DEF TaskTyped, TypeInv

LEMMA AdvanceTyped ==
  ASSUME Inv, TypeInv, Step # "none", Advance
  PROVE  TaskTyped'
<1>1. task.pc \in {"acks", "page"} /\ task.steps # <<>>
  BY ProgramRuns
<1>2. CASE Len(task.steps) > 1
  BY <1>1, <1>2, TailTyped DEF Advance, Then
<1>3. CASE ~(Len(task.steps) > 1)
  BY <1>1, <1>3, NextTyped DEF Advance
<1> QED BY <1>2, <1>3

-----------------------------------------------------------------------------
(* What an action leaves alone keeps its shape.                              *)
LEMMA TaskStays ==
  ASSUME TypeInv, task' = task
  PROVE  TaskTyped'
BY DEF TypeInv, TaskTyped, Prepared, Step

LEMMA NetStays ==
  ASSUME TypeInv, wire' = wire, server' = server
  PROVE  NetTyped'
BY DEF TypeInv, NetTyped

LEMMA AsideStays ==
  ASSUME TypeInv, budget' = budget, owed' = owed
  PROVE  AsideTyped'
BY DEF TypeInv, AsideTyped

LEMMA UserStays ==
  ASSUME TypeInv, editor' = editor, saver' = saver, chore' = chore
  PROVE  UserTyped'
BY DEF TypeInv, UserTyped

LEMMA EditorIs ==
  ASSUME NEW ed \in Editor
  PROVE  /\ ed.note \in Optional(Notes) /\ ed.text \in Text /\ ed.saved \in Text
         /\ ed.revision \in Nat /\ ed.base \in Optional(Nat) /\ ed.dirty \in BOOLEAN
         /\ ed = [note |-> ed.note, text |-> ed.text, saved |-> ed.saved,
                  revision |-> ed.revision, base |-> ed.base, dirty |-> ed.dirty]
BY DEF Editor

LEMMA ShowingTyped ==
  ASSUME NEW n \in Notes, NEW note \in Note
  PROVE  /\ Showing(n, note) \in Editor /\ Showing(n, note).note = n
         /\ Showing(n, note).dirty = FALSE
BY NoteIs DEF Showing, Editor, Optional

LEMMA ClosedTyped ==
  /\ Closed \in Editor /\ Closed.note = Absent /\ Closed.dirty = FALSE
BY DEF Closed, Editor, Optional, Text

LEMMA OpenedTyped ==
  ASSUME NEW ed \in Editor, NEW n \in Notes, NEW note \in Note,
         NEW e, e = UpdateOpenNote(ed, n, note)
  PROVE  e \in Editor /\ (e = ed \/ (ed.note = n /\ e.note = n /\ e.dirty = FALSE))
BY ShowingTyped DEF UpdateOpenNote

LEMMA SaverIs ==
  ASSUME NEW s \in Saver
  PROVE  /\ s.pc \in {"idle", "read"} /\ s.note \in Optional(Notes) /\ s.text \in Text
         /\ s.saved \in Text /\ s.revision \in Nat /\ s.base \in Nat
         /\ s.existing \in Optional(Note) /\ s.deleted \in BOOLEAN /\ s.current \in BOOLEAN
         /\ s = [pc |-> s.pc, note |-> s.note, text |-> s.text, saved |-> s.saved,
                 revision |-> s.revision, base |-> s.base, existing |-> s.existing,
                 deleted |-> s.deleted, current |-> s.current]
BY DEF Saver

LEMMA NoSaveTyped ==
  NoSave \in Saver /\ NoSave.pc = "idle" /\ NoSave.note = Absent /\ NoSave.current = FALSE
BY DEF NoSave, Saver, Optional, Text

LEMMA SessionTyped ==
  ASSUME TypeInv, NewSession
  PROVE  /\ saver' \in Saver /\ saver'.pc = saver.pc /\ saver'.note = saver.note
         /\ saver'.current = FALSE /\ saver'.text = saver.text /\ saver'.existing = saver.existing
         /\ saver'.pc = "read" => saver'.note # Absent
<1>1. saver \in Saver
  BY DEF TypeInv, UserTyped
<1>2. saver' = [pc |-> saver.pc, note |-> saver.note, text |-> saver.text,
                saved |-> saver.saved, revision |-> saver.revision, base |-> saver.base,
                existing |-> saver.existing, deleted |-> saver.deleted, current |-> FALSE]
  <2>1. saver' = [saver EXCEPT !.current = FALSE]
    BY DEF NewSession
  <2> QED BY <1>1, <2>1 DEF Saver
<1>3. saver' \in Saver
  BY <1>1, <1>2, SaverIs DEF Saver
<1> QED BY <1>2, <1>3 DEF TypeInv, UserTyped

LEMMA ChoreIs ==
  /\ NoChore \in Chore /\ NoChore.kind = "none" /\ NoChore.note = Absent
  /\ \A c \in Chore : /\ c.kind \in {"none", "delete", "pin"} /\ c.note \in Optional(Notes)
                      /\ c.local \in Optional(Note) /\ c.unsent \in BOOLEAN
BY DEF NoChore, Chore, Optional

LEMMA UserTypes ==
  ASSUME TypeInv, disk' \in Disk, UserTyped', AsideTyped', UNCHANGED network
  PROVE  TypeInv'
<1>1. task' = task /\ wire' = wire /\ server' = server
  BY DEF network
<1> QED BY <1>1, TaskStays, NetStays DEF TypeInv

LEMMA CachedTyped ==
  ASSUME TypeInv, NEW n \in Notes
  PROVE  /\ disk \in Disk /\ disk.notes[n] \in Optional(Note)
         /\ disk.notes[n] # Absent => disk.notes[n] \in Note
         /\ disk.conflicts[n] \in Optional(Conflict)
         /\ disk.conflicts[n] # Absent => disk.conflicts[n] \in Conflict
BY DiskIs DEF TypeInv, Optional

LEMMA ConflictIs ==
  ASSUME NEW c \in Conflict
  PROVE  /\ c.base \in Text /\ c.local \in Text /\ c.remote \in Optional(Remote)
         /\ c.remote # Absent => c.remote \in Remote
BY DEF Conflict, Optional

LEMMA BudgetIs ==
  ASSUME TypeInv
  PROVE  /\ budget.typed \in 0 .. MaxTyped /\ budget.remote \in 0 .. MaxRemote
         /\ budget.actions \in Nat /\ budget.faults \in Nat /\ budget.fresh \subseteq Notes
         /\ MaxTyped \in Nat /\ MaxRemote \in Nat /\ budget \in Budget
BY SyncAssumption DEF TypeInv, AsideTyped, Budget

LEMMA OpenTypes ==
  ASSUME TypeInv, NEW n \in Notes, Open(n)
  PROVE  TypeInv'
<1>1. disk.notes[n] \in Note
  BY CachedTyped DEF Open
<1>2. editor' \in Editor /\ editor'.dirty = FALSE
  BY <1>1, ShowingTyped DEF Open
<1>3. UserTyped'
  BY <1>2, SessionTyped DEF UserTyped, TypeInv, Open
<1>4. disk' \in Disk
  BY DEF Open, TypeInv
<1>5. AsideTyped' /\ UNCHANGED network
  BY AsideStays DEF Open, asides
<1> QED BY <1>3, <1>4, <1>5, UserTypes

LEMMA StartTypes ==
  ASSUME TypeInv, NEW n \in Notes, StartNewNote(n)
  PROVE  TypeInv'
<1>1. editor' = [note |-> n, text |-> {}, saved |-> {}, revision |-> 0, base |-> Absent,
                 dirty |-> FALSE]
  BY DEF StartNewNote, Closed
<1>2. editor' \in Editor /\ editor'.dirty = FALSE
  <2>1. n \in Optional(Notes) /\ Absent \in Optional(Nat) /\ {} \in Text /\ 0 \in Nat
    BY DEF Optional, Text
  <2> QED BY <1>1, <2>1 DEF Editor
<1>3. UserTyped'
  BY <1>2, SessionTyped DEF UserTyped, TypeInv, StartNewNote
<1>4. disk' \in Disk
  BY DEF StartNewNote, TypeInv
<1>5. budget' \in Budget
  <2>1. budget' = [budget EXCEPT !.fresh = @ \ {n}]
    BY DEF StartNewNote
  <2> QED BY <2>1, BudgetIs DEF Budget
<1>6. AsideTyped' /\ UNCHANGED network
  BY <1>5 DEF StartNewNote, AsideTyped, TypeInv
<1> QED BY <1>3, <1>4, <1>6, UserTypes

LEMMA CloseTypes ==
  ASSUME TypeInv, Close
  PROVE  TypeInv'
<1>1. UserTyped'
  BY ClosedTyped, SessionTyped DEF UserTyped, TypeInv, Close
<1>2. disk' \in Disk
  BY DEF Close, TypeInv
<1>3. AsideTyped' /\ UNCHANGED network
  BY AsideStays DEF Close, asides
<1> QED BY <1>1, <1>2, <1>3, UserTypes

LEMMA TypeTypes ==
  ASSUME TypeInv, Type
  PROVE  TypeInv'
<1>1. PICK edit : edit = MaxTyped - budget.typed + 1
  OBVIOUS
<1>2. edit \in Edits
  <2>1. budget.typed \in 1 .. MaxTyped /\ MaxTyped \in Nat /\ MaxRemote \in Nat
    BY BudgetIs DEF Type
  <2>2. edit \in 1 .. MaxTyped
    BY <1>1, <2>1
  <2> QED BY <2>1, <2>2, SyncAssumption
<1>3. PICK text : text = editor.text \cup {edit}
  OBVIOUS
<1>4. editor \in Editor
  BY DEF TypeInv, UserTyped
<1>5. text \in Text
  BY <1>2, <1>3, <1>4, EditorIs DEF Text
<1>6. editor' = [editor EXCEPT !.text = text, !.dirty = TRUE]
  BY <1>1, <1>3 DEF Type
<1>7. editor' = [note |-> editor.note, text |-> text, saved |-> editor.saved,
                 revision |-> editor.revision, base |-> editor.base, dirty |-> TRUE]
  BY <1>4, <1>6 DEF Editor
<1>8. editor' \in Editor /\ editor'.note = editor.note
  BY <1>4, <1>5, <1>7, EditorIs DEF Editor
<1>9. UserTyped'
  BY <1>8 DEF UserTyped, TypeInv, Type
<1>10. disk' \in Disk
  BY DEF Type, TypeInv
<1>11. budget' \in Budget
  <2>1. budget' = [budget EXCEPT !.typed = budget.typed - 1] /\ budget.typed > 0
    BY DEF Type
  <2>2. budget.typed - 1 \in 0 .. MaxTyped
    BY <2>1, BudgetIs
  <2> QED BY <2>1, <2>2, BudgetIs DEF Budget
<1>12. AsideTyped' /\ UNCHANGED network
  BY <1>11 DEF Type, AsideTyped, TypeInv
<1> QED BY <1>9, <1>10, <1>12, UserTypes

LEMMA SaveStartsTyped ==
  ASSUME TypeInv, SaveStarts
  PROVE  /\ saver' \in Saver /\ saver'.pc = "read" /\ saver'.note = editor.note
         /\ saver'.note # Absent /\ saver'.current = TRUE /\ saver'.text = editor.text
<1>1. editor \in Editor /\ editor.note # Absent /\ editor.note \in Notes
  <2>1. editor \in Editor /\ editor.note # Absent
    BY DEF SaveStarts, TypeInv, UserTyped
  <2> QED BY <2>1, EditorIs DEF Optional
<1>2. PICK base : base = Or(editor.base, editor.revision)
  OBVIOUS
<1>3. base \in Nat
  BY <1>1, <1>2, EditorIs, OrTyped
<1>4. PICK deleted \in BOOLEAN : deleted = IsDeletion(disk.conflicts[editor.note])
  BY DEF IsDeletion
<1>5. saver' = [pc |-> "read", note |-> editor.note, text |-> editor.text,
                saved |-> editor.saved, revision |-> editor.revision, base |-> base,
                existing |-> disk.notes[editor.note], deleted |-> deleted, current |-> TRUE]
  BY <1>2, <1>4 DEF SaveStarts, Snapshot
<1>6. disk.notes[editor.note] \in Optional(Note)
  BY <1>1, CachedTyped
<1>7. saver' \in Saver
  BY <1>1, <1>3, <1>5, <1>6, EditorIs DEF Saver
<1> QED BY <1>1, <1>5, <1>7

LEMMA BeginSaveTypes ==
  ASSUME TypeInv, BeginSave
  PROVE  TypeInv'
<1>1. UserTyped'
  BY SaveStartsTyped DEF UserTyped, TypeInv, BeginSave
<1>2. disk' \in Disk
  BY DEF BeginSave, TypeInv
<1>3. AsideTyped' /\ UNCHANGED network
  BY AsideStays DEF BeginSave, asides
<1> QED BY <1>1, <1>2, <1>3, UserTypes

(* A note that is stored together with the operation that will send it. *)
Stores(d, e, n, note, r) ==
  /\ e \in Disk /\ e.notes[n] = note /\ \A m : m # n => e.notes[m] = d.notes[m]
  /\ e.conflicts = d.conflicts /\ e.rejected = d.rejected \ {r.note}
  /\ \E old, new : Enqueues(d, e, r, old, new)

LEMMA StoringTyped ==
  ASSUME NEW d \in Disk, Ordered(d), NEW n \in Notes, NEW note \in Optional(Note), NEW r \in Request
  PROVE  Stores(d, QueueOperation(PutNote(d, n, note), r), n, note, r)
<1>1. PICK f : f = PutNote(d, n, note)
  OBVIOUS
<1>2. Puts(d, f, n, note)
  BY <1>1, PutTyped
<1>3. Ordered(f) /\ f \in Disk
  <2>1. Beside(d, d)
    BY BesideReflexive
  <2>2. Beside(d, f)
    BY <1>1, <2>1, PutNoteBeside
  <2> QED BY <1>2, <2>2, BesideIsOrdered DEF Puts
<1>4. PICK e : e = QueueOperation(f, r)
  OBVIOUS
<1>5. Queueing(f, e, r)
  BY <1>3, <1>4, QueueingTyped
<1>6. PICK old, new : Enqueues(f, e, r, old, new)
  BY <1>5 DEF Queueing
<1>7. f.queue = d.queue /\ f.sequence = d.sequence
  BY <1>2 DEF Puts
<1>8. Enqueues(d, e, r, old, new)
  BY <1>6, <1>7 DEF Enqueues, Appends, Coalesces, Travels
<1>9. Stores(d, e, n, note, r)
  BY <1>2, <1>5, <1>8 DEF Stores, Queueing, Puts
<1> QED BY <1>1, <1>4, <1>9

(* The version a save stores. *)
LEMMA LocalVersionTyped ==
  ASSUME TypeInv, saver.pc = "read"
  PROVE  /\ LocalVersion \in Note /\ LocalVersion.pending = TRUE /\ LocalVersion.text = saver.text
         /\ saver.note \in Notes /\ Expected \in Optional(Note)
<1>1. saver \in Saver /\ saver.note # Absent
  BY DEF TypeInv, UserTyped
<1>2. PICK existing : existing = saver.existing
  OBVIOUS
<1>3. existing \in Optional(Note) /\ (existing # Absent => existing \in Note)
  BY <1>1, <1>2, SaverIs DEF Optional
<1>4. PICK revision : revision = IF existing = Absent THEN saver.revision ELSE existing.revision
  OBVIOUS
<1>5. PICK base : base = IF IsPending(existing) THEN existing.base ELSE saver.base
  OBVIOUS
<1>6. PICK baseText : baseText = IF existing = Absent THEN {}
                                 ELSE IF IsPending(existing) THEN Or(existing.baseText, {})
                                 ELSE existing.text
  OBVIOUS
<1>7. PICK pinned \in BOOLEAN : pinned = (existing # Absent /\ existing.pinned)
  OBVIOUS
<1>8. LocalVersion = [text |-> saver.text, revision |-> revision, pending |-> TRUE,
                      base |-> base, baseText |-> baseText, pinned |-> pinned]
  BY <1>2, <1>4, <1>5, <1>6, <1>7 DEF LocalVersion
<1>9. revision \in Nat
  BY <1>1, <1>3, <1>4, SaverIs, NoteIs
<1>10. base \in Optional(Nat)
  BY <1>1, <1>3, <1>5, SaverIs, NoteIs DEF IsPending, Optional
<1>11. baseText \in Optional(Text)
  <2>1. {} \in Text
    BY DEF Text
  <2>2. existing # Absent => Or(existing.baseText, {}) \in Text /\ existing.text \in Text
    BY <1>3, <2>1, NoteIs, OrTyped
  <2> QED BY <1>6, <2>1, <2>2 DEF Optional
<1>12. saver.text \in Text
  BY <1>1, SaverIs
<1>13. LocalVersion \in Note
  BY <1>8, <1>9, <1>10, <1>11, <1>12 DEF Note
<1>14. Expected \in Optional(Note)
  BY <1>2, <1>3 DEF Expected, Optional
<1>15. saver.note \in Notes
  BY <1>1, SaverIs DEF Optional
<1> QED BY <1>8, <1>13, <1>14, <1>15

LEMMA RebasedTyped ==
  ASSUME NEW d \in Disk, NEW n \in Notes, NEW note \in Note, NEW expected \in Optional(Note),
         NEW saved, saved = Rebased(d, n, note, expected)
  PROVE  saved \in Note /\ saved.text = note.text /\ saved.pending = note.pending
<1>1. PICK current : current = d.notes[n]
  OBVIOUS
<1>2. current # Absent => current \in Note
  BY <1>1, DiskIs DEF Optional
<1>3. CASE saved = note
  BY <1>3
<1>4. CASE saved # note
  <2>1. /\ current # Absent
        /\ saved = [note EXCEPT
              !.revision = current.revision,
              !.base     = IF current.pending THEN current.base ELSE current.revision,
              !.baseText = IF current.pending THEN current.baseText ELSE current.text]
    BY <1>1, <1>4 DEF Rebased
  <2>2. PICK base : base = IF current.pending THEN current.base ELSE current.revision
    OBVIOUS
  <2>3. PICK baseText : baseText = IF current.pending THEN current.baseText ELSE current.text
    OBVIOUS
  <2>4. saved = [text |-> note.text, revision |-> current.revision, pending |-> note.pending,
                 base |-> base, baseText |-> baseText, pinned |-> note.pinned]
    BY <2>1, <2>2, <2>3, NoteIs
  <2>5. base \in Optional(Nat) /\ baseText \in Optional(Text)
    BY <1>2, <2>1, <2>2, <2>3, NoteIs DEF Optional
  <2>6. saved \in Note
    BY <1>2, <2>1, <2>4, <2>5, NoteIs DEF Note
  <2> QED BY <2>4, <2>6
<1> QED BY <1>3, <1>4

(* finishPersist changes neither the note nor the text of the editor. *)
LEMMA FinishTyped ==
  ASSUME TypeInv, NEW base \in Optional(Nat), FinishPersist(base)
  PROVE  /\ editor' \in Editor /\ editor'.note = editor.note /\ editor'.text = editor.text
         /\ editor'.dirty => editor.dirty
         /\ editor'.dirty => editor'.note # Absent
         /\ editor'.revision = editor.revision
         /\ editor' = editor \/ (editor'.dirty = FALSE /\ editor'.saved = saver.text
                                 /\ editor.text = saver.text /\ editor'.base = base)
<1>1. editor \in Editor /\ saver \in Saver /\ (editor.dirty => editor.note # Absent)
  BY DEF TypeInv, UserTyped
<1>2. CASE editor' = editor
  BY <1>1, <1>2
<1>3. CASE editor' # editor
  <2>1. /\ editor' = [editor EXCEPT !.base = base, !.saved = saver.text, !.dirty = FALSE]
        /\ editor.text = saver.text
    BY <1>3 DEF FinishPersist
  <2>2. editor' = [note |-> editor.note, text |-> editor.text, saved |-> saver.text,
                   revision |-> editor.revision, base |-> base, dirty |-> FALSE]
    BY <1>1, <2>1 DEF Editor
  <2>3. editor' \in Editor
    BY <1>1, <2>2, EditorIs, SaverIs DEF Editor
  <2> QED BY <2>1, <2>2, <2>3
<1> QED BY <1>2, <1>3

LEMMA SavesTyped ==
  ASSUME TypeInv, budget' = budget, NEW n, Saves(n)
  PROVE  AsideTyped'
<1>1. saver.text \in Text /\ owed \subseteq Edits
  BY SaverIs DEF TypeInv, UserTyped, AsideTyped
<1>2. owed' \subseteq Edits
  BY <1>1 DEF Saves, Text
<1> QED BY <1>2, BudgetIs DEF AsideTyped

LEMMA PersistNoteStores ==
  ASSUME Inv, TypeInv, PersistNote
  PROVE  \E saved \in Note :
           /\ saved.text = saver.text /\ saved.pending = TRUE
           /\ saved = Rebased(disk, saver.note, LocalVersion, Expected)
           /\ Stores(disk, disk', saver.note, saved, Save(saver.note, saved.base, saved))
           /\ FinishPersist(saved.base)
<1>1. saver.pc = "read"
  BY DEF PersistNote
<1>2. PICK n \in Notes : n = saver.note
  BY <1>1, LocalVersionTyped
<1>3. PICK saved : saved = Rebased(disk, n, LocalVersion, Expected)
  OBVIOUS
<1>4. disk \in Disk /\ Ordered(disk)
  BY DEF TypeInv, Inv, Shaped
<1>5. saved \in Note /\ saved.text = saver.text /\ saved.pending = TRUE
  BY <1>1, <1>3, <1>4, LocalVersionTyped, RebasedTyped
<1>6. disk' = QueueOperation(PutNote(disk, n, saved), Save(n, saved.base, saved))
  BY <1>2, <1>3 DEF PersistNote, SaveLocalNoteAndQueue
<1>7. Save(n, saved.base, saved) \in Request /\ saved \in Optional(Note)
  BY <1>5, NoteIs, RequestsTyped DEF Optional
<1>8. PICK e : e = QueueOperation(PutNote(disk, n, saved), Save(n, saved.base, saved))
  OBVIOUS
<1>9. Stores(disk, e, n, saved, Save(n, saved.base, saved))
  BY <1>4, <1>7, <1>8, StoringTyped
<1>10. e.notes[n] = saved
  BY <1>9 DEF Stores
<1>11. FinishPersist(saved.base)
  BY <1>2, <1>3, <1>8, <1>10 DEF PersistNote, SaveLocalNoteAndQueue
<1> QED BY <1>2, <1>3, <1>5, <1>6, <1>8, <1>9, <1>11

LEMMA PersistNoteTypes ==
  ASSUME Inv, TypeInv, PersistNote
  PROVE  TypeInv'
<1>1. PICK saved \in Note :
        /\ Stores(disk, disk', saver.note, saved, Save(saver.note, saved.base, saved))
        /\ FinishPersist(saved.base)
  BY PersistNoteStores
<1>2. editor' \in Editor /\ (editor'.dirty => editor'.note # Absent)
  BY <1>1, NoteIs, FinishTyped
<1>3. saver' = NoSave /\ UNCHANGED <<chore, network, budget>> /\ Saves(saver.note)
  BY DEF PersistNote
<1>4. UserTyped'
  BY <1>2, <1>3, NoSaveTyped DEF UserTyped, TypeInv
<1>5. AsideTyped'
  BY <1>3, SavesTyped
<1>6. disk' \in Disk
  BY <1>1 DEF Stores
<1> QED BY <1>3, <1>4, <1>5, <1>6, UserTypes

(* A note that is stored together with a conflict about it. *)
LEMMA PersistConflictStores ==
  ASSUME TypeInv, PersistConflict
  PROVE  /\ disk' \in Disk /\ disk'.queue = disk.queue /\ disk'.rejected = disk.rejected
         /\ disk'.sequence = disk.sequence
         /\ disk'.notes[saver.note] \in Note /\ disk'.notes[saver.note].pending = FALSE
         /\ disk'.notes[saver.note].text = saver.text
         /\ disk'.notes[saver.note] = [LocalVersion EXCEPT !.pending = FALSE]
         /\ disk'.conflicts[saver.note] \in Conflict
         /\ disk'.conflicts[saver.note].local = saver.text
         /\ disk'.conflicts[saver.note].remote = Absent
         /\ \A m : m # saver.note => /\ disk'.notes[m] = disk.notes[m]
                                     /\ disk'.conflicts[m] = disk.conflicts[m]
         /\ saver.note \in Notes
<1>1. saver.pc = "read"
  BY DEF PersistConflict
<1>2. PICK n \in Notes : n = saver.note
  BY <1>1, LocalVersionTyped
<1>3. PICK v \in Note : v = LocalVersion /\ v.text = saver.text
  BY <1>1, LocalVersionTyped
<1>4. PICK local : local = [v EXCEPT !.pending = FALSE]
  OBVIOUS
<1>5. local = [text |-> v.text, revision |-> v.revision, pending |-> FALSE, base |-> v.base,
               baseText |-> v.baseText, pinned |-> v.pinned]
  BY <1>4 DEF Note
<1>6. local \in Note
  BY <1>5, NoteIs DEF Note
<1>7. PICK base : base = Or(local.baseText, {})
  OBVIOUS
<1>8. base \in Text
  <2>1. {} \in Text
    BY DEF Text
  <2> QED BY <1>6, <1>7, <2>1, NoteIs, OrTyped
<1>9. PICK c : c = [base |-> base, local |-> local.text, remote |-> Absent]
  OBVIOUS
<1>10. c \in Conflict
  BY <1>6, <1>8, <1>9, NoteIs DEF Conflict, Optional
<1>11. PICK f : f = PutNote(disk, n, local)
  OBVIOUS
<1>12. local \in Optional(Note) /\ c \in Optional(Conflict) /\ disk \in Disk
  BY <1>6, <1>10 DEF Optional, TypeInv
<1>13. Puts(disk, f, n, local)
  BY <1>11, <1>12, PutTyped
<1>14. disk' = [f EXCEPT !.conflicts[n] = c]
  BY <1>2, <1>3, <1>4, <1>7, <1>9, <1>11 DEF PersistConflict
<1>15. PICK e : e = [f EXCEPT !.conflicts[n] = c]
  OBVIOUS
<1>16. Files(f, e, n, c)
  BY <1>12, <1>13, <1>15, ConflictTyped DEF Puts
<1>17. disk' = e
  BY <1>14, <1>15
<1>18. e.notes[n] = local /\ e.conflicts[n] = c
  BY <1>13, <1>16 DEF Puts, Files
<1>19. /\ e \in Disk /\ e.queue = disk.queue /\ e.rejected = disk.rejected
       /\ e.sequence = disk.sequence
       /\ \A m : m # n => e.notes[m] = disk.notes[m] /\ e.conflicts[m] = disk.conflicts[m]
  BY <1>13, <1>16 DEF Puts, Files
<1>20. local = [LocalVersion EXCEPT !.pending = FALSE]
  BY <1>3, <1>4
<1>21. local.pending = FALSE /\ local.text = saver.text
  BY <1>3, <1>5
<1>22. c.local = saver.text /\ c.remote = Absent
  BY <1>9, <1>21
<1>23. /\ e.notes[n] \in Note /\ e.notes[n].pending = FALSE /\ e.notes[n].text = saver.text
       /\ e.notes[n] = [LocalVersion EXCEPT !.pending = FALSE]
  BY <1>6, <1>18, <1>20, <1>21
<1>24. /\ e.conflicts[n] \in Conflict /\ e.conflicts[n].local = saver.text
       /\ e.conflicts[n].remote = Absent
  BY <1>10, <1>18, <1>22
<1> QED BY <1>2, <1>17, <1>19, <1>23, <1>24

LEMMA PersistConflictTypes ==
  ASSUME TypeInv, PersistConflict
  PROVE  TypeInv'
<1>1. disk' \in Disk
  BY PersistConflictStores
<1>2. saver' = NoSave /\ UNCHANGED <<chore, network, budget>> /\ Saves(saver.note) /\ FinishPersist(Absent)
  BY DEF PersistConflict
<1>3. Absent \in Optional(Nat)
  BY DEF Optional
<1>4. editor' \in Editor /\ (editor'.dirty => editor'.note # Absent)
  BY <1>2, <1>3, FinishTyped
<1>5. UserTyped'
  BY <1>2, <1>4, NoSaveTyped DEF UserTyped, TypeInv
<1>6. AsideTyped'
  BY <1>2, SavesTyped
<1> QED BY <1>1, <1>2, <1>5, <1>6, UserTypes

LEMMA ActTyped ==
  ASSUME TypeInv, Act
  PROVE  budget' \in Budget /\ budget'.fresh = budget.fresh
<1>1. budget' = [budget EXCEPT !.actions = budget.actions - 1] /\ budget.actions > 0
  BY DEF Act
<1>2. budget.actions - 1 \in Nat
  BY <1>1, BudgetIs
<1> QED BY <1>1, <1>2, BudgetIs DEF Budget

LEMMA BeginDeleteTypes ==
  ASSUME TypeInv, BeginDelete
  PROVE  TypeInv'
<1>1. PICK n \in Notes : n = editor.note
  BY EditorIs DEF TypeInv, UserTyped, BeginDelete, Optional
<1>2. PICK local \in Note : local = disk.notes[n]
  BY <1>1, CachedTyped DEF BeginDelete
<1>3. PICK unsent \in BOOLEAN : unsent = (/\ Queued(disk, n) # {}
                                          /\ \A q \in Queued(disk, n) : ~q.attempted
                                          /\ Or(disk.notes[n].base, 0) = 0)
  OBVIOUS
<1>4. chore' = [kind |-> "delete", note |-> n, local |-> local, unsent |-> unsent]
  BY <1>1, <1>2, <1>3 DEF BeginDelete
<1>5. n \in Optional(Notes) /\ local \in Optional(Note) /\ n # Absent /\ local # Absent
  BY <1>1, <1>2 DEF Optional, BeginDelete
<1>6. chore' \in Chore /\ chore'.note # Absent /\ chore'.local # Absent
  BY <1>4, <1>5 DEF Chore
<1>7. UserTyped'
  BY <1>6 DEF UserTyped, TypeInv, BeginDelete
<1>8. disk' \in Disk /\ AsideTyped' /\ UNCHANGED network
  BY ActTyped DEF BeginDelete, TypeInv, AsideTyped
<1> QED BY <1>7, <1>8, UserTypes

LEMMA BeginPinTypes ==
  ASSUME TypeInv, NEW n \in Notes, BeginPin(n)
  PROVE  TypeInv'
<1>1. PICK local \in Note : local = disk.notes[n]
  BY CachedTyped DEF BeginPin
<1>2. chore' = [kind |-> "pin", note |-> n, local |-> local, unsent |-> FALSE]
  BY <1>1 DEF BeginPin
<1>3. n # Absent /\ local # Absent
  BY <1>1, StoreAssumption DEF BeginPin
<1>4. n \in Optional(Notes) /\ local \in Optional(Note)
  BY <1>1 DEF Optional
<1>5. chore' \in Chore /\ chore'.note # Absent /\ chore'.local # Absent
  BY <1>2, <1>3, <1>4 DEF Chore
<1>6. UserTyped'
  BY <1>5 DEF UserTyped, TypeInv, BeginPin
<1>7. disk' \in Disk /\ AsideTyped' /\ UNCHANGED network
  BY ActTyped DEF BeginPin, TypeInv, AsideTyped
<1> QED BY <1>6, <1>7, UserTypes

LEMMA ChoreTyped ==
  ASSUME TypeInv, chore.kind # "none"
  PROVE  chore.note \in Notes /\ chore.local \in Note
BY ChoreIs DEF TypeInv, UserTyped, Optional

(* A note that is removed: with its operations when the server never saw     *)
(* them, and otherwise with the deletion queued.                             *)
Removes(d, e, n) ==
  /\ e \in Disk /\ e.notes[n] = Absent /\ \A m : m # n => e.notes[m] = d.notes[m]
  /\ e.conflicts = d.conflicts /\ e.rejected \in {d.rejected, d.rejected \ {n}}

LEMMA DeleteNoteRemoves ==
  ASSUME Inv, TypeInv, DeleteNote
  PROVE  /\ chore.note \in Notes /\ chore.local \in Note
         /\ Removes(disk, disk', chore.note)
         /\ chore.unsent => disk'.queue = SupersededQueue(disk, chore.note, 0)
         /\ ~chore.unsent =>
              \E base \in Nat : Stores(disk, disk', chore.note, Absent, DeleteRequest(chore.note, base))
<1>1. chore.kind = "delete"
  BY DEF DeleteNote
<1>2. PICK n \in Notes : n = chore.note
  BY <1>1, ChoreTyped
<1>3. PICK local \in Note : local = chore.local
  BY <1>1, ChoreTyped
<1>4. PICK base : base = Or(local.base, local.revision)
  OBVIOUS
<1>5. base \in Nat
  BY <1>4, NoteIs, OrTyped
<1>6. disk \in Disk /\ Ordered(disk) /\ Absent \in Optional(Note)
  BY RemoveTyped DEF TypeInv, Inv, Shaped
<1>7. CASE chore.unsent
  <2>1. PICK f : f = PutNote(disk, n, Absent)
    OBVIOUS
  <2>2. Puts(disk, f, n, Absent)
    BY <1>6, <2>1, PutTyped
  <2>3. PICK e : e = Supersede(f, n, 0)
    OBVIOUS
  <2>4. QueueOnly(f, e) /\ e.queue = SupersededQueue(f, n, 0)
    BY <2>2, <2>3, SupersedeTyped DEF Puts
  <2>5. disk' = e
    BY <1>2, <1>7, <2>1, <2>3, RemoveTyped DEF DeleteNote, RemoveLocalNoteAndSupersede
  <2>6. e.queue = SupersededQueue(disk, n, 0)
    BY <2>2, <2>4 DEF Puts, SupersededQueue
  <2>7. Removes(disk, e, n)
    BY <2>2, <2>4 DEF Puts, QueueOnly, Removes
  <2> QED BY <1>2, <1>3, <1>7, <2>5, <2>6, <2>7
<1>8. CASE ~chore.unsent
  <2>1. PICK r \in Request : r = DeleteRequest(n, base)
    <3>1. base \in Optional(Nat)
      BY <1>5 DEF Optional
    <3> QED BY <3>1, RequestsTyped
  <2>2. PICK e : e = QueueOperation(PutNote(disk, n, Absent), r)
    OBVIOUS
  <2>3. Stores(disk, e, n, Absent, r)
    BY <1>6, <2>2, StoringTyped
  <2>4. disk' = e
    BY <1>2, <1>3, <1>4, <1>8, <2>1, <2>2, RemoveTyped DEF DeleteNote
  <2>5. r.note = n
    BY <2>1 DEF DeleteRequest
  <2>6. Removes(disk, e, n)
    BY <2>3, <2>5 DEF Stores, Removes
  <2> QED BY <1>2, <1>3, <1>5, <1>8, <2>1, <2>3, <2>4, <2>6
<1> QED BY <1>7, <1>8

LEMMA DeleteNoteTypes ==
  ASSUME Inv, TypeInv, DeleteNote
  PROVE  TypeInv'
<1>1. disk' \in Disk
  BY DeleteNoteRemoves DEF Removes
<1>2. editor' = Closed /\ NewSession /\ chore' = NoChore /\ UNCHANGED <<network, budget>>
      /\ owed' \subseteq owed
  BY DEF DeleteNote
<1>3. UserTyped'
  BY <1>2, ClosedTyped, SessionTyped, ChoreIs DEF UserTyped
<1>4. AsideTyped'
  BY <1>2, BudgetIs DEF AsideTyped, TypeInv
<1> QED BY <1>1, <1>2, <1>3, <1>4, UserTypes

LEMMA PinNoteStores ==
  ASSUME Inv, TypeInv, PinNote
  PROVE  /\ chore.note \in Notes /\ chore.local \in Note
         /\ \E v \in Note, base \in Nat :
              /\ v.text = chore.local.text /\ v.revision = chore.local.revision
              /\ v.pending = TRUE /\ v.base = base
              /\ base = IF chore.local.pending THEN Or(chore.local.base, chore.local.revision)
                        ELSE chore.local.revision
              /\ Stores(disk, disk', chore.note, v, PinRequest(chore.note, base, ~chore.local.pinned))
<1>1. chore.kind = "pin"
  BY DEF PinNote
<1>2. PICK n \in Notes : n = chore.note
  BY <1>1, ChoreTyped
<1>3. PICK local \in Note : local = chore.local
  BY <1>1, ChoreTyped
<1>4. PICK base : base = IF local.pending THEN Or(local.base, local.revision) ELSE local.revision
  OBVIOUS
<1>5. base \in Nat
  BY <1>4, NoteIs, OrTyped
<1>6. PICK pinned \in BOOLEAN : pinned = ~local.pinned
  BY NoteIs
<1>7. PICK v : v = [local EXCEPT !.pinned = pinned, !.pending = TRUE, !.base = base]
  OBVIOUS
<1>8. v = [text |-> local.text, revision |-> local.revision, pending |-> TRUE, base |-> base,
           baseText |-> local.baseText, pinned |-> pinned]
  BY <1>7 DEF Note
<1>9. v \in Note /\ base \in Optional(Nat)
  BY <1>5, <1>8, NoteIs DEF Note, Optional
<1>10. PICK r \in Request : r = PinRequest(n, base, pinned)
  BY <1>9, RequestsTyped
<1>11. disk \in Disk /\ Ordered(disk) /\ v \in Optional(Note)
  BY <1>9 DEF TypeInv, Inv, Shaped, Optional
<1>12. PICK e : e = QueueOperation(PutNote(disk, n, v), r)
  OBVIOUS
<1>13. Stores(disk, e, n, v, r)
  BY <1>11, <1>12, StoringTyped
<1>14. disk' = e
  BY <1>2, <1>3, <1>4, <1>6, <1>7, <1>10, <1>12 DEF PinNote
<1> QED BY <1>2, <1>3, <1>4, <1>5, <1>6, <1>8, <1>9, <1>10, <1>13, <1>14

LEMMA PinNoteTypes ==
  ASSUME Inv, TypeInv, PinNote
  PROVE  TypeInv'
<1>1. disk' \in Disk
  BY PinNoteStores DEF Stores
<1>2. chore' = NoChore /\ UNCHANGED <<editor, saver, network, budget, owed>>
  BY DEF PinNote
<1>3. UserTyped'
  BY <1>2, ChoreIs DEF UserTyped, TypeInv
<1> QED BY <1>1, <1>2, <1>3, AsideStays, UserTypes

(* The resolutions of a conflict. *)
LEMMA ResolvesTypes ==
  ASSUME TypeInv, NEW n \in Notes, NEW after \in Disk, NEW n2 \in Optional(Notes), NEW text,
         n2 # Absent => after.notes[n2] \in Note,
         disk.conflicts[n] # Absent, budget' \in Budget, Resolves(n, after, n2, text)
  PROVE  /\ TypeInv' /\ Files(after, disk', n, Absent)
         /\ n2 = Absent => editor' = (IF editor.note = n THEN Closed ELSE editor)
         /\ n2 # Absent => \/ editor'.note = n2 /\ editor'.dirty = FALSE
                           \/ editor' = [editor EXCEPT !.note = n2, !.dirty = FALSE]
<1>1. Absent \in Optional(Conflict)
  BY DEF Optional
<1>2. PICK e : e = [after EXCEPT !.conflicts[n] = Absent]
  OBVIOUS
<1>3. Files(after, e, n, Absent)
  BY <1>1, <1>2, ConflictTyped
<1>4. disk' = e
  BY <1>2 DEF Resolves
<1>5. editor \in Editor
  BY DEF TypeInv, UserTyped
<1>6. /\ editor' \in Editor /\ (editor'.dirty => editor'.note # Absent)
      /\ n2 = Absent => editor' = (IF editor.note = n THEN Closed ELSE editor)
      /\ n2 # Absent => \/ editor'.note = n2 /\ editor'.dirty = FALSE
                        \/ editor' = [editor EXCEPT !.note = n2, !.dirty = FALSE]
  <2>1. CASE n2 = Absent
    <3>1. editor' = IF editor.note = n THEN Closed ELSE editor
      BY <2>1 DEF Resolves
    <3>2. editor.dirty => editor.note # Absent
      BY DEF TypeInv, UserTyped
    <3> QED BY <1>5, <2>1, <3>1, <3>2, ClosedTyped
  <2>2. CASE n2 # Absent
    <3>1. PICK ed : ed = [editor EXCEPT !.note = n2, !.dirty = FALSE]
      OBVIOUS
    <3>2. ed = [note |-> n2, text |-> editor.text, saved |-> editor.saved,
                revision |-> editor.revision, base |-> editor.base, dirty |-> FALSE]
      BY <1>5, <3>1 DEF Editor
    <3>3. ed \in Editor /\ ed.dirty = FALSE
      BY <1>5, <3>2, EditorIs DEF Editor
    <3>4. editor' = UpdateOpenNote(ed, n2, after.notes[n2])
      BY <2>2, <3>1 DEF Resolves
    <3>5. n2 \in Notes
      BY <2>2 DEF Optional
    <3>7. PICK v \in Note : v = after.notes[n2]
      BY <2>2
    <3>8. PICK shown : shown = editor'
      OBVIOUS
    <3>9. shown = UpdateOpenNote(ed, n2, v)
      BY <3>4, <3>7, <3>8
    <3>10. ed \in Editor
      BY <3>3
    <3>11. shown \in Editor /\ (shown = ed \/ (ed.note = n2 /\ shown.note = n2 /\ shown.dirty = FALSE))
      <4>1. PICK w : w = Showing(n2, v)
        OBVIOUS
      <4>2. w \in Editor /\ w.note = n2 /\ w.dirty = FALSE
        BY <3>5, <4>1, ShowingTyped
      <4>3. shown = IF ed.note # n2 \/ ed.dirty THEN ed ELSE w
        BY <3>9, <4>1 DEF UpdateOpenNote
      <4> QED BY <3>10, <4>2, <4>3
    <3>6. editor' \in Editor /\ (editor' = ed \/ (editor'.note = n2 /\ editor'.dirty = FALSE))
      BY <3>8, <3>11
    <3> QED BY <2>2, <3>1, <3>3, <3>6
  <2> QED BY <2>1, <2>2
<1>7. NewSession /\ UNCHANGED <<chore, network>> /\ owed' \subseteq owed
  BY DEF Resolves
<1>8. UserTyped'
  BY <1>6, <1>7, SessionTyped DEF UserTyped, TypeInv
<1>9. AsideTyped'
  BY <1>7 DEF AsideTyped, TypeInv
<1>10. TypeInv'
  BY <1>3, <1>4, <1>7, <1>8, <1>9, UserTypes DEF Files
<1> QED BY <1>3, <1>4, <1>6, <1>10

(* What a resolution stores and queues. *)
LEMMA SaveResolutionStores ==
  ASSUME Inv, TypeInv, NEW n \in Notes, SaveResolution(n)
  PROVE  \E v \in Note, after \in Disk, text \in Text :
           /\ disk.conflicts[n] \in Conflict /\ disk.conflicts[n].remote \in Remote
           /\ v.pending = TRUE /\ v.revision = disk.conflicts[n].remote.revision
           /\ v.base = v.revision
           /\ Stores(disk, after, n, v, Save(n, v.base, v))
           /\ Resolves(n, after, n, text) /\ Act
<1>1. PICK conflict : conflict = disk.conflicts[n]
  OBVIOUS
<1>2. conflict # Absent /\ ~IsDeletion(conflict)
  BY <1>1 DEF SaveResolution
<1>3. conflict \in Conflict
  BY <1>1, <1>2, CachedTyped
<1>4. PICK remote : remote = conflict.remote
  OBVIOUS
<1>5. remote \in Remote
  BY <1>2, <1>3, <1>4, ConflictIs DEF IsDeletion
<1>6. PICK text, v :
        /\ text \in {conflict.local, remote.text, conflict.local \cup remote.text}
        /\ v = [text |-> text, revision |-> remote.revision, pending |-> TRUE,
                base |-> remote.revision, baseText |-> remote.text, pinned |-> remote.pinned]
        /\ Resolves(n, QueueOperation(PutNote(disk, n, v), Save(n, v.base, v)), n, text)
  BY <1>1, <1>4 DEF SaveResolution
<1>7. text \in Text
  BY <1>3, <1>5, <1>6, ConflictIs, RemoteIs DEF Text
<1>8. v \in Note
  <2>1. remote.revision \in Nat /\ remote.text \in Text /\ remote.pinned \in BOOLEAN
    BY <1>5, RemoteIs
  <2>2. remote.revision \in Optional(Nat) /\ remote.text \in Optional(Text)
    BY <2>1 DEF Optional
  <2> QED BY <1>6, <1>7, <2>1, <2>2 DEF Note
<1>9. PICK r : r = Save(n, v.base, v)
  OBVIOUS
<1>10. r \in Request /\ v \in Optional(Note)
  BY <1>8, <1>9, NoteIs, RequestsTyped DEF Optional
<1>11. PICK after : after = QueueOperation(PutNote(disk, n, v), r)
  OBVIOUS
<1>12. disk \in Disk /\ Ordered(disk)
  BY DEF TypeInv, Inv, Shaped
<1>13. Stores(disk, after, n, v, r)
  BY <1>10, <1>11, <1>12, StoringTyped
<1>14. after \in Disk
  BY <1>13 DEF Stores
<1>15. v.pending = TRUE /\ v.revision = remote.revision /\ v.base = v.revision
  BY <1>6
<1>16. Act
  BY DEF SaveResolution
<1> QED BY Zenon, <1>1, <1>3, <1>4, <1>5, <1>6, <1>7, <1>8, <1>9, <1>11, <1>13, <1>14, <1>15, <1>16

LEMMA SaveResolutionTypes ==
  ASSUME Inv, TypeInv, NEW n \in Notes, SaveResolution(n)
  PROVE  TypeInv'
<1>1. PICK v \in Note, after \in Disk, text \in Text :
        /\ Stores(disk, after, n, v, Save(n, v.base, v)) /\ Resolves(n, after, n, text) /\ Act
  BY SaveResolutionStores
<1>2. after.notes[n] \in Note /\ n \in Optional(Notes) /\ budget' \in Budget
  BY <1>1, ActTyped DEF Stores, Optional
<1>3. disk.conflicts[n] # Absent
  BY DEF SaveResolution
<1> QED BY Zenon, <1>1, <1>2, <1>3, ResolvesTypes

LEMMA AcceptDeletionTypes ==
  ASSUME Inv, TypeInv, NEW n \in Notes, AcceptDeletion(n)
  PROVE  /\ TypeInv'
         /\ \E after : /\ Puts(disk, after, n, Absent) /\ Files(after, disk', n, Absent)
                       /\ Resolves(n, after, Absent, {})
<1>1. PICK after : after = PutNote(disk, n, Absent)
  OBVIOUS
<1>2. Puts(disk, after, n, Absent)
  BY <1>1, RemoveTyped, PutTyped DEF TypeInv
<1>3. Resolves(n, after, Absent, {}) /\ Act /\ disk.conflicts[n] # Absent
  BY <1>1, RemoveTyped DEF AcceptDeletion, IsDeletion
<1>4. Absent \in Optional(Notes) /\ budget' \in Budget /\ after \in Disk
  BY <1>2, <1>3, ActTyped DEF Optional, Puts
<1>5. TypeInv' /\ Files(after, disk', n, Absent)
  BY Zenon, <1>3, <1>4, ResolvesTypes
<1> QED BY <1>2, <1>3, <1>5

LEMMA KeepCopyStores ==
  ASSUME Inv, TypeInv, NEW n \in Notes, NEW c \in Notes, KeepCopy(n, c),
         disk.conflicts[c] = Absent
  PROVE  /\ TypeInv' /\ n # c /\ disk.conflicts[n] # Absent /\ editor'.note = c
         /\ editor'.dirty = FALSE
         /\ \E copy \in Note, queued \in Disk, after \in Disk :
              /\ copy.pending = TRUE /\ copy.revision = 0 /\ copy.base = 0
              /\ Stores(disk, queued, c, copy, Save(c, 0, copy))
              /\ after = queued \/ Puts(queued, after, n, Absent)
              /\ IsDeletion(disk.conflicts[n]) => Puts(queued, after, n, Absent)
              /\ Files(after, disk', n, Absent)
<1>1. PICK conflict : conflict = disk.conflicts[n]
  OBVIOUS
<1>2. conflict # Absent
  BY <1>1 DEF KeepCopy
<1>3. conflict \in Conflict /\ n # c
  BY <1>1, <1>2, CachedTyped
<1>4. PICK pinned \in BOOLEAN :
        pinned = (IsDeletion(conflict) /\ disk.notes[n] # Absent /\ disk.notes[n].pinned)
  BY DEF IsDeletion
<1>5. PICK copy : copy = [Copy(conflict.local) EXCEPT !.pinned = pinned]
  OBVIOUS
<1>6. copy = [text |-> conflict.local, revision |-> 0, pending |-> TRUE, base |-> 0,
              baseText |-> {}, pinned |-> pinned]
  BY <1>5 DEF Copy
<1>7. copy \in Note
  <2>1. 0 \in Optional(Nat) /\ {} \in Optional(Text) /\ 0 \in Nat
    BY DEF Optional, Text
  <2> QED BY <1>3, <1>6, <2>1, ConflictIs DEF Note
<1>8. PICK r : r = Save(c, 0, copy)
  OBVIOUS
<1>9. r \in Request /\ copy \in Optional(Note)
  <2>1. 0 \in Optional(Nat)
    BY DEF Optional
  <2> QED BY <1>7, <1>8, <2>1, RequestsTyped DEF Optional
<1>10. disk \in Disk /\ Ordered(disk)
  BY DEF TypeInv, Inv, Shaped
<1>11. PICK queued : queued = QueueOperation(PutNote(disk, c, copy), r)
  OBVIOUS
<1>12. Stores(disk, queued, c, copy, r)
  BY <1>9, <1>10, <1>11, StoringTyped
<1>13. queued \in Disk /\ queued.notes[c] = copy
  BY <1>12 DEF Stores
<1>14. PICK after : after = IF IsDeletion(conflict) THEN RemoveLocalNote(queued, n) ELSE queued
  OBVIOUS
<1>16. /\ after \in Disk /\ after.notes[c] \in Note
       /\ after = queued \/ Puts(queued, after, n, Absent)
       /\ IsDeletion(disk.conflicts[n]) => Puts(queued, after, n, Absent)
  <2>1. CASE IsDeletion(conflict)
    <3>1. after = PutNote(queued, n, Absent)
      BY <1>14, <2>1, RemoveTyped
    <3>2. Puts(queued, after, n, Absent)
      BY <1>13, <3>1, RemoveTyped, PutTyped
    <3>3. after \in Disk /\ after.notes[c] \in Note
      BY <1>3, <1>7, <1>13, <3>2 DEF Puts
    <3> QED BY <3>2, <3>3
  <2>2. CASE ~IsDeletion(conflict)
    BY <1>1, <1>7, <1>13, <1>14, <2>2
  <2> QED BY <2>1, <2>2
<1>17. PICK text : Resolves(n, after, c, text)
  BY <1>1, <1>4, <1>5, <1>8, <1>11, <1>14 DEF KeepCopy
<1>18. budget' \in Budget
  <2>1. /\ budget' = [budget EXCEPT !.actions = budget.actions - 1, !.fresh = budget.fresh \ {c}]
        /\ budget.actions > 0
    BY DEF KeepCopy
  <2>2. budget.actions - 1 \in Nat
    BY <2>1, BudgetIs
  <2> QED BY <2>1, <2>2, BudgetIs DEF Budget
<1>19. c \in Optional(Notes) /\ c # Absent
  BY StoreAssumption DEF Optional
<1>20. /\ TypeInv' /\ Files(after, disk', n, Absent)
       /\ c # Absent => \/ editor'.note = c /\ editor'.dirty = FALSE
                        \/ editor' = [editor EXCEPT !.note = c, !.dirty = FALSE]
  BY Zenon, <1>1, <1>2, <1>16, <1>17, <1>18, <1>19, ResolvesTypes
<1>21. editor'.note = c /\ editor'.dirty = FALSE
  <2>1. editor \in Editor
    BY DEF TypeInv, UserTyped
  <2>2. CASE editor' = [editor EXCEPT !.note = c, !.dirty = FALSE]
    BY <2>1, <2>2 DEF Editor
  <2> QED BY <1>19, <1>20, <2>2
<1>22. copy.pending = TRUE /\ copy.revision = 0 /\ copy.base = 0
  BY <1>6
<1> QED BY <1>1, <1>2, <1>3, <1>7, <1>8, <1>12, <1>13, <1>16, <1>20, <1>21, <1>22

-----------------------------------------------------------------------------
(* What is left of a program at each of its steps. *)
LEMMA StepPrograms ==
  ASSUME NEW s \in Programs, NEW h, h = Head(s)
  PROVE  /\ h = "fetch"     => s = <<"fetch">>
         /\ h = "flush"     => s \in {<<"flush", "merge">>, <<"flush", "prepare">>}
         /\ h = "saving"    => s \in {<<"saving", "merge">>, <<"saving", "prepare">>,
                                      <<"saving", "show">>}
         /\ h = "merge"     => s = <<"merge">>
         /\ h = "prepare"   => s = <<"prepare">>
         /\ h = "reconcile" => s = <<"reconcile">>
         /\ h = "pin"       => s = <<"pin">>
         /\ h = "deletion"  => s = <<"deletion">>
         /\ h = "conflict"  => s = <<"conflict", "put", "supersede", "remove", "flushAny", "show">>
         /\ h = "put"       => s \in {<<"put", "supersede", "remove", "queue", "open">>,
                                      <<"put", "supersede", "remove", "flushAny", "show">>,
                                      <<"put", "supersede", "remove">>, <<"put", "remove">>,
                                      <<"put", "queuePin", "open">>, <<"put", "open">>}
         /\ h = "supersede" => s \in {<<"supersede", "remove", "queue", "open">>,
                                      <<"supersede", "remove", "flushAny", "show">>,
                                      <<"supersede", "remove">>}
         /\ h = "remove"    => s \in {<<"remove", "queue", "open">>,
                                      <<"remove", "flushAny", "show">>, <<"remove">>,
                                      <<"remove", "readPin", "put", "queuePin", "open">>,
                                      <<"remove", "readPin", "put", "open">>}
         /\ h = "rebase"    => s \in {<<"rebase", "remove", "readPin", "put", "queuePin", "open">>,
                                      <<"rebase", "remove", "readPin", "put", "open">>}
         /\ h = "readPin"   => s \in {<<"readPin", "put", "queuePin", "open">>,
                                      <<"readPin", "put", "open">>}
         /\ h = "queue"     => s = <<"queue", "open">>
         /\ h = "queuePin"  => s = <<"queuePin", "open">>
         /\ h = "flushAny"  => s = <<"flushAny", "show">>
         /\ h = "open"      => s = <<"open">>
         /\ h = "show"      => s = <<"show">>
<1>1. CASE s \in FetchPrograms
  BY <1>1 DEF FetchPrograms
<1>2. CASE s \in MergePrograms
  BY <1>2 DEF MergePrograms
<1>3. CASE s \in ConflictPrograms
  BY <1>3 DEF ConflictPrograms
<1>4. CASE s \in ReplacePrograms
  BY <1>4 DEF ReplacePrograms
<1>5. CASE s \in PinPrograms
  BY <1>5 DEF PinPrograms
<1>6. CASE s = <<"open">>
  <2>1. Head(<<"open">>) = "open"
    OBVIOUS
  <2> QED BY <1>6, <2>1
<1> QED BY <1>1, <1>2, <1>3, <1>4, <1>5, <1>6 DEF Programs

(* Programs that ask nothing of what was prepared. *)
PlainPrograms == (FetchPrograms \ {<<"deletion">>}) \cup ReplacePrograms \cup {<<"open">>}

LEMMA PlainPrepared ==
  ASSUME task'.steps \in PlainPrograms
  PROVE  Prepared'
<1>1. PICK s : s = task'.steps
  OBVIOUS
<1>2. s \in PlainPrograms /\ s \in Programs
  BY <1>1 DEF PlainPrograms, Programs
<1>3. s \notin MergePrograms \cup ConflictPrograms \cup PinPrograms /\ s # <<"deletion">>
  <2>1. <<"deletion">> \in FetchPrograms
    BY DEF FetchPrograms
  <2> QED BY <1>2, <2>1, ProgramsApart DEF PlainPrograms
<1>4. Step' = Head(s)
  BY <1>1, <1>2, ProgramHeads DEF Step
<1>5. Head(s) # "conflict"
  <2>1. <<"conflict", "put", "supersede", "remove", "flushAny", "show">> \in ConflictPrograms
    BY DEF ConflictPrograms
  <2> QED BY <1>2, <1>3, <2>1, StepPrograms
<1> QED BY <1>1, <1>3, <1>4, <1>5 DEF Prepared

(* The push goes on with the same batch. *)
Continues(t) ==
  /\ t \in Task /\ t.pc = task.pc /\ t.batch = task.batch /\ t.results = task.results
  /\ t.target # Absent /\ t.steps \in Programs

LEMMA ContinuesTyped ==
  ASSUME TypeInv, Continues(task'), Prepared'
  PROVE  TaskTyped'
<1>1. task'.steps # <<>>
  BY ProgramHeads DEF Continues
<1> QED BY <1>1 DEF TypeInv, TaskTyped, Continues

LEMMA TaskIs ==
  ASSUME TypeInv
  PROVE  /\ task \in Task /\ task.target \in Optional(Notes) /\ task.remote \in Optional(Remote)
         /\ task.put \in Optional(Note) /\ task.conflict \in Optional(Conflict)
         /\ task.pinned \in BOOLEAN /\ task.laterSave \in BOOLEAN
         /\ task.pc \in {"idle", "sent", "acks", "page"}
         /\ task.limit \in Nat /\ task.batch \subseteq Operation /\ task.results \subseteq Result
         /\ task.steps # <<>> => task.steps \in Programs /\ task.target \in Notes
         /\ task.remote # Absent => task.remote \in Remote
         /\ task.put # Absent => task.put \in Note
         /\ task.conflict # Absent => task.conflict \in Conflict
BY DEF TypeInv, TaskTyped, Task, Optional

(* Every step of a program works on a note, and all but the last one on the  *)
(* operation the acknowledgement is about.                                   *)
LEMMA StepIs ==
  ASSUME Inv, TypeInv, Step # "none"
  PROVE  /\ task.steps \in Programs /\ Step = Head(task.steps) /\ Target \in Notes
         /\ Local \in Optional(Note) /\ (Local # Absent => Local \in Note)
         /\ Step # "open" => /\ task.pc = "acks" /\ Current \in Operation
                             /\ Current \in task.batch /\ CurrentResult \in Result
<1>1. task.steps \in Programs /\ Step = Head(task.steps) /\ task.target \in Notes
  BY TaskIs, ProgramRuns DEF Step
<1>2. Local \in Optional(Note) /\ (Local # Absent => Local \in Note) /\ Target \in Notes
  BY <1>1, CachedTyped DEF Local, Target
<1>3. Step # "open" => task.pc = "acks"
  BY ProgramRuns
<1> QED BY <1>1, <1>2, <1>3, CurrentTyped

LEMMA PushTypes ==
  ASSUME TypeInv, disk' \in Disk, UserTyped', TaskTyped', UNCHANGED <<wire, server, budget, owed>>
  PROVE  TypeInv'
BY NetStays, AsideStays DEF TypeInv

LEMMA FetchedTyped ==
  ASSUME TypeInv, NEW n \in Notes
  PROVE  /\ Fetched(n) \in Optional(Remote) /\ server.notes[n] \in Row
         /\ server.notes[n].live =>
              /\ Fetched(n) \in Remote /\ Fetched(n).revision = server.notes[n].revision
              /\ Fetched(n).text = server.notes[n].text
<1>1. PICK row : row = server.notes[n]
  OBVIOUS
<1>2. row \in Row
  BY <1>1 DEF TypeInv, NetTyped
<1>3. PICK r : r = [text |-> row.text, revision |-> row.revision, pinned |-> row.pinned]
  OBVIOUS
<1>4. r \in Remote /\ r.revision = row.revision /\ r.text = row.text
  BY <1>2, <1>3 DEF Row, Remote
<1>5. Fetched(n) = IF row.live THEN r ELSE Absent
  BY <1>1, <1>3 DEF Fetched
<1> QED BY <1>1, <1>2, <1>4, <1>5 DEF Optional

LEMMA BeginFetchTypes ==
  ASSUME Inv, TypeInv, BeginFetch
  PROVE  TypeInv'
<1>1. task.pc = "acks" /\ UNCHANGED <<disk, user, wire, server, asides>>
  BY DEF BeginFetch, Acknowledging
<1>2. PICK n \in Notes : n = Current.note
  BY <1>1, CurrentTyped, OperationIs
<1>3. PICK s : s = <<"fetch">>
  OBVIOUS
<1>4. s \in FetchPrograms /\ s # <<"deletion">> /\ s \in Programs /\ s \in Seq(Steps)
  BY <1>3, ProgramsOfSteps DEF FetchPrograms, Programs
<1>5. task' = [task EXCEPT !.target = n, !.steps = s]
  BY <1>2, <1>3 DEF BeginFetch, Begin
<1>6. n \in Optional(Notes) /\ n # Absent
  BY StoreAssumption DEF Optional
<1>7. Continues(task') /\ task'.steps = s
  BY <1>4, <1>5, <1>6, TaskIs DEF Continues, Task
<1>8. Prepared'
  BY <1>4, <1>7, PlainPrepared DEF PlainPrograms
<1>9. TaskTyped'
  BY <1>7, <1>8, ContinuesTyped
<1>10. UserTyped' /\ disk' \in Disk
  BY <1>1, UserStays DEF user, TypeInv
<1> QED BY <1>1, <1>9, <1>10, PushTypes DEF asides

LEMMA FetchTypes ==
  ASSUME Inv, TypeInv, Fetch
  PROVE  TypeInv'
<1>1. Step = "fetch" /\ UNCHANGED <<disk, user, wire, server, asides>>
  BY DEF Fetch
<1>2. task.target \in Notes
  BY <1>1, StepIs DEF Target
<1>3. PICK remote \in Optional(Remote) : remote = Fetched(task.target)
  BY <1>2, FetchedTyped
<1>4. PICK s : s = CASE CurrentResult.status = "compacted" -> <<"reconcile">>
                     [] CurrentResult.status = "conflict" /\ Current.type = "note.pin" -> <<"pin">>
                     [] CurrentResult.status = "conflict" /\ Current.type = "note.save" ->
                          <<"flush", "merge">>
                     [] OTHER -> <<"flush", "prepare">>
  OBVIOUS
<1>5. s \in {<<"reconcile">>, <<"pin">>, <<"flush", "merge">>, <<"flush", "prepare">>}
  BY <1>4, Zenon
<1>6. s \in FetchPrograms /\ s # <<"deletion">> /\ s \in Programs /\ s \in Seq(Steps)
  <2>1. {<<"reconcile">>, <<"pin">>, <<"flush", "merge">>, <<"flush", "prepare">>}
          \subseteq FetchPrograms \ {<<"deletion">>}
    BY DEF FetchPrograms
  <2> QED BY <1>5, <2>1, ProgramsOfSteps DEF Programs
<1>7. task' = [task EXCEPT !.remote = remote, !.steps = s]
  BY <1>3, <1>4 DEF Fetch
<1>8. Continues(task') /\ task'.steps = s
  BY <1>2, <1>6, <1>7, TaskIs, StoreAssumption DEF Continues, Task
<1>9. Prepared'
  BY <1>6, <1>8, PlainPrepared DEF PlainPrograms
<1>10. TaskTyped'
  BY <1>8, <1>9, ContinuesTyped
<1>11. UserTyped' /\ disk' \in Disk
  BY <1>1, UserStays DEF user, TypeInv
<1> QED BY <1>1, <1>10, <1>11, PushTypes DEF asides

LEMMA FlushTypes ==
  ASSUME Inv, TypeInv, Flush
  PROVE  TypeInv'
<1>1. Step \in {"flush", "flushAny"} /\ UNCHANGED <<disk, editor, chore, wire, server, asides>>
  BY DEF Flush
<1>2. task.steps \in Programs /\ Step = Head(task.steps) /\ task.target \in Notes
  BY <1>1, StepIs DEF Target
<1>3. task.steps \in {<<"flush", "merge">>, <<"flush", "prepare">>, <<"flushAny", "show">>}
  BY <1>1, <1>2, StepPrograms
<1>4. PICK t : t = Tail(task.steps)
  OBVIOUS
<1>5. t \in {<<"merge">>, <<"prepare">>, <<"show">>}
  <2>1. task.steps = <<"flush", "merge">> => Tail(task.steps) = <<"merge">>
    OBVIOUS
  <2>2. task.steps = <<"flush", "prepare">> => Tail(task.steps) = <<"prepare">>
    OBVIOUS
  <2>3. task.steps = <<"flushAny", "show">> => Tail(task.steps) = <<"show">>
    OBVIOUS
  <2> QED BY <1>3, <1>4, <2>1, <2>2, <2>3
<1>6. PICK s : s = <<"saving">> \o t
  OBVIOUS
<1>7. s \in {<<"saving", "merge">>, <<"saving", "prepare">>, <<"saving", "show">>}
  <2>1. <<"saving">> \o <<"merge">> = <<"saving", "merge">>
    BY Concat1and1
  <2>2. <<"saving">> \o <<"prepare">> = <<"saving", "prepare">>
    BY Concat1and1
  <2>3. <<"saving">> \o <<"show">> = <<"saving", "show">>
    BY Concat1and1
  <2> QED BY <1>5, <1>6, <2>1, <2>2, <2>3
<1>8. PICK r : task' = [task EXCEPT !.steps = r] /\ r \in {s, t}
  BY <1>4, <1>6 DEF Flush, Then
<1>9. /\ r \in Programs /\ r \in Seq(Steps) /\ r # <<"deletion">>
      /\ r \in {<<"saving", "show">>, <<"show">>} => task.steps = <<"flushAny", "show">>
      /\ r \notin {<<"saving", "show">>, <<"show">>} => r \in FetchPrograms
  <2>1. {<<"saving", "merge">>, <<"saving", "prepare">>, <<"merge">>, <<"prepare">>} \subseteq FetchPrograms
    BY DEF FetchPrograms
  <2>2. {<<"saving", "show">>, <<"show">>} \subseteq ConflictPrograms
    BY DEF ConflictPrograms
  <2>3. r \in {<<"saving", "merge">>, <<"saving", "prepare">>, <<"saving", "show">>, <<"merge">>,
               <<"prepare">>, <<"show">>}
    BY <1>5, <1>7, <1>8
  <2>4. <<"deletion">> \notin {<<"saving", "merge">>, <<"saving", "prepare">>, <<"saving", "show">>,
                               <<"merge">>, <<"prepare">>, <<"show">>}
    OBVIOUS
  <2>5. r \in {<<"saving", "show">>, <<"show">>} => task.steps = <<"flushAny", "show">>
    <3>1. task.steps = <<"flush", "merge">> => t = <<"merge">> /\ s = <<"saving", "merge">>
      <4>1. <<"saving">> \o <<"merge">> = <<"saving", "merge">>
        BY Concat1and1
      <4>2. Tail(<<"flush", "merge">>) = <<"merge">>
        OBVIOUS
      <4> QED BY <1>4, <1>6, <4>1, <4>2
    <3>2. task.steps = <<"flush", "prepare">> => t = <<"prepare">> /\ s = <<"saving", "prepare">>
      <4>1. <<"saving">> \o <<"prepare">> = <<"saving", "prepare">>
        BY Concat1and1
      <4>2. Tail(<<"flush", "prepare">>) = <<"prepare">>
        OBVIOUS
      <4> QED BY <1>4, <1>6, <4>1, <4>2
    <3>3. {<<"merge">>, <<"saving", "merge">>, <<"prepare">>, <<"saving", "prepare">>}
            \cap {<<"saving", "show">>, <<"show">>} = {}
      OBVIOUS
    <3> QED BY <1>3, <1>8, <3>1, <3>2, <3>3
  <2> QED BY <2>1, <2>2, <2>3, <2>4, <2>5, ProgramsOfSteps DEF Programs
<1>10. Continues(task') /\ task'.steps = r /\ task'.remote = task.remote
  BY <1>2, <1>8, <1>9, TaskIs, StoreAssumption DEF Continues, Task
<1>11. Prepared'
  <2>1. CASE r \in {<<"saving", "show">>, <<"show">>}
    <3>1. task.remote # Absent
      <4>1. <<"flushAny", "show">> \in ConflictPrograms
        BY DEF ConflictPrograms
      <4> QED BY <1>9, <2>1, <4>1 DEF TypeInv, TaskTyped, Prepared
    <3>2. r \in ConflictPrograms
      BY <2>1 DEF ConflictPrograms
    <3>3. Step' = Head(r) /\ r # <<>>
      BY <1>9, <1>10, ProgramHeads DEF Step
    <3>4. Head(r) # "conflict"
      BY <2>1
    <3>5. r \notin MergePrograms
      BY <3>2, ProgramsApart
    <3> QED BY <1>9, <1>10, <3>1, <3>2, <3>3, <3>4, <3>5 DEF Prepared
  <2>2. CASE r \notin {<<"saving", "show">>, <<"show">>}
    BY <1>9, <1>10, <2>2, PlainPrepared DEF PlainPrograms
  <2> QED BY <2>1, <2>2
<1>12. TaskTyped'
  BY <1>10, <1>11, ContinuesTyped
<1>13. UserTyped'
  <2>1. CASE SaveStarts
    BY <1>1, <2>1, SaveStartsTyped DEF UserTyped, TypeInv
  <2>2. CASE UNCHANGED saver
    BY <1>1, <2>2, UserStays
  <2> QED BY <2>1, <2>2 DEF Flush
<1>14. disk' \in Disk
  BY <1>1 DEF TypeInv
<1> QED BY <1>1, <1>12, <1>13, <1>14, PushTypes DEF asides

LEMMA FlushedTypes ==
  ASSUME Inv, TypeInv, Flushed
  PROVE  TypeInv'
<1>1. Step # "none" /\ Advance /\ UNCHANGED <<disk, user, wire, server, asides>>
  BY DEF Flushed
<1>2. TaskTyped' /\ UserTyped' /\ disk' \in Disk
  BY <1>1, AdvanceTyped, UserStays DEF user, TypeInv
<1> QED BY <1>1, <1>2, PushTypes DEF asides

LEMMA BaseTextTyped ==
  ASSUME Inv, TypeInv, task.pc = "acks", NEW v \in Note
  PROVE  BaseText(v) \in Text
<1>1. {} \in Text
  BY DEF Text
<1>2. Current.baseText \in Optional(Text)
  BY CurrentTyped, OperationIs
<1>3. Or(Current.baseText, {}) \in Text
  BY <1>1, <1>2, OrTyped
<1>4. v.baseText \in Optional(Text)
  BY NoteIs
<1>5. Or(v.baseText, Or(Current.baseText, {})) \in Text
  BY <1>3, <1>4, OrTyped
<1> QED BY <1>5 DEF BaseText

LEMMA PinnedLaterTyped ==
  ASSUME Inv, TypeInv, NEW default \in BOOLEAN
  PROVE  PinnedLater(default) \in BOOLEAN
<1>1. PICK pins : pins = Later(disk, Current, "note.pin")
  OBVIOUS
<1>2. pins \subseteq disk.queue
  BY <1>1 DEF Later, Queued
<1>3. Ordered(disk) /\ disk \in Disk
  BY DEF Inv, Shaped, TypeInv
<1>4. pins # {} => Newest(pins) \in pins
  BY <1>2, <1>3, NewestOf
<1>5. pins # {} => Newest(pins).pinned \in BOOLEAN
  BY <1>2, <1>3, <1>4, DiskIs, OperationIs
<1>6. PinnedLater(default) = IF pins = {} THEN default ELSE Newest(pins).pinned
  BY <1>1 DEF PinnedLater
<1> QED BY <1>5, <1>6

LEMMA MergeTypes ==
  ASSUME Inv, TypeInv, Merge
  PROVE  TypeInv'
<1>1. Step = "merge" /\ UNCHANGED <<disk, user, wire, server, asides>>
  BY DEF Merge
<1>2. /\ task.target \in Notes /\ task.pc = "acks"
      /\ Local \in Optional(Note) /\ (Local # Absent => Local \in Note)
  BY <1>1, StepIs DEF Target
<1>3. UserTyped' /\ disk' \in Disk
  BY <1>1, UserStays DEF user, TypeInv
<1>4. CASE /\ Local # Absent /\ task.remote # Absent
           /\ task' = [task EXCEPT
                         !.steps = <<"put", "supersede", "remove", "queue", "open">>,
                         !.put = [text     |-> Merged(BaseText(Local), Local.text, task.remote.text),
                                  revision |-> task.remote.revision, pending |-> TRUE,
                                  base     |-> task.remote.revision,
                                  baseText |-> task.remote.text,
                                  pinned   |-> PinnedLater(task.remote.pinned)]]
  <2>1. PICK remote \in Remote : remote = task.remote
    BY <1>4, TaskIs
  <2>2. PICK text \in Text : text = Merged(BaseText(Local), Local.text, task.remote.text)
    <3>1. Local.text \in Text /\ remote.text \in Text /\ BaseText(Local) \in Text
      BY <1>2, <1>4, BaseTextTyped, NoteIs, RemoteIs
    <3>2. Merged(BaseText(Local), Local.text, remote.text) \in Text
      BY <3>1 DEF Merged, Text
    <3> QED BY <2>1, <3>2
  <2>3. PICK pinned \in BOOLEAN : pinned = PinnedLater(task.remote.pinned)
    BY <2>1, RemoteIs, PinnedLaterTyped
  <2>4. PICK put : put = [text |-> text, revision |-> remote.revision, pending |-> TRUE,
                          base |-> remote.revision, baseText |-> remote.text, pinned |-> pinned]
    OBVIOUS
  <2>5. put \in Note
    <3>1. remote.revision \in Nat /\ remote.text \in Text
      BY RemoteIs
    <3>2. remote.revision \in Optional(Nat) /\ remote.text \in Optional(Text)
      BY <3>1 DEF Optional
    <3> QED BY <2>4, <3>1, <3>2 DEF Note
  <2>6. PICK s : s = <<"put", "supersede", "remove", "queue", "open">>
    OBVIOUS
  <2>7. s \in MergePrograms /\ s \in Programs /\ s \in Seq(Steps) /\ Head(s) = "put"
    <3>1. Head(<<"put", "supersede", "remove", "queue", "open">>) = "put"
      OBVIOUS
    <3>2. s \in MergePrograms
      BY <2>6 DEF MergePrograms
    <3> QED BY <2>6, <3>1, <3>2, ProgramsOfSteps DEF Programs
  <2>8. task' = [task EXCEPT !.steps = s, !.put = put]
    BY <1>4, <2>1, <2>2, <2>3, <2>4, <2>6
  <2>9. put \in Optional(Note) /\ put # Absent
    BY <2>5, StoreAssumption DEF Optional
  <2>10. /\ Continues(task') /\ task'.steps = s /\ task'.remote = task.remote
         /\ task'.put = put
    BY <1>2, <2>7, <2>8, <2>9, TaskIs, StoreAssumption DEF Continues, Task
  <2>11. Prepared'
    <3>1. Step' = "put" /\ s \notin ConflictPrograms \cup PinPrograms
      BY <2>7, <2>10, ProgramHeads, ProgramsApart DEF Step
    <3> QED BY <1>4, <2>9, <2>10, <3>1 DEF Prepared
  <2>12. TaskTyped'
    BY <2>10, <2>11, ContinuesTyped
  <2> QED BY <1>1, <1>3, <2>12, PushTypes DEF asides
<1>5. CASE task' = [task EXCEPT !.steps = <<"flush", "prepare">>]
  <2>1. PICK s : s = <<"flush", "prepare">>
    OBVIOUS
  <2>2. s \in FetchPrograms /\ s # <<"deletion">> /\ s \in Programs /\ s \in Seq(Steps)
    BY <2>1, ProgramsOfSteps DEF FetchPrograms, Programs
  <2>3. Continues(task') /\ task'.steps = s
    BY <1>2, <1>5, <2>1, <2>2, TaskIs, StoreAssumption DEF Continues, Task
  <2>4. Prepared'
    BY <2>2, <2>3, PlainPrepared DEF PlainPrograms
  <2>5. TaskTyped'
    BY <2>3, <2>4, ContinuesTyped
  <2> QED BY <1>1, <1>3, <2>5, PushTypes DEF asides
<1> QED BY <1>4, <1>5 DEF Merge, Then

LEMMA SentTyped ==
  ASSUME Inv, TypeInv, task.pc = "acks"
  PROVE  Sent \in Note /\ Sent.text = Current.text /\ Sent.pending = FALSE
<1>1. Current \in Operation
  BY CurrentTyped
<1>2. PICK revision : revision = Or(Current.base, 0)
  OBVIOUS
<1>3. revision \in Nat
  BY <1>1, <1>2, OperationIs, OrTyped
<1>4. Sent = [text |-> Current.text, revision |-> revision, pending |-> FALSE,
              base |-> Current.base, baseText |-> Current.baseText, pinned |-> Current.pinned]
  BY <1>2 DEF Sent
<1>5. Sent \in Note
  BY <1>1, <1>3, <1>4, OperationIs DEF Note
<1> QED BY <1>4, <1>5

(* The version of the server with the pin that was asked for here. *)
LEMMA ShownTyped ==
  ASSUME Inv, TypeInv, NEW remote \in Remote, NEW shown,
         shown = [remote EXCEPT !.pinned = PinnedLater(@)]
  PROVE  shown \in Remote /\ shown.text = remote.text /\ shown.revision = remote.revision
<1>1. PICK pinned \in BOOLEAN : pinned = PinnedLater(remote.pinned)
  BY RemoteIs, PinnedLaterTyped
<1>2. shown = [text |-> remote.text, revision |-> remote.revision, pinned |-> pinned]
  BY <1>1 DEF Remote
<1> QED BY <1>2, RemoteIs DEF Remote

(* The outcomes of prepare. *)
PreparesDeletion ==
  /\ task.remote = Absent /\ Current.type = "note.save"
  /\ task'.steps = <<"deletion">> /\ task'.put \in Note
  /\ task'.put = IF Local = Absent THEN Sent ELSE Local

PreparesReplacement ==
  /\ task.remote = Absent \/ Local = Absent \/ Current.type # "note.save"
  /\ task'.steps = <<"put", "supersede", "remove">>
  /\ task'.put = IF task.remote = Absent THEN Absent ELSE Settled(task.remote)

PreparesConflict ==
  /\ task.remote # Absent /\ Local # Absent /\ Current.type = "note.save"
  /\ task'.steps = <<"conflict", "put", "supersede", "remove", "flushAny", "show">>
  /\ \E shown \in Remote :
       /\ shown.text = task.remote.text /\ shown.revision = task.remote.revision
       /\ task'.put = Settled(shown)
       /\ task'.conflict = [base |-> BaseText(Local), local |-> Local.text, remote |-> shown]

LEMMA PrepareTypes ==
  ASSUME Inv, TypeInv, Prepare
  PROVE  /\ TypeInv' /\ task'.target = task.target /\ task'.remote = task.remote
         /\ PreparesDeletion \/ PreparesReplacement \/ PreparesConflict
<1>1. Step = "prepare" /\ UNCHANGED <<disk, user, wire, server, asides>>
  BY DEF Prepare
<1>2. /\ task.target \in Notes /\ task.pc = "acks"
      /\ Local \in Optional(Note) /\ (Local # Absent => Local \in Note)
  BY <1>1, StepIs DEF Target
<1>3. UserTyped' /\ disk' \in Disk
  BY <1>1, UserStays DEF user, TypeInv
<1>4. PICK s1, s2, s3 :
        /\ s1 = <<"deletion">> /\ s2 = <<"put", "supersede", "remove">>
        /\ s3 = <<"conflict", "put", "supersede", "remove", "flushAny", "show">>
  OBVIOUS
<1>5. /\ s1 \in FetchPrograms /\ s2 \in ReplacePrograms /\ s3 \in ConflictPrograms
      /\ {s1, s2, s3} \subseteq Programs /\ {s1, s2, s3} \subseteq Seq(Steps)
      /\ Head(s1) = "deletion" /\ Head(s2) = "put" /\ Head(s3) = "conflict"
  <2>1. s1 \in FetchPrograms /\ s2 \in ReplacePrograms /\ s3 \in ConflictPrograms
    BY <1>4 DEF FetchPrograms, ReplacePrograms, ConflictPrograms
  <2>2. Head(s1) = "deletion" /\ Head(s2) = "put" /\ Head(s3) = "conflict"
    BY <1>4
  <2> QED BY <2>1, <2>2, ProgramsOfSteps DEF Programs
<1>6. CASE task.remote = Absent /\ Current.type = "note.save"
  <2>1. PICK put : put = IF Local = Absent THEN Sent ELSE Local
    OBVIOUS
  <2>2. put \in Note /\ put \in Optional(Note) /\ put # Absent
    BY <1>2, <2>1, SentTyped, StoreAssumption DEF Optional
  <2>3. task' = [task EXCEPT !.steps = s1, !.put = put]
    BY <1>4, <1>6, <2>1 DEF Prepare
  <2>4. /\ Continues(task') /\ task'.steps = s1 /\ task'.remote = task.remote
        /\ task'.put = put /\ task'.target = task.target
    BY <1>2, <1>5, <2>2, <2>3, TaskIs, StoreAssumption DEF Continues, Task
  <2>5. Prepared'
    <3>1. Step' = "deletion" /\ s1 \notin ConflictPrograms \cup PinPrograms \cup MergePrograms
      BY <1>5, <2>4, ProgramHeads, ProgramsApart DEF Step
    <3> QED BY <2>2, <2>4, <3>1 DEF Prepared
  <2>6. TaskTyped'
    BY <2>4, <2>5, ContinuesTyped
  <2>7. PreparesDeletion
    BY <1>4, <1>6, <2>1, <2>2, <2>4 DEF PreparesDeletion
  <2> QED BY <1>1, <1>3, <2>4, <2>6, <2>7, PushTypes DEF asides
<1>7. CASE /\ ~(task.remote = Absent /\ Current.type = "note.save")
           /\ task.remote = Absent \/ Local = Absent \/ Current.type # "note.save"
  <2>1. PICK put : put = IF task.remote = Absent THEN Absent ELSE Settled(task.remote)
    OBVIOUS
  <2>2. put \in Optional(Note)
    BY <2>1, TaskIs, SettledTyped DEF Optional
  <2>3. task' = [task EXCEPT !.steps = s2, !.put = put]
    BY <1>4, <1>7, <2>1 DEF Prepare
  <2>4. /\ Continues(task') /\ task'.steps = s2 /\ task'.remote = task.remote
        /\ task'.put = put /\ task'.target = task.target
    BY <1>2, <1>5, <2>2, <2>3, TaskIs, StoreAssumption DEF Continues, Task
  <2>5. Prepared'
    BY <1>5, <2>4, PlainPrepared DEF PlainPrograms
  <2>6. TaskTyped'
    BY <2>4, <2>5, ContinuesTyped
  <2>7. PreparesReplacement
    BY <1>4, <1>7, <2>1, <2>4 DEF PreparesReplacement
  <2> QED BY <1>1, <1>3, <2>4, <2>6, <2>7, PushTypes DEF asides
<1>8. CASE ~(task.remote = Absent \/ Local = Absent \/ Current.type # "note.save")
  <2>1. PICK remote \in Remote : remote = task.remote
    BY <1>8, TaskIs
  <2>2. PICK shown : shown = [remote EXCEPT !.pinned = PinnedLater(@)]
    OBVIOUS
  <2>3. shown \in Remote /\ shown.text = remote.text /\ shown.revision = remote.revision
    BY <2>2, ShownTyped
  <2>4. PICK conflict : conflict = [base |-> BaseText(Local), local |-> Local.text, remote |-> shown]
    OBVIOUS
  <2>5. PICK put : put = Settled(shown)
    OBVIOUS
  <2>6. conflict \in Conflict
    <3>1. BaseText(Local) \in Text /\ Local.text \in Text /\ shown \in Optional(Remote)
      BY <1>2, <1>8, <2>3, BaseTextTyped, NoteIs DEF Optional
    <3> QED BY <2>4, <3>1 DEF Conflict
  <2>7. /\ conflict \in Optional(Conflict) /\ conflict # Absent /\ put \in Optional(Note)
        /\ put \in Note
    BY <2>3, <2>5, <2>6, SettledTyped, StoreAssumption DEF Optional
  <2>8. task' = [task EXCEPT !.steps = s3, !.conflict = conflict, !.put = put]
    BY <1>4, <1>8, <2>1, <2>2, <2>4, <2>5 DEF Prepare
  <2>9. /\ Continues(task') /\ task'.steps = s3 /\ task'.remote = task.remote
        /\ task'.put = put /\ task'.conflict = conflict /\ task'.target = task.target
    BY <1>2, <1>5, <2>7, <2>8, TaskIs, StoreAssumption DEF Continues, Task
  <2>10. Prepared'
    <3>1. s3 \notin MergePrograms /\ s3 # <<"deletion">>
      <4>1. Head(<<"deletion">>) = "deletion"
        OBVIOUS
      <4> QED BY <1>5, <4>1, ProgramsApart
    <3> QED BY <1>8, <2>7, <2>9, <3>1 DEF Prepared
  <2>11. TaskTyped'
    BY <2>9, <2>10, ContinuesTyped
  <2>12. PreparesConflict
    BY <1>4, <1>8, <2>1, <2>3, <2>4, <2>5, <2>9 DEF PreparesConflict
  <2> QED BY <1>1, <1>3, <2>9, <2>11, <2>12, PushTypes DEF asides
<1> QED BY <1>6, <1>7, <1>8

LEMMA RecordDeletionTypes ==
  ASSUME Inv, TypeInv, RecordDeletion
  PROVE  /\ TypeInv' /\ task.put \in Note /\ task.pc = "acks" /\ Current \in Operation
         /\ IdentityMatches(disk, Current) =>
              Deleting(disk, disk', Current, task.put, BaseText(task.put)) /\ Advance
<1>1. Step = "deletion" /\ UNCHANGED <<user, wire, server, budget, owed>>
  BY DEF RecordDeletion
<1>2. /\ task.pc = "acks" /\ Current \in Operation /\ task.steps \in Programs
      /\ Step = Head(task.steps)
  BY <1>1, StepIs
<1>3. task.put \in Note
  <2>1. task.steps = <<"deletion">>
    BY <1>1, <1>2, StepPrograms
  <2> QED BY <2>1, TaskIs DEF TypeInv, TaskTyped, Prepared
<1>4. PICK base \in Text : base = BaseText(task.put)
  BY <1>2, <1>3, BaseTextTyped
<1>5. CASE IdentityMatches(disk, Current)
  <2>1. PICK e : e = RecordRemoteDeletion(disk, Current, task.put, base)
    OBVIOUS
  <2>2. Deleting(disk, e, Current, task.put, base)
    BY <1>2, <1>3, <2>1, DeletionTyped DEF TypeInv
  <2>3. disk' = e /\ Advance
    BY <1>4, <1>5, <2>1 DEF RecordDeletion
  <2>4. disk' \in Disk
    BY <2>2, <2>3 DEF Deleting
  <2>5. TaskTyped'
    BY <1>1, <2>3, AdvanceTyped
  <2>6. TypeInv'
    BY <1>1, <2>4, <2>5, UserStays, PushTypes DEF user
  <2> QED BY <1>2, <1>3, <1>4, <2>2, <2>3, <2>6
<1>6. CASE ~IdentityMatches(disk, Current)
  <2>1. disk' = disk /\ task' = IdleTask
    BY <1>6 DEF RecordDeletion
  <2>2. TaskTyped' /\ disk' \in Disk
    <3>1. BatchLimit \in Nat
      BY SyncAssumption
    <3> QED BY <2>1, <3>1, IdleTaskTyped DEF TypeInv
  <2> QED BY <1>1, <1>2, <1>3, <1>6, <2>2, UserStays, PushTypes DEF user
<1> QED BY <1>5, <1>6

LEMMA SetConflictTypes ==
  ASSUME Inv, TypeInv, SetConflict
  PROVE  /\ TypeInv' /\ task.conflict \in Conflict
         /\ Files(disk, disk', task.target, task.conflict)
<1>1. Step = "conflict" /\ Advance /\ UNCHANGED <<user, wire, server, budget, owed>>
  BY DEF SetConflict
<1>2. PICK n \in Notes : n = task.target
  BY <1>1, StepIs DEF Target
<1>3. PICK c \in Conflict : c = task.conflict
  BY <1>1, TaskIs DEF TypeInv, TaskTyped, Prepared
<1>4. PICK e : e = [disk EXCEPT !.conflicts[n] = c]
  OBVIOUS
<1>5. Files(disk, e, n, c)
  BY <1>4, ConflictTyped DEF TypeInv, Optional
<1>6. disk' = e
  BY <1>2, <1>3, <1>4 DEF SetConflict, Target
<1>7. TaskTyped' /\ disk' \in Disk
  BY <1>1, <1>5, <1>6, AdvanceTyped DEF Files
<1>8. TypeInv'
  BY <1>1, <1>7, UserStays, PushTypes DEF user
<1> QED BY <1>2, <1>3, <1>5, <1>6, <1>8

(* The programs of a pin that conflicted. *)
LEMMA PinSteps ==
  ASSUME NEW x \in {<<>>, <<"rebase">>}, NEW y \in {<<>>, <<"queuePin">>},
         NEW s, s = x \o <<"remove", "readPin", "put">> \o y \o <<"open">>
  PROVE  /\ s \in PinPrograms
         /\ x = <<>> => Head(s) = "remove"
         /\ x # <<>> => Head(s) = "rebase"
         /\ y # <<>> => s \in {<<"rebase", "remove", "readPin", "put", "queuePin", "open">>,
                               <<"remove", "readPin", "put", "queuePin", "open">>}
         /\ y = <<>> => s \in {<<"rebase", "remove", "readPin", "put", "open">>,
                               <<"remove", "readPin", "put", "open">>}
<1>1. PICK m, o : m = <<"remove", "readPin", "put">> /\ o = <<"open">>
  OBVIOUS
<1>2. <<"rebase">> # <<>> /\ <<"queuePin">> # <<>>
  OBVIOUS
<1>3. CASE x = <<>> /\ y = <<>>
  <2>1. x \o m = m
    <3>1. m \in Seq({"remove", "readPin", "put"})
      BY <1>1
    <3> QED BY <1>3, <3>1, ConcatEmptySeq
  <2>2. m \o y = m
    <3>1. m \in Seq({"remove", "readPin", "put"})
      BY <1>1
    <3> QED BY <1>3, <3>1, ConcatEmptySeq
  <2>3. m \o o = <<"remove", "readPin", "put", "open">>
    BY <1>1, Concat3and1
  <2>4. s = <<"remove", "readPin", "put", "open">>
    BY <1>1, <2>1, <2>2, <2>3
  <2>5. Head(s) = "remove"
    BY <2>4
  <2> QED BY <1>3, <2>4, <2>5 DEF PinPrograms
<1>4. CASE x = <<>> /\ y = <<"queuePin">>
  <2>1. x \o m = m
    <3>1. m \in Seq({"remove", "readPin", "put"})
      BY <1>1
    <3> QED BY <1>4, <3>1, ConcatEmptySeq
  <2>2. m \o y = <<"remove", "readPin", "put", "queuePin">>
    BY <1>1, <1>4, Concat3and1
  <2>3. <<"remove", "readPin", "put", "queuePin">> \o o
          = <<"remove", "readPin", "put", "queuePin", "open">>
    BY <1>1, Concat4and1
  <2>4. s = <<"remove", "readPin", "put", "queuePin", "open">>
    BY <1>1, <2>1, <2>2, <2>3
  <2>5. Head(s) = "remove"
    BY <2>4
  <2> QED BY <1>2, <1>4, <2>4, <2>5 DEF PinPrograms
<1>5. CASE x = <<"rebase">> /\ y = <<>>
  <2>1. x \o m = <<"rebase", "remove", "readPin", "put">>
    BY <1>1, <1>5, Concat1and3
  <2>2. (x \o m) \o y = x \o m
    <3>1. x \o m \in Seq({"rebase", "remove", "readPin", "put"})
      BY <2>1
    <3> QED BY <1>5, <3>1, ConcatEmptySeq
  <2>3. <<"rebase", "remove", "readPin", "put">> \o o
          = <<"rebase", "remove", "readPin", "put", "open">>
    BY <1>1, Concat4and1
  <2>4. s = <<"rebase", "remove", "readPin", "put", "open">>
    BY <1>1, <2>1, <2>2, <2>3
  <2>5. Head(s) = "rebase"
    BY <2>4
  <2> QED BY <1>2, <1>5, <2>4, <2>5 DEF PinPrograms
<1>6. CASE x = <<"rebase">> /\ y = <<"queuePin">>
  <2>1. x \o m = <<"rebase", "remove", "readPin", "put">>
    BY <1>1, <1>6, Concat1and3
  <2>2. <<"rebase", "remove", "readPin", "put">> \o y
          = <<"rebase", "remove", "readPin", "put", "queuePin">>
    BY <1>6, Concat4and1
  <2>3. <<"rebase", "remove", "readPin", "put", "queuePin">> \o o
          = <<"rebase", "remove", "readPin", "put", "queuePin", "open">>
    BY <1>1, Concat5and1
  <2>4. s = <<"rebase", "remove", "readPin", "put", "queuePin", "open">>
    BY <1>1, <2>1, <2>2, <2>3
  <2>5. Head(s) = "rebase"
    BY <2>4
  <2> QED BY <1>2, <1>6, <2>4, <2>5 DEF PinPrograms
<1> QED BY <1>3, <1>4, <1>5, <1>6

(* The outcomes of a pin that conflicted: the note is gone, or the pin is    *)
(* asked for again unless a later one waits.                                 *)
PinsGone ==
  task.remote = Absent /\ task'.steps = <<"put", "remove">> /\ task'.put = Absent

PinsAgain ==
  /\ task.remote # Absent /\ task'.steps \in PinPrograms
  /\ task'.laterSave = (Later(disk, Current, "note.save") # {})
  /\ IF task'.laterSave
     THEN Head(task'.steps) = "remove" /\ lapses' = lapses \cup {"pin"}
     ELSE Head(task'.steps) = "rebase"
  /\ IF Later(disk, Current, "note.pin") = {}
     THEN task'.steps \in {<<"rebase", "remove", "readPin", "put", "queuePin", "open">>,
                           <<"remove", "readPin", "put", "queuePin", "open">>}
     ELSE task'.steps \in {<<"rebase", "remove", "readPin", "put", "open">>,
                           <<"remove", "readPin", "put", "open">>}

LEMMA ConflictedPinTypes ==
  ASSUME Inv, TypeInv, ConflictedPin
  PROVE  /\ TypeInv' /\ task'.target = task.target /\ task'.remote = task.remote
         /\ PinsGone \/ PinsAgain
<1>1. Step = "pin" /\ UNCHANGED <<disk, user, wire, server, budget, owed>>
  BY DEF ConflictedPin
<1>2. task.target \in Notes /\ task.pc = "acks"
  BY <1>1, StepIs DEF Target
<1>3. UserTyped' /\ disk' \in Disk
  BY <1>1, UserStays DEF user, TypeInv
<1>4. PICK laterSave \in BOOLEAN : laterSave = (Later(disk, Current, "note.save") # {})
  OBVIOUS
<1>5. PICK laterPin \in BOOLEAN : laterPin = (Later(disk, Current, "note.pin") # {})
  OBVIOUS
<1>6. CASE task.remote = Absent
  <2>1. PICK s : s = <<"put", "remove">>
    OBVIOUS
  <2>2. s \in ReplacePrograms /\ s \in Programs /\ s \in Seq(Steps)
    BY <2>1, ProgramsOfSteps DEF ReplacePrograms, Programs
  <2>3. task' = [task EXCEPT !.steps = s, !.put = Absent]
    BY <1>6, <2>1 DEF ConflictedPin
  <2>4. /\ Continues(task') /\ task'.steps = s /\ task'.remote = task.remote
        /\ task'.put = Absent /\ task'.target = task.target
    BY <1>2, <2>2, <2>3, TaskIs, StoreAssumption DEF Continues, Task, Optional
  <2>5. Prepared'
    BY <2>2, <2>4, PlainPrepared DEF PlainPrograms
  <2>6. TaskTyped'
    BY <2>4, <2>5, ContinuesTyped
  <2>7. PinsGone
    BY <1>6, <2>1, <2>4 DEF PinsGone
  <2> QED BY <1>1, <1>3, <2>4, <2>6, <2>7, PushTypes
<1>7. CASE task.remote # Absent
  <2>1. PICK x : x = IF laterSave THEN <<>> ELSE <<"rebase">>
    OBVIOUS
  <2>2. PICK y : y = IF laterPin THEN <<>> ELSE <<"queuePin">>
    OBVIOUS
  <2>3. PICK s : s = x \o <<"remove", "readPin", "put">> \o y \o <<"open">>
    OBVIOUS
  <2>4. /\ x \in {<<>>, <<"rebase">>} /\ y \in {<<>>, <<"queuePin">>}
        /\ laterSave <=> x = <<>>
        /\ laterPin <=> y = <<>>
    <3>1. <<"rebase">> # <<>> /\ <<"queuePin">> # <<>>
      OBVIOUS
    <3> QED BY <2>1, <2>2, <3>1
  <2>5. /\ s \in PinPrograms
        /\ IF laterSave THEN Head(s) = "remove" ELSE Head(s) = "rebase"
        /\ ~laterPin => s \in {<<"rebase", "remove", "readPin", "put", "queuePin", "open">>,
                               <<"remove", "readPin", "put", "queuePin", "open">>}
        /\ laterPin => s \in {<<"rebase", "remove", "readPin", "put", "open">>,
                              <<"remove", "readPin", "put", "open">>}
    BY <2>3, <2>4, PinSteps
  <2>6. s \in Programs /\ s \in Seq(Steps)
    BY <2>5, ProgramsOfSteps DEF Programs
  <2>7. PICK pinned \in BOOLEAN : pinned = PinnedLater(Current.pinned)
    <3>1. Current.pinned \in BOOLEAN
      BY <1>2, CurrentTyped, OperationIs
    <3> QED BY <3>1, PinnedLaterTyped
  <2>8. task' = [task EXCEPT !.laterSave = laterSave, !.pinned = pinned, !.steps = s]
    BY <1>4, <1>5, <1>7, <2>1, <2>2, <2>3, <2>7 DEF ConflictedPin
  <2>9. /\ Continues(task') /\ task'.steps = s /\ task'.remote = task.remote
        /\ task'.laterSave = laterSave /\ task'.target = task.target
    BY <1>2, <2>6, <2>8, TaskIs, StoreAssumption DEF Continues, Task
  <2>10. Prepared'
    <3>1. s \notin MergePrograms \cup ConflictPrograms /\ s # <<"deletion">>
      <4>1. <<"deletion">> \in FetchPrograms
        BY DEF FetchPrograms
      <4> QED BY <2>5, <4>1, ProgramsApart
    <3>2. Step' = Head(s)
      BY <2>6, <2>9, ProgramHeads DEF Step
    <3>3. Head(s) # "conflict"
      BY <2>5
    <3> QED BY <1>7, <2>9, <3>1, <3>2, <3>3 DEF Prepared
  <2>11. TaskTyped'
    BY <2>9, <2>10, ContinuesTyped
  <2>12. laterSave => lapses' = lapses \cup {"pin"}
    BY <1>4 DEF ConflictedPin
  <2>13. PinsAgain
    BY <1>4, <1>5, <1>7, <2>5, <2>9, <2>12 DEF PinsAgain
  <2> QED BY <1>1, <1>3, <2>9, <2>11, <2>13, PushTypes
<1> QED BY <1>6, <1>7

(* readPin prepares the version to store. *)
ReadsPinned ==
  /\ task.remote \in Remote /\ task'.put \in Note
  /\ task'.put.revision = task.remote.revision /\ task'.put.base = task.remote.revision
  /\ task'.put.pending = TRUE
  /\ \/ /\ Local # Absent /\ task'.put.text = Local.text /\ lapses' = lapses \cup {"pin"}
        /\ task.laterSave \/ (editor.note = Target /\ editor.dirty)
     \/ /\ task'.put.text = task.remote.text
        /\ Local = Absent => lapses' = lapses \cup {"pin"}
        /\ Local # Absent => ~task.laterSave /\ ~(editor.note = Target /\ editor.dirty)

LEMMA ReadPinnedTypes ==
  ASSUME Inv, TypeInv, ReadPinned
  PROVE  /\ TypeInv' /\ task'.target = task.target /\ task'.remote = task.remote
         /\ task'.steps = Tail(task.steps) /\ ReadsPinned
<1>1. Step = "readPin" /\ UNCHANGED <<disk, user, wire, server, budget, owed>>
  BY DEF ReadPinned
<1>2. /\ task.target \in Notes /\ task.pc = "acks" /\ task.steps \in Programs
      /\ Step = Head(task.steps)
      /\ Local \in Optional(Note) /\ (Local # Absent => Local \in Note)
  BY <1>1, StepIs DEF Target
<1>3. UserTyped' /\ disk' \in Disk
  BY <1>1, UserStays DEF user, TypeInv
<1>4. task.steps \in {<<"readPin", "put", "queuePin", "open">>, <<"readPin", "put", "open">>}
  BY <1>1, <1>2, StepPrograms
<1>5. PICK remote \in Remote : remote = task.remote
  <2>1. task.steps \in PinPrograms
    BY <1>4 DEF PinPrograms
  <2> QED BY <2>1, TaskIs DEF TypeInv, TaskTyped, Prepared
<1>6. PICK keep \in BOOLEAN :
        keep = (Local # Absent /\ (task.laterSave \/ (editor.note = Target /\ editor.dirty)))
  OBVIOUS
<1>7. PICK text \in Text : text = IF keep THEN Local.text ELSE remote.text
  <2>1. keep => Local.text \in Text
    BY <1>2, <1>6, NoteIs
  <2> QED BY <2>1, RemoteIs
<1>8. PICK baseText \in Optional(Text) : baseText = IF keep THEN Local.baseText ELSE Absent
  <2>1. keep => Local.baseText \in Optional(Text)
    BY <1>2, <1>6, NoteIs
  <2> QED BY <2>1 DEF Optional
<1>9. PICK put : put = [text |-> text, revision |-> remote.revision, pending |-> TRUE,
                        base |-> remote.revision, baseText |-> baseText, pinned |-> task.pinned]
  OBVIOUS
<1>10. /\ put \in Note /\ put.text = text /\ put.revision = remote.revision
       /\ put.base = remote.revision /\ put.pending = TRUE
  <2>1. remote.revision \in Nat /\ task.pinned \in BOOLEAN
    BY RemoteIs, TaskIs
  <2>2. remote.revision \in Optional(Nat)
    BY <2>1 DEF Optional
  <2>3. put \in Note
    BY <1>9, <2>1, <2>2 DEF Note
  <2> QED BY <1>9, <2>3
<1>11. PICK s : s = Tail(task.steps)
  OBVIOUS
<1>12. s \in {<<"put", "queuePin", "open">>, <<"put", "open">>}
  <2>1. task.steps = <<"readPin", "put", "queuePin", "open">>
          => Tail(task.steps) = <<"put", "queuePin", "open">>
    OBVIOUS
  <2>2. task.steps = <<"readPin", "put", "open">> => Tail(task.steps) = <<"put", "open">>
    OBVIOUS
  <2> QED BY <1>4, <1>11, <2>1, <2>2
<1>13. s \in PinPrograms /\ s \in Programs /\ s \in Seq(Steps)
  <2>1. s \in PinPrograms
    BY <1>12 DEF PinPrograms
  <2> QED BY <2>1, ProgramsOfSteps DEF Programs
<1>14. task' = [task EXCEPT !.steps = s, !.put = put]
  BY <1>5, <1>6, <1>7, <1>8, <1>9, <1>11 DEF ReadPinned
<1>15. put \in Optional(Note)
  BY <1>10 DEF Optional
<1>16. /\ Continues(task') /\ task'.steps = s /\ task'.remote = task.remote
       /\ task'.put = put /\ task'.target = task.target
  BY <1>2, <1>13, <1>14, <1>15, TaskIs, StoreAssumption DEF Continues, Task
<1>17. Prepared'
  <2>1. s \notin MergePrograms \cup ConflictPrograms /\ s # <<"deletion">>
    <3>1. <<"deletion">> \in FetchPrograms
      BY DEF FetchPrograms
    <3> QED BY <1>13, <3>1, ProgramsApart
  <2>2. Step' = Head(s)
    BY <1>13, <1>16, ProgramHeads DEF Step
  <2>3. Head(s) # "conflict"
    BY <1>12
  <2>4. task.remote # Absent
    BY <1>5, StoreAssumption
  <2> QED BY <1>16, <2>1, <2>2, <2>3, <2>4 DEF Prepared
<1>18. TaskTyped'
  BY <1>16, <1>17, ContinuesTyped
<1>19. lapses' = lapses \cup (IF keep \/ Local = Absent THEN {"pin"} ELSE {})
  BY <1>6 DEF ReadPinned
<1>20. ReadsPinned
  <2>1. CASE keep
    BY <1>2, <1>5, <1>6, <1>7, <1>10, <1>16, <1>19, <2>1 DEF ReadsPinned
  <2>2. CASE ~keep
    BY <1>2, <1>5, <1>6, <1>7, <1>10, <1>16, <1>19, <2>2 DEF ReadsPinned
  <2> QED BY <2>1, <2>2
<1>21. TypeInv'
  BY <1>1, <1>3, <1>18, PushTypes
<1> QED BY <1>11, <1>16, <1>20, <1>21

(* The transactions of a program, one by one. *)
TransactsAs ==
  /\ Step = "put" => Puts(disk, disk', task.target, task.put)
  /\ Step = "supersede" => /\ QueueOnly(disk, disk')
                           /\ disk'.queue = SupersededQueue(disk, task.target, Current.sequence)
  /\ Step = "remove" => QueueOnly(disk, disk') /\ disk'.queue = disk.queue \ {Current}
  /\ Step = "rebase" =>
       /\ QueueOnly(disk, disk') /\ task.remote \in Remote
       /\ disk'.queue = MovedQueue(disk, Current, task.remote.revision, task.remote.text)
  /\ Step = "queue" =>
       /\ task.remote \in Remote /\ task.put \in Note
       /\ Save(task.target, task.remote.revision, task.put) \in Request
       /\ Queueing(disk, disk', Save(task.target, task.remote.revision, task.put))
  /\ Step = "queuePin" =>
       /\ task.remote \in Remote
       /\ PinRequest(task.target, task.remote.revision, task.pinned) \in Request
       /\ Queueing(disk, disk', PinRequest(task.target, task.remote.revision, task.pinned))

LEMMA TransactStores ==
  ASSUME Inv, TypeInv, Transact
  PROVE  disk' \in Disk /\ TransactsAs
<1>1. /\ Step \in {"put", "supersede", "remove", "rebase", "queue", "queuePin"}
      /\ disk' = Transaction
  BY DEF Transact
<1>2. /\ task.steps \in Programs /\ Step = Head(task.steps) /\ Target \in Notes
      /\ task.pc = "acks" /\ Current \in Operation /\ Target = task.target
  BY <1>1, StepIs DEF Target
<1>3. disk \in Disk /\ Ordered(disk)
  BY DEF TypeInv, Inv, Shaped
<1>4. CASE Step = "put"
  <2>1. disk' = PutNote(disk, Target, task.put)
    BY <1>1, <1>4 DEF Transaction
  <2>2. PICK e : e = PutNote(disk, Target, task.put)
    OBVIOUS
  <2>3. Puts(disk, e, Target, task.put)
    BY <1>2, <1>3, <2>2, TaskIs, PutTyped
  <2> QED BY <1>2, <1>4, <2>1, <2>2, <2>3 DEF TransactsAs, Puts
<1>5. CASE Step = "supersede"
  <2>1. disk' = Supersede(disk, Target, Current.sequence)
    BY <1>1, <1>5 DEF Transaction
  <2>2. PICK e : e = Supersede(disk, Target, Current.sequence)
    OBVIOUS
  <2>3. QueueOnly(disk, e) /\ e.queue = SupersededQueue(disk, Target, Current.sequence)
    BY <1>3, <2>2, SupersedeTyped
  <2> QED BY <1>2, <1>5, <2>1, <2>2, <2>3 DEF TransactsAs, QueueOnly
<1>6. CASE Step = "remove"
  <2>1. disk' = RemoveIfIdentityMatches(disk, Current)
    BY <1>1, <1>6 DEF Transaction
  <2>2. QueueOnly(disk, disk') /\ disk'.queue = disk.queue \ {Current}
    <3>1. CASE Current \in disk.queue
      <4>1. PICK e : e = Dequeue(disk, Current)
        OBVIOUS
      <4>2. QueueOnly(disk, e) /\ e.queue = disk.queue \ {Current}
        BY <1>3, <4>1, DequeueTyped
      <4> QED BY <2>1, <3>1, <4>1, <4>2 DEF RemoveIfIdentityMatches, IdentityMatches
    <3>2. CASE Current \notin disk.queue
      <4>1. disk' = disk
        BY <2>1, <3>2 DEF RemoveIfIdentityMatches, IdentityMatches
      <4> QED BY <1>3, <3>2, <4>1 DEF QueueOnly
    <3> QED BY <3>1, <3>2
  <2> QED BY <1>6, <2>2 DEF TransactsAs, QueueOnly
<1>7. CASE Step = "rebase"
  <2>1. disk' = Rebase(disk, Current, task.remote.revision, task.remote.text)
    BY <1>1, <1>7 DEF Transaction
  <2>2. PICK remote \in Remote : remote = task.remote
    <3>1. task.steps \in PinPrograms
      BY <1>2, <1>7, StepPrograms DEF PinPrograms
    <3> QED BY <3>1, TaskIs DEF TypeInv, TaskTyped, Prepared
  <2>3. PICK e : e = Rebase(disk, Current, remote.revision, remote.text)
    OBVIOUS
  <2>4. /\ QueueOnly(disk, e)
        /\ e.queue = MovedQueue(disk, Current, remote.revision, remote.text)
    BY <1>3, <2>3, RemoteIs, RebaseTyped
  <2> QED BY <1>7, <2>1, <2>2, <2>3, <2>4 DEF TransactsAs, QueueOnly
<1>8. CASE Step = "queue"
  <2>1. disk' = QueueOperation(disk, Save(Target, task.remote.revision, task.put))
    BY <1>1, <1>8 DEF Transaction
  <2>2. task.remote # Absent /\ task.put # Absent
    <3>1. task.steps \in MergePrograms
      BY <1>2, <1>8, StepPrograms DEF MergePrograms
    <3> QED BY <3>1 DEF TypeInv, TaskTyped, Prepared
  <2>3. PICK remote \in Remote : remote = task.remote
    BY <2>2, TaskIs
  <2>4. PICK put \in Note : put = task.put
    BY <2>2, TaskIs
  <2>5. PICK r : r = Save(Target, remote.revision, put)
    OBVIOUS
  <2>6. r \in Request
    <3>1. remote.revision \in Optional(Nat)
      BY RemoteIs DEF Optional
    <3> QED BY <1>2, <2>5, <3>1, RequestsTyped
  <2>7. PICK e : e = QueueOperation(disk, r)
    OBVIOUS
  <2>8. Queueing(disk, e, r)
    BY <1>3, <2>6, <2>7, QueueingTyped
  <2>9. e \in Disk
    BY <2>8 DEF Queueing
  <2> QED BY <1>2, <1>8, <2>1, <2>3, <2>4, <2>5, <2>6, <2>7, <2>8, <2>9 DEF TransactsAs
<1>9. CASE Step = "queuePin"
  <2>1. disk' = QueueOperation(disk, PinRequest(Target, task.remote.revision, task.pinned))
    BY <1>1, <1>9 DEF Transaction
  <2>2. task.remote # Absent
    <3>1. task.steps \in PinPrograms
      BY <1>2, <1>9, StepPrograms DEF PinPrograms
    <3> QED BY <3>1 DEF TypeInv, TaskTyped, Prepared
  <2>3. PICK remote \in Remote : remote = task.remote
    BY <2>2, TaskIs
  <2>4. PICK r : r = PinRequest(Target, remote.revision, task.pinned)
    OBVIOUS
  <2>5. r \in Request
    <3>1. remote.revision \in Optional(Nat)
      BY RemoteIs DEF Optional
    <3>2. \A note \in Note : PinRequest(Target, remote.revision, task.pinned) \in Request
      BY <1>2, <3>1, TaskIs, RequestsTyped
    <3>3. Settled(remote) \in Note
      BY SettledTyped
    <3> QED BY <2>4, <3>2, <3>3
  <2>6. PICK e : e = QueueOperation(disk, r)
    OBVIOUS
  <2>7. Queueing(disk, e, r)
    BY <1>3, <2>5, <2>6, QueueingTyped
  <2>8. e \in Disk
    BY <2>7 DEF Queueing
  <2> QED BY <1>2, <1>9, <2>1, <2>3, <2>4, <2>5, <2>6, <2>7, <2>8 DEF TransactsAs
<1> QED BY <1>1, <1>4, <1>5, <1>6, <1>7, <1>8, <1>9

LEMMA TransactTypes ==
  ASSUME Inv, TypeInv, Transact
  PROVE  TypeInv'
<1>1. disk' \in Disk
  BY TransactStores
<1>2. Step # "none" /\ Advance /\ UNCHANGED <<user, wire, server, asides>>
  BY DEF Transact
<1>3. TaskTyped' /\ UserTyped'
  BY <1>2, AdvanceTyped, UserStays DEF user
<1> QED BY <1>1, <1>2, <1>3, PushTypes DEF asides

LEMMA FollowsTyped ==
  ASSUME TypeInv, NEW n \in Notes, NEW note \in Note, NEW e, e = UpdateOpenNote(editor, n, note),
         editor' = e
  PROVE  /\ editor' \in Editor /\ (editor'.dirty => editor'.note # Absent)
         /\ \/ editor' = editor
            \/ /\ editor.note = n /\ ~editor.dirty /\ editor' = Showing(n, note)
               /\ editor'.note = n /\ editor'.dirty = FALSE
<1>1. editor \in Editor /\ (editor.dirty => editor.note # Absent)
  BY DEF TypeInv, UserTyped
<1>2. CASE editor.note # n \/ editor.dirty
  <2>1. editor' = editor
    BY <1>2 DEF UpdateOpenNote
  <2> QED BY <1>1, <2>1
<1>3. CASE ~(editor.note # n \/ editor.dirty)
  <2>1. editor' = Showing(n, note)
    BY <1>3 DEF UpdateOpenNote
  <2>2. PICK s : s = Showing(n, note)
    OBVIOUS
  <2>3. s \in Editor /\ s.note = n /\ s.dirty = FALSE
    BY <2>2, ShowingTyped
  <2> QED BY <1>3, <2>1, <2>2, <2>3
<1> QED BY <1>2, <1>3

(* The user's part when the push shows a note or closes the editor. *)
LEMMA ShowsTyped ==
  ASSUME TypeInv, chore' = chore,
         \/ \E n \in Notes, note \in Note : editor' = Showing(n, note) /\ NewSession
         \/ \E n \in Notes, note \in Note : editor' = UpdateOpenNote(editor, n, note) /\ saver' = saver
         \/ editor' = Closed /\ NewSession
         \/ UNCHANGED <<editor, saver>>
  PROVE  UserTyped'
<1>1. CASE \E n \in Notes, note \in Note : editor' = Showing(n, note) /\ NewSession
  <2>1. PICK n \in Notes, note \in Note : editor' = Showing(n, note) /\ NewSession
    BY <1>1
  <2>2. editor' \in Editor /\ editor'.dirty = FALSE
    BY <2>1, ShowingTyped
  <2> QED BY <2>1, <2>2, SessionTyped DEF TypeInv, UserTyped
<1>2. CASE \E n \in Notes, note \in Note : editor' = UpdateOpenNote(editor, n, note) /\ saver' = saver
  <2>1. PICK n \in Notes, note \in Note : editor' = UpdateOpenNote(editor, n, note) /\ saver' = saver
    BY <1>2
  <2>2. editor' \in Editor /\ (editor'.dirty => editor'.note # Absent)
    BY <2>1, FollowsTyped
  <2> QED BY <2>1, <2>2 DEF TypeInv, UserTyped
<1>3. CASE editor' = Closed /\ NewSession
  BY <1>3, ClosedTyped, SessionTyped DEF TypeInv, UserTyped
<1>4. CASE UNCHANGED <<editor, saver>>
  BY <1>4, UserStays
<1> QED BY <1>1, <1>2, <1>3, <1>4

LEMMA ShowOutcomeTypes ==
  ASSUME Inv, TypeInv, ShowOutcome
  PROVE  TypeInv' /\ (Step = "show" => task.remote \in Remote)
<1>1. Step \in {"open", "show"} /\ Advance /\ UNCHANGED <<disk, chore, wire, server, asides>>
  BY DEF ShowOutcome
<1>2. /\ task.steps \in Programs /\ Step = Head(task.steps) /\ Target \in Notes
      /\ task.put # Absent => task.put \in Note
  BY <1>1, StepIs, TaskIs
<1>3. Step = "show" => task.remote \in Remote
  <2>1. Step = "show" => task.steps \in ConflictPrograms
    BY <1>2, StepPrograms DEF ConflictPrograms
  <2> QED BY <2>1, TaskIs DEF TypeInv, TaskTyped, Prepared
<1>4. UserTyped'
  <2>1. CASE Step = "show"
    <3>1. PICK note \in Note : note = Settled(task.remote)
      BY <1>3, <2>1, SettledTyped
    <3>2. editor' = Showing(Target, note) /\ NewSession
      BY <2>1, <3>1 DEF ShowOutcome
    <3> QED BY <1>1, <1>2, <3>2, ShowsTyped
  <2>2. CASE Step # "show" /\ task.put # Absent
    <3>1. editor' = UpdateOpenNote(editor, Target, task.put) /\ saver' = saver
      BY <2>2 DEF ShowOutcome
    <3> QED BY <1>1, <1>2, <2>2, <3>1, ShowsTyped
  <2>3. CASE Step # "show" /\ task.put = Absent
    <3>1. UNCHANGED <<editor, saver>> \/ (editor' = Closed /\ NewSession)
      BY <2>3 DEF ShowOutcome
    <3> QED BY <1>1, <3>1, ShowsTyped
  <2> QED BY <2>1, <2>2, <2>3
<1>5. TaskTyped'
  BY <1>1, AdvanceTyped
<1>6. disk' \in Disk
  BY <1>1 DEF TypeInv
<1> QED BY <1>1, <1>3, <1>4, <1>5, <1>6, PushTypes DEF asides

LEMMA ReconcileTypes ==
  ASSUME Inv, TypeInv, Reconcile
  PROVE  /\ TypeInv' /\ task.pc = "acks" /\ Current \in Operation /\ task.target \in Notes
         /\ IdentityMatches(disk, Current) => Reconciling(disk, disk', Current, task.remote)
<1>1. Step = "reconcile" /\ UNCHANGED <<chore, wire, server, budget, owed>>
  BY DEF Reconcile
<1>2. /\ task.pc = "acks" /\ Current \in Operation /\ Target \in Notes /\ Target = task.target
      /\ task.remote # Absent => task.remote \in Remote
      /\ task.remote \in Optional(Remote)
  BY <1>1, StepIs, TaskIs DEF Target
<1>3. CASE ~IdentityMatches(disk, Current)
  <2>1. disk' = disk /\ task' = IdleTask /\ UNCHANGED <<editor, saver>>
    BY <1>3 DEF Reconcile
  <2>2. BatchLimit \in Nat
    BY SyncAssumption
  <2>3. TaskTyped' /\ disk' \in Disk /\ UserTyped'
    BY <1>1, <2>1, <2>2, IdleTaskTyped, UserStays DEF TypeInv
  <2> QED BY <1>1, <1>2, <1>3, <2>3, PushTypes
<1>4. CASE IdentityMatches(disk, Current)
  <2>1. PICK e : e = ReconcileCompacted(disk, Current, task.remote)
    OBVIOUS
  <2>2. Reconciling(disk, e, Current, task.remote)
    BY <1>2, <2>1, ReconcileTyped DEF TypeInv
  <2>3. disk' = e /\ Advance
    BY <1>4, <2>1 DEF Reconcile
  <2>4. UserTyped'
    <3>1. CASE task.remote # Absent /\ ~(Rebasable(disk, Current) # {})
      <4>1. PICK note \in Note : note = Settled(task.remote)
        BY <1>2, <3>1, SettledTyped
      <4>2. editor' = UpdateOpenNote(editor, Target, note) /\ saver' = saver
        BY <1>4, <3>1, <4>1 DEF Reconcile
      <4> QED BY <1>1, <1>2, <4>2, ShowsTyped
    <3>2. CASE ~(task.remote # Absent /\ ~(Rebasable(disk, Current) # {}))
      <4>1. (editor' = Closed /\ NewSession) \/ UNCHANGED <<editor, saver>>
        BY <1>4, <3>2 DEF Reconcile
      <4> QED BY <1>1, <4>1, ShowsTyped
    <3> QED BY <3>1, <3>2
  <2>5. TaskTyped' /\ disk' \in Disk
    BY <1>1, <2>2, <2>3, AdvanceTyped DEF Reconciling
  <2> QED BY <1>1, <1>2, <2>2, <2>3, <2>4, <2>5, PushTypes
<1> QED BY <1>3, <1>4

(* The editor moves along with an acknowledgement. *)
LEMMA CommitAppliedTypes ==
  ASSUME Inv, TypeInv, CommitApplied
  PROVE  /\ TypeInv' /\ task.pc = "acks" /\ Current \in Operation /\ CurrentResult \in Result
         /\ IdentityMatches(disk, Current) =>
              Committed(disk, disk', Current, CurrentResult.revision)
         /\ ~IdentityMatches(disk, Current) => UNCHANGED <<disk, editor>>
         /\ editor'.note = editor.note /\ editor'.text = editor.text /\ editor'.saved = editor.saved
         /\ editor'.dirty = editor.dirty
<1>1. /\ task.pc = "acks" /\ task' = NextAcknowledgement
      /\ UNCHANGED <<saver, chore, wire, server, asides>>
  BY DEF CommitApplied, Acknowledging
<1>2. Current \in Operation /\ CurrentResult \in Result
  BY <1>1, CurrentTyped
<1>3. PICK revision \in Nat : revision = CurrentResult.revision
  BY <1>2 DEF Result
<1>4. TaskTyped'
  BY <1>1, NextTyped
<1>5. editor \in Editor /\ (editor.dirty => editor.note # Absent)
  BY DEF TypeInv, UserTyped
<1>6. CASE ~IdentityMatches(disk, Current)
  <2>1. UNCHANGED <<disk, editor>>
    BY <1>6 DEF CommitApplied
  <2>2. disk' \in Disk /\ UserTyped'
    BY <1>1, <2>1, UserStays DEF TypeInv
  <2> QED BY <1>1, <1>2, <1>4, <1>6, <2>1, <2>2, PushTypes DEF asides
<1>7. CASE IdentityMatches(disk, Current)
  <2>1. PICK e : e = CommitNoteAcknowledgement(disk, Current, revision)
    OBVIOUS
  <2>2. Committed(disk, e, Current, revision) /\ disk' = e
    BY <1>2, <1>3, <1>7, <2>1, CommitTyped DEF TypeInv, CommitApplied
  <2>3. disk' \in Disk
    BY <2>2 DEF Committed
  <2>4. PICK base \in Optional(Nat) : base = IF HasLater(disk, Current) THEN revision ELSE Absent
    BY DEF Optional
  <2>5. editor' = editor \/ editor' = [editor EXCEPT !.revision = revision, !.base = base]
    BY <1>3, <1>7, <2>4 DEF CommitApplied
  <2>6. /\ editor' \in Editor /\ editor'.note = editor.note /\ editor'.text = editor.text
        /\ editor'.saved = editor.saved /\ editor'.dirty = editor.dirty
    BY <1>5, <2>5 DEF Editor
  <2>7. UserTyped'
    BY <1>1, <1>5, <2>6 DEF TypeInv, UserTyped
  <2> QED BY <1>1, <1>2, <1>3, <1>4, <1>7, <2>2, <2>3, <2>6, <2>7, PushTypes DEF asides
<1> QED BY <1>6, <1>7

LEMMA RemoveAcknowledgedTypes ==
  ASSUME Inv, TypeInv, RemoveAcknowledged
  PROVE  /\ TypeInv' /\ task.pc = "acks" /\ Current \in Operation
         /\ QueueOnly(disk, disk') /\ disk'.queue = disk.queue \ {Current}
<1>1. /\ task.pc = "acks" /\ task' = NextAcknowledgement /\ UNCHANGED <<user, wire, server, asides>>
      /\ disk' = RemoveIfIdentityMatches(disk, Current)
  BY DEF RemoveAcknowledged, Acknowledging
<1>2. Current \in Operation /\ disk \in Disk
  BY <1>1, CurrentTyped DEF TypeInv
<1>3. QueueOnly(disk, disk') /\ disk'.queue = disk.queue \ {Current}
  <2>1. CASE Current \in disk.queue
    <3>1. PICK e : e = Dequeue(disk, Current)
      OBVIOUS
    <3>2. QueueOnly(disk, e) /\ e.queue = disk.queue \ {Current}
      BY <1>2, <3>1, DequeueTyped
    <3> QED BY <1>1, <2>1, <3>1, <3>2 DEF RemoveIfIdentityMatches, IdentityMatches
  <2>2. CASE Current \notin disk.queue
    <3>1. disk' = disk
      BY <1>1, <2>2 DEF RemoveIfIdentityMatches, IdentityMatches
    <3> QED BY <1>2, <2>2, <3>1 DEF QueueOnly
  <2> QED BY <2>1, <2>2
<1>4. TaskTyped' /\ UserTyped' /\ disk' \in Disk
  BY <1>1, <1>3, NextTyped, UserStays DEF user, QueueOnly
<1> QED BY <1>1, <1>2, <1>3, <1>4, PushTypes DEF asides

LEMMA SendBatchTypes ==
  ASSUME Inv, TypeInv, SendBatch
  PROVE  /\ TypeInv' /\ task.pc = "idle"
         /\ \E B \in SUBSET disk.queue :
              /\ B # {} /\ \A q, r \in B : q # r /\ OfNote(q) /\ OfNote(r) => q.note # r.note
              /\ QueueOnly(disk, disk') /\ disk'.queue = (disk.queue \ B) \cup Attempted(B)
              /\ Attempted(B) = {Sending(q) : q \in B} /\ Attempted(B) \subseteq Operation
              /\ task' = [task EXCEPT !.pc = "sent", !.batch = Attempted(B)]
              /\ wire' = wire \cup {Attempted(B)}
<1>1. PICK B \in Claimable(disk, task.limit) \cup Claimable(disk, BatchLimit) :
        /\ task.pc = "idle" /\ disk' = Claim(disk, B)
        /\ task' = [task EXCEPT !.pc = "sent", !.batch = Attempted(B)]
        /\ wire' = wire \cup {Attempted(B)} /\ UNCHANGED <<user, server, asides>>
  BY Zenon DEF SendBatch
<1>2. B \in SUBSET disk.queue /\ B # {} /\ \A q, r \in B : q # r /\ OfNote(q) /\ OfNote(r) => q.note # r.note
  BY <1>1 DEF Claimable
<1>3. /\ QueueOnly(disk, disk') /\ disk'.queue = (disk.queue \ B) \cup Attempted(B)
      /\ Attempted(B) = {Sending(q) : q \in B} /\ Attempted(B) \subseteq Operation
  <2>1. PICK e : e = Claim(disk, B)
    OBVIOUS
  <2>2. /\ QueueOnly(disk, e) /\ e.queue = (disk.queue \ B) \cup Attempted(B)
        /\ Attempted(B) = {Sending(q) : q \in B} /\ Attempted(B) \subseteq Operation
    BY <1>2, <2>1, ClaimTyped DEF TypeInv
  <2> QED BY <1>1, <2>1, <2>2
<1>4. PICK S \in SUBSET Operation : S = Attempted(B)
  BY <1>3
<1>5. task.steps = <<>>
  BY <1>1 DEF Inv, TaskFollows
<1>6. TaskTyped'
  <2>1. task' \in Task /\ task'.pc = "sent" /\ task'.steps = <<>>
    BY <1>1, <1>4, <1>5, TaskIs DEF Task
  <2>2. Prepared'
    BY <2>1, IdlePrepared
  <2> QED BY <2>1, <2>2 DEF TaskTyped
<1>7. NetTyped'
  BY <1>1, <1>4 DEF TypeInv, NetTyped
<1>8. UserTyped' /\ AsideTyped' /\ disk' \in Disk
  BY <1>1, <1>3, UserStays, AsideStays DEF user, asides, QueueOnly
<1> QED BY Zenon, <1>1, <1>2, <1>3, <1>6, <1>7, <1>8 DEF TypeInv

LEMMA FaultTyped ==
  ASSUME TypeInv, Fault
  PROVE  budget' \in Budget /\ budget'.fresh = budget.fresh
<1>1. budget' = [budget EXCEPT !.faults = budget.faults - 1] /\ budget.faults > 0
  BY DEF Fault
<1>2. budget.faults - 1 \in Nat
  BY <1>1, BudgetIs
<1> QED BY <1>1, <1>2, BudgetIs DEF Budget

(* What a request does to the rows and results of the server.                *)
AppliesTo(q, n) ==
  OfNote(q) /\ q.note = n /\ ~IsReplay(server, q) /\ ~Conflicts(server.notes[n], q)

Serves(srv, batch) ==
  /\ srv.notes \in [Notes -> Row] /\ srv.results \subseteq Result
  /\ \A n \in Notes : \/ srv.notes[n] = server.notes[n] /\ \A q \in batch : ~AppliesTo(q, n)
                      \/ \E q \in batch : /\ AppliesTo(q, n)
                                          /\ srv.notes[n] = Written(server.notes[n], q)
  /\ \A r \in srv.results : \/ r \in server.results
                            \/ \E q \in batch : ~IsReplay(server, q) /\ r = Outcome(server, q)
  /\ server.results \subseteq srv.results
  /\ \A q \in batch : ~IsReplay(server, q) => Outcome(server, q) \in srv.results

LEMMA RowIs ==
  ASSUME NEW row \in Row
  PROVE  row.live \in BOOLEAN /\ row.revision \in Nat /\ row.text \in Text /\ row.pinned \in BOOLEAN
BY DEF Row

LEMMA WrittenTyped ==
  ASSUME NEW row \in Row, NEW q \in Operation, OfNote(q)
  PROVE  /\ Written(row, q) \in Row /\ Written(row, q).revision = row.revision + 1
         /\ Written(row, q).live = (q.type # "note.delete")
         /\ q.type = "note.save" => Written(row, q).text = q.text
         /\ q.type = "note.pin" => Written(row, q).text = row.text
         /\ q.type = "note.delete" => Written(row, q).text = {}
<1>1. PICK live \in BOOLEAN : live = (q.type # "note.delete")
  OBVIOUS
<1>2. PICK text : text = CASE q.type = "note.save" -> q.text [] q.type = "note.pin" -> row.text
                           [] OTHER -> {}
  OBVIOUS
<1>3. q.type \in {"note.save", "note.pin", "note.delete"}
  BY DEF OfNote
<1>4. q.type = "note.save" => text = q.text
  BY <1>2
<1>5. q.type = "note.pin" => text = row.text
  BY <1>2
<1>6. q.type = "note.delete" => text = {}
  BY <1>2
<1>7. text \in Text
  BY <1>3, <1>4, <1>5, <1>6, RowIs, OperationIs DEF Text
<1>8. PICK pinned : pinned = CASE q.type = "note.pin" -> q.pinned [] q.type = "note.delete" -> FALSE
                               [] OTHER -> IF row.live THEN row.pinned ELSE q.pinned
  OBVIOUS
<1>9. pinned \in BOOLEAN
  <2>1. q.type = "note.pin" => pinned = q.pinned
    BY <1>8
  <2>2. q.type = "note.delete" => pinned = FALSE
    BY <1>8
  <2>3. q.type = "note.save" => pinned = IF row.live THEN row.pinned ELSE q.pinned
    BY <1>8
  <2> QED BY <1>3, <2>1, <2>2, <2>3, RowIs, OperationIs
<1>10. Written(row, q) = [live |-> live, revision |-> row.revision + 1, text |-> text, pinned |-> pinned]
  BY <1>1, <1>2, <1>8, Zenon DEF Written
<1>11. row.revision + 1 \in Nat
  BY RowIs
<1>12. Written(row, q) \in Row
  BY <1>1, <1>7, <1>9, <1>10, <1>11 DEF Row
<1> QED BY <1>1, <1>4, <1>5, <1>6, <1>10, <1>12

LEMMA OutcomeTyped ==
  ASSUME TypeInv, NEW q \in Operation
  PROVE  /\ Outcome(server, q) \in Result /\ Outcome(server, q).sequence = q.sequence
         /\ Outcome(server, q).status = "applied" \/ Outcome(server, q).status = "conflict"
         /\ q.type = "noop" => Outcome(server, q).status = "applied"
         /\ q.type # "noop" =>
              IF Conflicts(server.notes[q.note], q)
              THEN Outcome(server, q).status = "conflict"
              ELSE /\ Outcome(server, q).status = "applied"
                   /\ Outcome(server, q).revision = server.notes[q.note].revision + 1
<1>1. PICK row : row = server.notes[q.note]
  OBVIOUS
<1>2. row \in Row
  BY <1>1, OperationIs DEF TypeInv, NetTyped
<1>3. row.revision \in Nat /\ row.revision + 1 \in Nat
  BY <1>2, RowIs
<1>4. PICK status : status = IF q.type = "noop" THEN "applied"
                             ELSE IF Conflicts(row, q) THEN "conflict" ELSE "applied"
  OBVIOUS
<1>5. PICK revision : revision = IF q.type = "noop" THEN 0
                                 ELSE IF Conflicts(row, q) THEN row.revision ELSE row.revision + 1
  OBVIOUS
<1>6. Outcome(server, q) = [sequence |-> q.sequence, id |-> q.id, status |-> status,
                            revision |-> revision]
  <2>1. CASE q.type = "noop"
    BY <1>4, <1>5, <2>1 DEF Outcome
  <2>2. CASE q.type # "noop" /\ Conflicts(row, q)
    BY <1>1, <1>4, <1>5, <2>2 DEF Outcome
  <2>3. CASE q.type # "noop" /\ ~Conflicts(row, q)
    BY <1>1, <1>4, <1>5, <2>3 DEF Outcome
  <2> QED BY <2>1, <2>2, <2>3
<1>7. status \in {"applied", "conflict"} /\ revision \in Nat
  BY <1>3, <1>4, <1>5
<1>8. Outcome(server, q) \in Result
  BY <1>6, <1>7, OperationIs DEF Result
<1>9. CASE q.type = "noop"
  BY <1>4, <1>6, <1>8, <1>9
<1>10. CASE q.type # "noop" /\ Conflicts(row, q)
  BY <1>1, <1>4, <1>6, <1>8, <1>10
<1>11. CASE q.type # "noop" /\ ~Conflicts(row, q)
  BY <1>1, <1>4, <1>5, <1>6, <1>8, <1>11
<1> QED BY <1>9, <1>10, <1>11

LEMMA ServesTyped ==
  ASSUME Inv, TypeInv, NEW batch \in wire
  PROVE  Serves(ApplyBatch(server, batch), batch) /\ batch \subseteq Operation
<1>1. /\ batch \subseteq Operation /\ server.notes \in [Notes -> Row]
      /\ server.results \subseteq Result
  BY DEF TypeInv, NetTyped
<1>2. PICK new : new = {q \in batch : ~IsReplay(server, q)}
  OBVIOUS
<1>3. PICK applied : applied = {q \in new : OfNote(q) /\ ~Conflicts(server.notes[q.note], q)}
  OBVIOUS
<1>4. PICK srv : srv = ApplyBatch(server, batch)
  OBVIOUS
<1>5. /\ srv.notes = [n \in Notes |-> IF {q \in applied : q.note = n} = {} THEN server.notes[n]
                                       ELSE Written(server.notes[n],
                                                    Newest({q \in applied : q.note = n}))]
      /\ srv.results = server.results \cup {Outcome(server, q) : q \in new}
  BY <1>2, <1>3, <1>4 DEF ApplyBatch
<1>6. ASSUME NEW n \in Notes
      PROVE  /\ srv.notes[n] \in Row
             /\ \/ srv.notes[n] = server.notes[n] /\ \A q \in batch : ~AppliesTo(q, n)
                \/ \E q \in batch : AppliesTo(q, n) /\ srv.notes[n] = Written(server.notes[n], q)
  <2>1. PICK on : on = {q \in applied : q.note = n}
    OBVIOUS
  <2>2. \A q \in batch : q \in on <=> AppliesTo(q, n)
    BY <1>2, <1>3, <2>1 DEF AppliesTo
  <2>3. on \subseteq batch
    BY <1>2, <1>3, <2>1
  <2>4. CASE on = {}
    <3>1. srv.notes[n] = server.notes[n]
      BY <1>5, <2>1, <2>4
    <3> QED BY <1>1, <2>2, <2>4, <3>1
  <2>5. CASE on # {}
    <3>1. PICK q : q = Newest(on)
      OBVIOUS
    <3>2. q \in on
      <4>1. \A p \in on : p.sequence \in Nat /\ p.sequence <= disk.sequence
        BY <1>1, <2>3, OperationIs DEF Inv, RequestsClaimed, Claimed
      <4>2. disk.sequence \in Nat
        BY DiskIs DEF TypeInv
      <4> QED BY <2>5, <3>1, <4>1, <4>2, NewestExists
    <3>3. srv.notes[n] = Written(server.notes[n], q)
      BY <1>5, <2>1, <2>5, <3>1
    <3>4. q \in batch /\ AppliesTo(q, n) /\ q \in Operation
      BY <1>1, <2>2, <2>3, <3>2
    <3>5. Written(server.notes[n], q) \in Row
      BY <1>1, <3>4, WrittenTyped DEF AppliesTo
    <3> QED BY <3>3, <3>4, <3>5
  <2> QED BY <2>4, <2>5
<1>7. srv.notes \in [Notes -> Row]
  BY <1>5, <1>6
<1>8. srv.results \subseteq Result
  BY <1>1, <1>2, <1>5, OutcomeTyped
<1>9. /\ \A r \in srv.results : \/ r \in server.results
                                \/ \E q \in batch : ~IsReplay(server, q) /\ r = Outcome(server, q)
      /\ server.results \subseteq srv.results
      /\ \A q \in batch : ~IsReplay(server, q) => Outcome(server, q) \in srv.results
  BY <1>2, <1>5
<1> QED BY <1>1, <1>4, <1>6, <1>7, <1>8, <1>9 DEF Serves

(* What the browser is told of an operation. *)
LEMMA ResultOfTyped ==
  ASSUME NEW srv, srv.results \subseteq Result, NEW q \in Operation
  PROVE  /\ ResultOf(srv, q) \in Result /\ ResultOf(srv, q).sequence = q.sequence
         /\ ResultOf(srv, q) \in srv.results \/ ResultOf(srv, q).status = "compacted"
<1>1. CASE \E r \in srv.results : r.sequence = q.sequence
  <2>1. PICK r : r = CHOOSE x \in srv.results : x.sequence = q.sequence
    OBVIOUS
  <2>2. r \in srv.results /\ r.sequence = q.sequence
    BY <1>1, <2>1
  <2>3. ResultOf(srv, q) = r
    BY <1>1, <2>1 DEF ResultOf
  <2> QED BY <2>2, <2>3
<1>2. CASE ~\E r \in srv.results : r.sequence = q.sequence
  <2>1. ResultOf(srv, q) = [sequence |-> q.sequence, id |-> q.id, status |-> "compacted", revision |-> 0]
    BY <1>2 DEF ResultOf
  <2> QED BY <2>1, OperationIs DEF Result
<1> QED BY <1>1, <1>2

LEMMA ReceiveTyped ==
  ASSUME Inv, TypeInv, NEW batch \in wire, Receive(batch)
  PROVE  /\ NetTyped' /\ Serves(server', batch) /\ batch \subseteq Operation
         /\ owed' \subseteq owed /\ wire' = wire \ {batch}
<1>1. wire' = wire \ {batch} /\ server' = ApplyBatch(server, batch) /\ owed' \subseteq owed
  BY DEF Receive
<1>2. Serves(server', batch) /\ batch \subseteq Operation
  BY <1>1, ServesTyped
<1>3. NetTyped'
  BY <1>1, <1>2 DEF NetTyped, Serves, TypeInv
<1> QED BY <1>1, <1>2, <1>3

LEMMA ReplyTypes ==
  ASSUME Inv, TypeInv, NEW batch \in wire, Reply(batch)
  PROVE  /\ TypeInv' /\ Serves(server', batch) /\ batch \subseteq Operation
         /\ wire' = wire \ {batch} /\ task.pc = "sent" /\ task.batch = batch
         /\ task'.pc = "acks" /\ task'.batch = batch /\ task'.steps = task.steps
         /\ task'.target = task.target /\ task'.limit = task.limit
         /\ task'.results = {ResultOf(server', q) : q \in batch}
         /\ task'.put = task.put /\ task'.remote = task.remote
<1>1. /\ task.pc = "sent" /\ task.batch = batch /\ Receive(batch)
      /\ UNCHANGED <<disk, user, budget, lapses>>
  BY DEF Reply
<1>2. /\ NetTyped' /\ Serves(server', batch) /\ batch \subseteq Operation
      /\ owed' \subseteq owed /\ wire' = wire \ {batch}
  BY <1>1, ReceiveTyped
<1>3. PICK srv : srv = server'
  OBVIOUS
<1>4. PICK results : results = {ResultOf(srv, q) : q \in batch}
  OBVIOUS
<1>5. /\ results \subseteq Result
      /\ \A q \in batch : \E r \in results : r.sequence = q.sequence
  <2>1. srv.results \subseteq Result
    BY <1>2, <1>3 DEF Serves
  <2>2. \A q \in batch : ResultOf(srv, q) \in Result /\ ResultOf(srv, q).sequence = q.sequence
    BY <1>2, <2>1, ResultOfTyped
  <2> QED BY <1>4, <2>2
<1>6. task' = [task EXCEPT !.pc = "acks", !.results = results]
  BY <1>3, <1>4 DEF Reply
<1>7. task.steps = <<>>
  BY <1>1 DEF Inv, TaskFollows
<1>8. /\ task' \in Task /\ task'.pc = "acks" /\ task'.batch = batch /\ task'.results = results
      /\ task'.steps = task.steps /\ task'.target = task.target /\ task'.limit = task.limit
      /\ task'.put = task.put /\ task'.remote = task.remote
  BY <1>1, <1>5, <1>6, TaskIs DEF Task
<1>9. TaskTyped'
  <2>1. Prepared'
    BY <1>7, <1>8, IdlePrepared
  <2> QED BY <1>5, <1>7, <1>8, <2>1 DEF TaskTyped
<1>10. UserTyped' /\ AsideTyped' /\ disk' \in Disk
  BY <1>1, <1>2, UserStays DEF user, AsideTyped, TypeInv
<1>11. TypeInv'
  BY <1>2, <1>9, <1>10 DEF TypeInv
<1> QED BY <1>1, <1>2, <1>3, <1>4, <1>8, <1>11

LEMMA LateArrivalTypes ==
  ASSUME Inv, TypeInv, NEW batch \in wire, LateArrival(batch)
  PROVE  /\ TypeInv' /\ Serves(server', batch) /\ batch \subseteq Operation
         /\ wire' = wire \ {batch}
<1>1. Receive(batch) /\ UNCHANGED <<disk, user, task, budget, lapses>>
  BY DEF LateArrival
<1>2. /\ NetTyped' /\ Serves(server', batch) /\ batch \subseteq Operation
      /\ owed' \subseteq owed /\ wire' = wire \ {batch}
  BY <1>1, ReceiveTyped
<1>3. UserTyped' /\ AsideTyped' /\ disk' \in Disk /\ TaskTyped'
  BY <1>1, <1>2, UserStays, TaskStays DEF user, AsideTyped, TypeInv
<1> QED BY <1>2, <1>3 DEF TypeInv

(* A write of the other device. *)
RemoteWrites(n, text, live) ==
  /\ server'.notes \in [Notes -> Row] /\ server'.results = server.results
  /\ \A m \in Notes : m # n => server'.notes[m] = server.notes[m]
  /\ server'.notes[n].revision = server.notes[n].revision + 1
  /\ server'.notes[n].text = text /\ server'.notes[n].live = live
  /\ server.notes[n].live /\ budget'.fresh = budget.fresh

LEMMA RemoteBudgetTyped ==
  ASSUME TypeInv, budget.remote > 0, budget' = [budget EXCEPT !.remote = @ - 1]
  PROVE  budget' \in Budget /\ budget'.fresh = budget.fresh
<1>1. budget' = [budget EXCEPT !.remote = budget.remote - 1]
  OBVIOUS
<1>2. budget.remote - 1 \in 0 .. MaxRemote
  BY BudgetIs
<1> QED BY <1>1, <1>2, BudgetIs DEF Budget

LEMMA RemoteEditTypes ==
  ASSUME Inv, TypeInv, NEW n \in Notes, RemoteEdit(n)
  PROVE  /\ TypeInv' /\ \E mark \in Edits : RemoteWrites(n, server.notes[n].text \cup {mark}, TRUE)
<1>1. PICK mark : mark = budget.remote - MaxRemote - 1
  OBVIOUS
<1>2. mark \in Edits
  <2>1. budget.remote \in 1 .. MaxRemote /\ MaxTyped \in Nat /\ MaxRemote \in Nat
    BY BudgetIs DEF RemoteEdit
  <2>2. mark \in -MaxRemote .. -1
    BY <1>1, <2>1
  <2> QED BY <2>1, <2>2, SyncAssumption
<1>3. PICK row : row = server.notes[n]
  OBVIOUS
<1>4. row \in Row /\ row.live
  BY <1>3 DEF TypeInv, NetTyped, RemoteEdit
<1>5. PICK text : text = row.text \cup {mark}
  OBVIOUS
<1>6. text \in Text
  BY <1>2, <1>4, <1>5, RowIs DEF Text
<1>7. PICK next : next = [live |-> TRUE, revision |-> row.revision + 1, text |-> text,
                          pinned |-> row.pinned]
  OBVIOUS
<1>8. next \in Row
  BY <1>4, <1>6, <1>7, RowIs DEF Row
<1>9. [[row EXCEPT !.revision = row.revision + 1] EXCEPT !.text = text] = next
  <2>1. PICK live \in BOOLEAN : live = TRUE
    OBVIOUS
  <2>2. PICK pinned \in BOOLEAN : pinned = row.pinned
    BY <1>4, RowIs
  <2>3. PICK old, x, was : old = row.revision /\ x = row.revision + 1 /\ was = row.text
    OBVIOUS
  <2>4. row.live = live
    BY <1>4, <2>1, RowIs
  <2>5. row = [live |-> live, revision |-> old, text |-> was, pinned |-> pinned]
    BY <1>4, <2>2, <2>3, <2>4 DEF Row
  <2>6. next = [live |-> live, revision |-> x, text |-> text, pinned |-> pinned]
    BY <1>7, <2>1, <2>2, <2>3
  <2>7. PICK y : y = [row EXCEPT !.revision = x]
    OBVIOUS
  <2>8. y = [live |-> live, revision |-> x, text |-> was, pinned |-> pinned]
    BY <2>5, <2>7
  <2>9. [y EXCEPT !.text = text] = next
    BY <2>6, <2>8
  <2> QED BY <2>3, <2>7, <2>9
<1>10. server.notes \in [Notes -> Row] /\ DOMAIN server = {"notes", "consumed", "results"}
  BY DEF TypeInv, NetTyped, Inv, Shaped
<1>11. server'.notes = [server.notes EXCEPT ![n] = next] /\ server'.results = server.results
  <2>1. server' = [server EXCEPT !.notes[n].revision = @ + 1, !.notes[n].text = @ \cup {mark}]
    BY <1>1 DEF RemoteEdit
  <2> QED BY <1>3, <1>5, <1>9, <1>10, <2>1
<1>12. server'.notes \in [Notes -> Row]
  BY <1>8, <1>10, <1>11
<1>13. budget' \in Budget /\ budget'.fresh = budget.fresh
  BY RemoteBudgetTyped DEF RemoteEdit
<1>14. RemoteWrites(n, server.notes[n].text \cup {mark}, TRUE)
  BY <1>3, <1>4, <1>5, <1>7, <1>10, <1>11, <1>12, <1>13 DEF RemoteWrites
<1>15. owed' = owed \cup {mark} /\ UNCHANGED <<disk, user, task, wire, lapses>>
  BY <1>1 DEF RemoteEdit
<1>16. AsideTyped' /\ NetTyped' /\ UserTyped' /\ TaskTyped' /\ disk' \in Disk
  BY <1>2, <1>11, <1>12, <1>13, <1>15, UserStays, TaskStays
     DEF AsideTyped, NetTyped, TypeInv, user
<1> QED BY <1>2, <1>14, <1>16 DEF TypeInv

LEMMA RemoteDeleteTypes ==
  ASSUME Inv, TypeInv, NEW n \in Notes, RemoteDelete(n)
  PROVE  TypeInv' /\ RemoteWrites(n, {}, FALSE)
<1>1. PICK row : row = server.notes[n]
  OBVIOUS
<1>2. row \in Row /\ row.live
  BY <1>1 DEF TypeInv, NetTyped, RemoteDelete
<1>3. PICK next : next = [live |-> FALSE, revision |-> row.revision + 1, text |-> {},
                          pinned |-> FALSE]
  OBVIOUS
<1>4. next \in Row
  BY <1>2, <1>3, RowIs DEF Row, Text
<1>5. [NoRow EXCEPT !.revision = @ + row.revision + 1] = next
  <2>1. PICK x : x = row.revision + 1
    OBVIOUS
  <2>2. 0 + row.revision + 1 = x
    BY <1>2, <2>1, RowIs
  <2>3. PICK live \in BOOLEAN : live = FALSE
    OBVIOUS
  <2>4. PICK none : none = {}
    OBVIOUS
  <2>5. NoRow = [live |-> live, revision |-> 0, text |-> none, pinned |-> live]
    BY <2>3, <2>4 DEF NoRow
  <2>6. next = [live |-> live, revision |-> x, text |-> none, pinned |-> live]
    BY <1>3, <2>1, <2>3, <2>4
  <2>7. [NoRow EXCEPT !.revision = x] = next
    BY <2>5, <2>6
  <2>8. NoRow.revision = 0
    BY <2>5
  <2> QED BY <2>2, <2>7, <2>8
<1>6. server.notes \in [Notes -> Row] /\ DOMAIN server = {"notes", "consumed", "results"}
  BY DEF TypeInv, NetTyped, Inv, Shaped
<1>7. server'.notes = [server.notes EXCEPT ![n] = next] /\ server'.results = server.results
  <2>1. server' = [server EXCEPT !.notes[n] = [NoRow EXCEPT !.revision = @ + row.revision + 1]]
    BY <1>1 DEF RemoteDelete
  <2> QED BY <1>5, <1>6, <2>1
<1>8. server'.notes \in [Notes -> Row]
  BY <1>4, <1>6, <1>7
<1>9. budget' \in Budget /\ budget'.fresh = budget.fresh
  BY RemoteBudgetTyped DEF RemoteDelete
<1>10. RemoteWrites(n, {}, FALSE)
  BY <1>1, <1>2, <1>3, <1>6, <1>7, <1>8, <1>9 DEF RemoteWrites
<1>11. owed' \subseteq owed /\ UNCHANGED <<disk, user, task, wire, lapses>>
  BY DEF RemoteDelete
<1>12. AsideTyped' /\ NetTyped' /\ UserTyped' /\ TaskTyped' /\ disk' \in Disk
  BY <1>7, <1>8, <1>9, <1>11, UserStays, TaskStays DEF AsideTyped, NetTyped, TypeInv, user
<1> QED BY <1>10, <1>12 DEF TypeInv

LEMMA ForgetTypes ==
  ASSUME Inv, TypeInv, Forget
  PROVE  /\ TypeInv' /\ server'.notes = server.notes /\ server'.results \subseteq server.results
         /\ budget'.fresh = budget.fresh
<1>1. PICK r \in server.results :
        /\ Fault /\ server' = [server EXCEPT !.results = @ \ {r}]
        /\ UNCHANGED <<disk, user, task, wire, owed>>
  BY DEF Forget
<1>2. server'.notes = server.notes /\ server'.results \subseteq server.results
  BY <1>1 DEF Inv, Shaped
<1>3. budget' \in Budget /\ budget'.fresh = budget.fresh
  BY <1>1, FaultTyped
<1>4. AsideTyped' /\ NetTyped' /\ UserTyped' /\ TaskTyped' /\ disk' \in Disk
  BY <1>1, <1>2, <1>3, UserStays, TaskStays DEF AsideTyped, NetTyped, TypeInv, user
<1> QED BY <1>2, <1>3, <1>4 DEF TypeInv

LEMMA LoseReplyTypes ==
  ASSUME TypeInv, LoseReply \/ FetchFails
  PROVE  TypeInv' /\ budget'.fresh = budget.fresh
<1>1. Fault /\ task' = IdleTask /\ UNCHANGED <<disk, user, wire, server, owed, lapses>>
  BY DEF LoseReply, FetchFails
<1>2. BatchLimit \in Nat
  BY SyncAssumption
<1>3. TaskTyped' /\ budget' \in Budget /\ budget'.fresh = budget.fresh
  BY <1>1, <1>2, IdleTaskTyped, FaultTyped
<1>4. AsideTyped' /\ NetTyped' /\ UserTyped' /\ disk' \in Disk
  BY <1>1, <1>3, UserStays, NetStays DEF AsideTyped, TypeInv, user
<1> QED BY <1>3, <1>4 DEF TypeInv

(* An operation that was refused alone gives way to its slot. *)
Quarantines(d, e, q) ==
  /\ e \in Disk /\ Slot(q) \in Operation
  /\ e.notes = d.notes /\ e.conflicts = d.conflicts
  /\ e.queue = (d.queue \ {q}) \cup {Slot(q)}
  /\ e.rejected = d.rejected \cup {q.note}

LEMMA RefuseTypes ==
  ASSUME Inv, TypeInv, Refuse
  PROVE  /\ TypeInv' /\ budget'.fresh = budget.fresh /\ task.pc = "sent"
         /\ wire' = wire \ {task.batch} /\ Current \in Operation /\ Current \in task.batch
         /\ disk' = disk \/ Quarantines(disk, disk', Current)
<1>1. /\ task.pc = "sent" /\ task.batch \in wire /\ Fault /\ wire' = wire \ {task.batch}
      /\ UNCHANGED <<user, server, owed>>
  BY DEF Refuse
<1>2. task.batch # {} /\ task.batch \subseteq Operation
  BY <1>1, TaskIs DEF Inv, TaskFollows
<1>3. Current \in task.batch /\ Current \in Operation
  BY <1>2, OldestExists, OperationIs DEF Current
<1>4. PICK q \in Operation : q = Current
  BY <1>3
<1>5. disk' = disk \/ Quarantines(disk, disk', q)
  <2>1. PICK e : e = Quarantine(disk, q)
    OBVIOUS
  <2>2. Quarantines(disk, e, q)
    BY <2>1, QuarantineTyped DEF TypeInv, Quarantines
  <2>3. disk' = disk \/ disk' = e
    BY <1>4, <2>1 DEF Refuse
  <2> QED BY <2>2, <2>3
<1>6. \E limit \in Nat : task' = [IdleTask EXCEPT !.limit = limit]
  BY TaskIs DEF Refuse
<1>7. TaskTyped' /\ budget' \in Budget /\ budget'.fresh = budget.fresh
  BY <1>1, <1>6, IdleTaskTyped, FaultTyped
<1>8. AsideTyped' /\ NetTyped' /\ UserTyped' /\ disk' \in Disk
  BY <1>1, <1>5, <1>7, UserStays DEF AsideTyped, NetTyped, TypeInv, user, Quarantines
<1> QED BY <1>1, <1>3, <1>4, <1>5, <1>7, <1>8 DEF TypeInv

LEMMA CrashTypes ==
  ASSUME TypeInv, Crash
  PROVE  TypeInv' /\ budget'.fresh = budget.fresh
<1>1. /\ Fault /\ editor' = Closed /\ saver' = NoSave /\ chore' = NoChore /\ task' = IdleTask
      /\ UNCHANGED <<disk, wire, server, owed>>
  BY DEF Crash
<1>2. BatchLimit \in Nat
  BY SyncAssumption
<1>3. TaskTyped' /\ budget' \in Budget /\ budget'.fresh = budget.fresh
  BY <1>1, <1>2, IdleTaskTyped, FaultTyped
<1>4. UserTyped'
  BY <1>1, ClosedTyped, NoSaveTyped, ChoreIs DEF UserTyped
<1>5. AsideTyped' /\ NetTyped' /\ disk' \in Disk
  BY <1>1, <1>3, NetStays DEF AsideTyped, TypeInv
<1> QED BY <1>3, <1>4, <1>5 DEF TypeInv

LEMMA ApplyPageTypes ==
  ASSUME Inv, TypeInv, NEW n \in Notes, ApplyPage(n)
  PROVE  /\ TypeInv'
         /\ \E v \in Optional(Note) :
              /\ Puts(disk, disk', n, v)
              /\ v = IF Fetched(n) = Absent THEN Absent ELSE Settled(Fetched(n))
              /\ task' = task \/ (/\ task'.target = n /\ task'.steps = <<"open">>
                                  /\ task'.put = v /\ task'.pc = "page" /\ editor.note = n
                                  /\ task'.batch = task.batch)
<1>1. task.pc = "idle" /\ UNCHANGED <<user, wire, server, asides>>
  BY DEF ApplyPage
<1>2. PICK remote \in Optional(Remote) : remote = Fetched(n)
  BY FetchedTyped
<1>3. PICK v \in Optional(Note) : v = IF remote = Absent THEN Absent ELSE Settled(remote)
  BY SettledTyped DEF Optional
<1>4. PICK e : e = PutNote(disk, n, v)
  OBVIOUS
<1>5. Puts(disk, e, n, v)
  BY <1>4, PutTyped DEF TypeInv
<1>6. disk' = e
  BY <1>2, <1>3, <1>4 DEF ApplyPage
<1>7. disk'.notes[n] = v /\ disk' \in Disk
  BY <1>5, <1>6 DEF Puts
<1>8. PICK s : s = <<"open">>
  OBVIOUS
<1>9. s \in PlainPrograms /\ s \in Programs /\ s \in Seq(Steps)
  BY <1>8, ProgramsOfSteps DEF PlainPrograms, Programs
<1>10. task' = task \/ (editor.note = n /\ task' = [task EXCEPT !.pc = "page", !.target = n,
                                                              !.steps = s, !.put = v])
  BY <1>7, <1>8 DEF ApplyPage
<1>11. CASE task' = task
  <2>1. TaskTyped' /\ UserTyped' /\ NetTyped' /\ AsideTyped'
    BY <1>1, <1>11, TaskStays, UserStays, NetStays, AsideStays DEF user, asides
  <2> QED BY <1>2, <1>3, <1>5, <1>6, <1>7, <1>11, <2>1 DEF TypeInv
<1>12. CASE editor.note = n /\ task' = [task EXCEPT !.pc = "page", !.target = n, !.steps = s, !.put = v]
  <2>1. n \in Optional(Notes) /\ n # Absent
    BY StoreAssumption DEF Optional
  <2>2. /\ task' \in Task /\ task'.pc = "page" /\ task'.target = n /\ task'.steps = s
        /\ task'.put = v /\ task'.batch = task.batch
    BY <1>9, <1>12, <2>1, TaskIs DEF Task
  <2>3. Prepared'
    BY <1>9, <2>2, PlainPrepared
  <2>4. TaskTyped'
    BY <1>9, <2>1, <2>2, <2>3 DEF TaskTyped
  <2>5. UserTyped' /\ NetTyped' /\ AsideTyped'
    BY <1>1, UserStays, NetStays, AsideStays DEF user, asides
  <2> QED BY <1>2, <1>3, <1>5, <1>6, <1>7, <1>8, <1>12, <2>2, <2>4, <2>5 DEF TypeInv
<1> QED BY <1>10, <1>11, <1>12

-----------------------------------------------------------------------------
(* A note that nobody has started is known nowhere.                          *)
DiskUnspoken(d, n) ==
  /\ d.notes[n] = Absent /\ d.conflicts[n] = Absent /\ n \notin d.rejected
  /\ \A q \in d.queue : q.note # n

UserUnspoken(n) == editor.note # n /\ saver.note # n /\ chore.note # n

NetUnspoken(n) ==
  /\ \A q \in task.batch : q.note # n
  /\ \A b \in wire : \A q \in b : q.note # n
  /\ task.target # n /\ ~server.notes[n].live

NewNotesUnused ==
  \A n \in budget.fresh : DiskUnspoken(disk, n) /\ UserUnspoken(n) /\ NetUnspoken(n)

LEMMA StoresUnspoken ==
  ASSUME NEW d, NEW e, NEW m, NEW note, NEW r, Stores(d, e, m, note, r), r.note = m,
         NEW n, n # m, DiskUnspoken(d, n)
  PROVE  DiskUnspoken(e, n)
<1>1. PICK old, new : Enqueues(d, e, r, old, new)
  BY DEF Stores
<1>2. \A q \in e.queue : q.note # n
  BY <1>1 DEF Enqueues, DiskUnspoken
<1> QED BY <1>2 DEF Stores, DiskUnspoken

(* A step that stores note m speaks of no other.                             *)
LEMMA StoringSpeaks ==
  ASSUME NEW m, NEW note, NEW r, r.note = m, Stores(disk, disk', m, note, r)
  PROVE  \A n : n # m /\ DiskUnspoken(disk, n) => DiskUnspoken(disk', n)
<1>1. PICK d, e : d = disk /\ e = disk'
  OBVIOUS
<1>2. Stores(d, e, m, note, r)
  BY <1>1
<1>3. \A n : n # m /\ DiskUnspoken(d, n) => DiskUnspoken(e, n)
  BY <1>2, StoresUnspoken
<1> QED BY <1>1, <1>3

LEMMA QueueingUnspoken ==
  ASSUME NEW d, NEW e, NEW r, Queueing(d, e, r), NEW n, n # r.note, DiskUnspoken(d, n)
  PROVE  DiskUnspoken(e, n)
<1>1. PICK old, new : Enqueues(d, e, r, old, new)
  BY DEF Queueing
<1>2. \A q \in e.queue : q.note # n
  BY <1>1 DEF Enqueues, DiskUnspoken
<1> QED BY <1>2 DEF Queueing, DiskUnspoken

LEMMA PutsUnspoken ==
  ASSUME NEW d, NEW e, NEW m, NEW note, Puts(d, e, m, note) \/ Files(d, e, m, note),
         NEW n, n # m, DiskUnspoken(d, n)
  PROVE  DiskUnspoken(e, n)
BY DEF Puts, Files, DiskUnspoken

LEMMA SupersedeKeepsNotes ==
  ASSUME NEW d \in Disk, NEW m, NEW after, NEW q \in SupersededQueue(d, m, after)
  PROVE  \E p \in d.queue : q.note = p.note /\ q.sequence = p.sequence /\ (q = p \/ q = Noop(p))
<1>1. PICK p \in d.queue : q = IF p.note = m /\ p.sequence > after /\ ~p.attempted
                               THEN Noop(p) ELSE p
  BY DEF SupersededQueue
<1>2. p \in Operation
  BY DiskIs
<1>3. Noop(p).note = p.note /\ Noop(p).sequence = p.sequence
  BY <1>2, NoopTyped
<1> QED BY <1>1, <1>3

LEMMA MoveKeepsNotes ==
  ASSUME NEW d \in Disk, NEW o, NEW revision \in Nat, NEW text \in Text,
         NEW q \in MovedQueue(d, o, revision, text)
  PROVE  \E p \in d.queue :
           /\ q = IF p \in Rebasable(d, o) THEN Moved(p, revision, text) ELSE p
           /\ q.note = p.note /\ q.sequence = p.sequence /\ q.type = p.type
           /\ q.attempted = p.attempted /\ q.text = p.text
<1>1. PICK p \in d.queue : q = IF p \in Rebasable(d, o) THEN Moved(p, revision, text) ELSE p
  BY DEF MovedQueue
<1>2. p \in Operation
  BY DiskIs
<1>3. PICK w : w = Moved(p, revision, text)
  OBVIOUS
<1>4. w.note = p.note /\ w.sequence = p.sequence /\ w.type = p.type /\ w.attempted = p.attempted
      /\ w.text = p.text
  BY <1>2, <1>3, MovedTyped
<1> QED BY <1>1, <1>3, <1>4

LEMMA MovedSpeaks ==
  ASSUME TypeInv, NEW o, NEW revision, revision \in Nat, NEW text, text \in Text
  PROVE  \A q \in MovedQueue(disk, o, revision, text) : \E p \in disk.queue : q.note = p.note
<1>1. PICK d \in Disk : d = disk
  BY DEF TypeInv
<1>2. PICK r \in Nat, t \in Text : r = revision /\ t = text
  OBVIOUS
<1>3. ASSUME NEW q \in MovedQueue(d, o, r, t) PROVE \E p \in d.queue : q.note = p.note
  <2>1. \E p \in d.queue : /\ q = IF p \in Rebasable(d, o) THEN Moved(p, r, t) ELSE p
                          /\ q.note = p.note /\ q.sequence = p.sequence /\ q.type = p.type
                          /\ q.attempted = p.attempted /\ q.text = p.text
    BY MoveKeepsNotes
  <2> QED BY <2>1
<1> QED BY <1>1, <1>2, <1>3

LEMMA QueueUnspoken ==
  ASSUME NEW d, NEW e, QueueOnly(d, e), NEW n, DiskUnspoken(d, n),
         \A q \in e.queue : \E p \in d.queue : q.note = p.note
  PROVE  DiskUnspoken(e, n)
BY DEF QueueOnly, DiskUnspoken

LEMMA NetUnspokenStays ==
  ASSUME NEW n, NetUnspoken(n), UNCHANGED network
  PROVE  NetUnspoken(n)'
BY DEF NetUnspoken, network

LEMMA UserUnspokenStays ==
  ASSUME NEW n, UserUnspoken(n), UNCHANGED user
  PROVE  UserUnspoken(n)'
BY DEF UserUnspoken, user

(* A step of the user: which notes it speaks of. *)
LEMMA UserSpeaks ==
  ASSUME TypeInv, NewNotesUnused, UNCHANGED network, budget'.fresh \subseteq budget.fresh,
         \A n \in budget'.fresh : DiskUnspoken(disk, n) => DiskUnspoken(disk', n),
         \A n \in budget'.fresh : UserUnspoken(n) => UserUnspoken(n)'
  PROVE  NewNotesUnused'
<1>1. ASSUME NEW n \in budget'.fresh
      PROVE  DiskUnspoken(disk', n) /\ UserUnspoken(n)' /\ NetUnspoken(n)'
  BY NetUnspokenStays DEF NewNotesUnused
<1> QED BY <1>1 DEF NewNotesUnused

LEMMA FreshIsNote ==
  ASSUME TypeInv, NEW n \in budget.fresh
  PROVE  n \in Notes /\ n # Absent
BY BudgetIs, StoreAssumption

LEMMA SessionUnused ==
  ASSUME TypeInv, NewNotesUnused, Inv,
         \/ \E n \in Notes : Open(n) \/ StartNewNote(n) \/ BeginPin(n)
         \/ Close \/ Type \/ BeginSave \/ BeginDelete
  PROVE  NewNotesUnused'
<1>1. disk' = disk /\ UNCHANGED network
  BY DEF Open, StartNewNote, BeginPin, Close, Type, BeginSave, BeginDelete
<1>2. \A n \in budget'.fresh : DiskUnspoken(disk, n) => DiskUnspoken(disk', n)
  BY <1>1
<1>3. CASE \E m \in Notes : Open(m)
  <2>1. PICK m \in Notes : Open(m)
    BY <1>3
  <2>2. budget' = budget /\ editor'.note = m /\ saver'.note = saver.note /\ chore' = chore
    <3>1. disk.notes[m] \in Note
      BY <2>1, CachedTyped DEF Open
    <3> QED BY <2>1, <3>1, ShowingTyped, SessionTyped DEF Open, asides
  <2>3. m \notin budget.fresh
    BY <2>1 DEF Open, NewNotesUnused, DiskUnspoken
  <2> QED BY <1>1, <1>2, <2>2, <2>3, UserSpeaks DEF UserUnspoken
<1>4. CASE \E m \in Notes : StartNewNote(m)
  <2>1. PICK m \in Notes : StartNewNote(m)
    BY <1>4
  <2>2. budget'.fresh = budget.fresh \ {m} /\ editor'.note = m
    BY <2>1, BudgetIs DEF StartNewNote, Budget, Closed
  <2>3. saver'.note = saver.note /\ chore' = chore
    BY <2>1, SessionTyped DEF StartNewNote
  <2> QED BY <1>1, <1>2, <2>2, <2>3, UserSpeaks DEF UserUnspoken
<1>5. CASE \E m \in Notes : BeginPin(m)
  <2>1. PICK m \in Notes : BeginPin(m)
    BY <1>5
  <2>2. budget'.fresh = budget.fresh /\ editor' = editor /\ saver' = saver /\ chore'.note = m
    BY <2>1, ActTyped DEF BeginPin
  <2>3. m \notin budget.fresh
    BY <2>1 DEF BeginPin, NewNotesUnused, DiskUnspoken
  <2> QED BY <1>1, <1>2, <2>2, <2>3, UserSpeaks DEF UserUnspoken
<1>6. CASE Close
  <2>1. budget' = budget /\ editor'.note = Absent /\ saver'.note = saver.note /\ chore' = chore
    BY <1>6, ClosedTyped, SessionTyped DEF Close, asides
  <2> QED BY <1>1, <1>2, <2>1, UserSpeaks, FreshIsNote DEF UserUnspoken
<1>7. CASE Type
  <2>1. /\ budget'.fresh = budget.fresh /\ editor'.note = editor.note /\ saver' = saver
        /\ chore' = chore
    BY <1>7, BudgetIs DEF Type, Budget, TypeInv, UserTyped, Editor
  <2> QED BY <1>1, <1>2, <2>1, UserSpeaks DEF UserUnspoken
<1>8. CASE BeginSave
  <2>1. budget' = budget /\ editor' = editor /\ saver'.note = editor.note /\ chore' = chore
    BY <1>8, SaveStartsTyped DEF BeginSave, asides
  <2> QED BY <1>1, <1>2, <2>1, UserSpeaks DEF UserUnspoken
<1>9. CASE BeginDelete
  <2>1. /\ budget'.fresh = budget.fresh /\ editor' = editor /\ saver' = saver
        /\ chore'.note = editor.note
    BY <1>9, ActTyped DEF BeginDelete
  <2> QED BY <1>1, <1>2, <2>1, UserSpeaks DEF UserUnspoken
<1> QED BY <1>3, <1>4, <1>5, <1>6, <1>7, <1>8, <1>9

LEMMA SavingUnused ==
  ASSUME TypeInv, NewNotesUnused, Inv, PersistNote \/ PersistConflict \/ DeleteNote \/ PinNote
  PROVE  NewNotesUnused'
<1>1. UNCHANGED network /\ budget' = budget
  BY DEF PersistNote, PersistConflict, DeleteNote, PinNote
<1>2. CASE PersistNote
  <2>1. PICK saved \in Note :
          /\ Stores(disk, disk', saver.note, saved, Save(saver.note, saved.base, saved))
          /\ FinishPersist(saved.base)
    BY <1>2, PersistNoteStores
  <2>2. Save(saver.note, saved.base, saved).note = saver.note
    BY DEF Save
  <2>3. editor'.note = editor.note
    BY <2>1, NoteIs, FinishTyped
  <2>4. saver'.note = Absent /\ chore' = chore
    BY <1>2, NoSaveTyped DEF PersistNote
  <2>5. \A n \in budget.fresh : DiskUnspoken(disk, n) => DiskUnspoken(disk', n)
    <3>1. PICK m, r : m = saver.note /\ r = Save(saver.note, saved.base, saved)
      OBVIOUS
    <3>2. Stores(disk, disk', m, saved, r) /\ r.note = m
      BY <2>1, <2>2, <3>1
    <3>3. \A n \in budget.fresh : n # m
      BY <3>1 DEF NewNotesUnused, UserUnspoken
    <3> QED BY <3>2, <3>3, StoringSpeaks
  <2> QED BY <1>1, <2>3, <2>4, <2>5, UserSpeaks, FreshIsNote DEF UserUnspoken
<1>3. CASE PersistConflict
  <2>1. /\ disk'.queue = disk.queue /\ disk'.rejected = disk.rejected
        /\ \A m : m # saver.note => /\ disk'.notes[m] = disk.notes[m]
                                    /\ disk'.conflicts[m] = disk.conflicts[m]
    BY <1>3, PersistConflictStores
  <2>2. editor'.note = editor.note
    BY <1>3, FinishTyped DEF PersistConflict, Optional
  <2>3. saver'.note = Absent /\ chore' = chore
    BY <1>3, NoSaveTyped DEF PersistConflict
  <2>4. \A n \in budget.fresh : DiskUnspoken(disk, n) => DiskUnspoken(disk', n)
    BY <2>1 DEF NewNotesUnused, UserUnspoken, DiskUnspoken
  <2> QED BY <1>1, <2>2, <2>3, <2>4, UserSpeaks, FreshIsNote DEF UserUnspoken
<1>4. CASE DeleteNote
  <2>1. /\ Removes(disk, disk', chore.note)
        /\ chore.unsent => disk'.queue = SupersededQueue(disk, chore.note, 0)
        /\ ~chore.unsent =>
             \E base \in Nat : Stores(disk, disk', chore.note, Absent, DeleteRequest(chore.note, base))
    BY <1>4, DeleteNoteRemoves
  <2>2. editor'.note = Absent /\ saver'.note = saver.note /\ chore'.note = Absent
    BY <1>4, ClosedTyped, SessionTyped, ChoreIs DEF DeleteNote
  <2>3. ASSUME NEW n \in budget.fresh, DiskUnspoken(disk, n) PROVE DiskUnspoken(disk', n)
    <3>1. n # chore.note
      BY DEF NewNotesUnused, UserUnspoken
    <3>2. CASE chore.unsent
      <4>1. \A q \in disk'.queue : \E p \in disk.queue : q.note = p.note
        BY <2>1, <3>2, SupersedeKeepsNotes DEF TypeInv
      <4> QED BY <2>1, <2>3, <3>1, <4>1 DEF Removes, DiskUnspoken
    <3>3. CASE ~chore.unsent
      <4>1. PICK base \in Nat :
              Stores(disk, disk', chore.note, Absent, DeleteRequest(chore.note, base))
        BY <2>1, <3>3
      <4>2. DeleteRequest(chore.note, base).note = chore.note
        BY DEF DeleteRequest
      <4>3. PICK m, r : m = chore.note /\ r = DeleteRequest(chore.note, base)
        OBVIOUS
      <4>4. Stores(disk, disk', m, Absent, r) /\ r.note = m
        BY <4>1, <4>2, <4>3
      <4> QED BY <2>3, <3>1, <4>3, <4>4, StoringSpeaks
    <3> QED BY <3>2, <3>3
  <2> QED BY <1>1, <2>2, <2>3, UserSpeaks, FreshIsNote DEF UserUnspoken
<1>5. CASE PinNote
  <2>1. PICK v \in Note, base \in Nat :
          Stores(disk, disk', chore.note, v, PinRequest(chore.note, base, ~chore.local.pinned))
    BY <1>5, PinNoteStores
  <2>2. PinRequest(chore.note, base, ~chore.local.pinned).note = chore.note
    BY DEF PinRequest
  <2>3. editor' = editor /\ saver' = saver /\ chore'.note = Absent
    BY <1>5, ChoreIs DEF PinNote
  <2>4. \A n \in budget.fresh : DiskUnspoken(disk, n) => DiskUnspoken(disk', n)
    <3>1. PICK m, r : m = chore.note /\ r = PinRequest(chore.note, base, ~chore.local.pinned)
      OBVIOUS
    <3>2. Stores(disk, disk', m, v, r) /\ r.note = m
      BY <2>1, <2>2, <3>1
    <3>3. \A n \in budget.fresh : n # m
      BY <3>1 DEF NewNotesUnused, UserUnspoken
    <3> QED BY <3>2, <3>3, StoringSpeaks
  <2> QED BY <1>1, <2>3, <2>4, UserSpeaks, FreshIsNote DEF UserUnspoken
<1> QED BY <1>2, <1>3, <1>4, <1>5

LEMMA ResolvingUnused ==
  ASSUME TypeInv, NewNotesUnused, Inv, NEW n \in Notes,
         SaveResolution(n) \/ AcceptDeletion(n)
  PROVE  NewNotesUnused'
<1>1. /\ UNCHANGED network /\ budget'.fresh = budget.fresh /\ saver'.note = saver.note
      /\ chore' = chore
  <2>1. Act /\ \E after, n2, text : Resolves(n, after, n2, text)
    BY DEF SaveResolution, AcceptDeletion
  <2>2. UNCHANGED <<chore, network>> /\ NewSession
    BY <2>1 DEF Resolves
  <2> QED BY <2>1, <2>2, ActTyped, SessionTyped
<1>2. disk.conflicts[n] # Absent
  BY DEF SaveResolution, AcceptDeletion, IsDeletion
<1>3. n \notin budget.fresh
  BY <1>2 DEF NewNotesUnused, DiskUnspoken
<1>4. CASE SaveResolution(n)
  <2>1. PICK v \in Note, after \in Disk, text \in Text :
          /\ Stores(disk, after, n, v, Save(n, v.base, v))
          /\ Resolves(n, after, n, text) /\ Act
    BY <1>4, SaveResolutionStores
  <2>2. /\ Files(after, disk', n, Absent)
        /\ \/ editor'.note = n
           \/ editor' = [editor EXCEPT !.note = n, !.dirty = FALSE]
    <3>1. n \in Optional(Notes) /\ after.notes[n] \in Note /\ budget' \in Budget /\ n # Absent
      BY <2>1, ActTyped, StoreAssumption DEF Stores, Optional
    <3> QED BY Zenon, <1>2, <2>1, <3>1, ResolvesTypes
  <2>3. editor'.note = n
    BY <2>2 DEF TypeInv, UserTyped, Editor
  <2>4. Save(n, v.base, v).note = n
    BY DEF Save
  <2>5. \A m \in budget.fresh : DiskUnspoken(disk, m) => DiskUnspoken(disk', m)
    <3>1. PICK d, e, r : d = disk /\ e = disk' /\ r = Save(n, v.base, v)
      OBVIOUS
    <3>2. Stores(d, after, n, v, r) /\ r.note = n /\ Files(after, e, n, Absent)
      BY <2>1, <2>2, <2>4, <3>1
    <3>3. \A m : m # n /\ DiskUnspoken(d, m) => DiskUnspoken(after, m)
      BY <3>2, StoresUnspoken
    <3>4. \A m : m # n /\ DiskUnspoken(after, m) => DiskUnspoken(e, m)
      BY <3>2, PutsUnspoken
    <3> QED BY <1>3, <3>1, <3>3, <3>4
  <2> QED BY <1>1, <1>3, <2>3, <2>5, UserSpeaks DEF UserUnspoken
<1>5. CASE AcceptDeletion(n)
  <2>1. PICK after : /\ Puts(disk, after, n, Absent) /\ Files(after, disk', n, Absent)
                     /\ Resolves(n, after, Absent, {})
    BY <1>5, AcceptDeletionTypes
  <2>2. \A m \in budget.fresh : DiskUnspoken(disk, m) => DiskUnspoken(disk', m)
    BY <1>3, <2>1, PutsUnspoken
  <2>3. editor' = Closed \/ editor' = editor
    BY <2>1 DEF Resolves
  <2> QED BY <1>1, <2>2, <2>3, UserSpeaks, ClosedTyped, FreshIsNote DEF UserUnspoken
<1> QED BY <1>4, <1>5

LEMMA CopyUnused ==
  ASSUME TypeInv, NewNotesUnused, Inv, NEW n \in Notes, NEW c \in Notes, KeepCopy(n, c)
  PROVE  TypeInv' /\ NewNotesUnused'
<1>1. c \in budget.fresh /\ disk.conflicts[c] = Absent
  BY DEF KeepCopy, NewNotesUnused, DiskUnspoken
<1>2. /\ TypeInv' /\ n # c /\ disk.conflicts[n] # Absent /\ editor'.note = c
      /\ \E copy \in Note, queued \in Disk, after \in Disk :
           /\ Stores(disk, queued, c, copy, Save(c, 0, copy))
           /\ after = queued \/ Puts(queued, after, n, Absent)
           /\ Files(after, disk', n, Absent)
  BY <1>1, KeepCopyStores
<1>3. PICK copy \in Note, queued \in Disk, after \in Disk :
           /\ Stores(disk, queued, c, copy, Save(c, 0, copy))
           /\ after = queued \/ Puts(queued, after, n, Absent)
           /\ Files(after, disk', n, Absent)
  BY <1>2
<1>4. budget'.fresh = budget.fresh \ {c}
  BY BudgetIs DEF KeepCopy, Budget
<1>5. UNCHANGED <<chore, network>> /\ NewSession
  BY Zenon DEF KeepCopy, Resolves
<1>6. saver'.note = saver.note
  BY <1>5, SessionTyped
<1>7. n \notin budget.fresh
  BY <1>2 DEF NewNotesUnused, DiskUnspoken
<1>8. Save(c, 0, copy).note = c
  BY DEF Save
<1>9. ASSUME NEW m \in budget'.fresh, DiskUnspoken(disk, m) PROVE DiskUnspoken(disk', m)
  <2>1. m # n /\ m # c
    BY <1>4, <1>7
  <2>2. DiskUnspoken(queued, m)
    BY <1>3, <1>8, <1>9, <2>1, StoresUnspoken
  <2>3. DiskUnspoken(after, m)
    BY <1>3, <2>1, <2>2, PutsUnspoken
  <2> QED BY <1>3, <2>1, <2>3, PutsUnspoken
<1>10. \A m \in budget'.fresh : UserUnspoken(m) => UserUnspoken(m)'
  BY <1>2, <1>4, <1>5, <1>6 DEF UserUnspoken
<1>11. NewNotesUnused'
  BY <1>4, <1>5, <1>9, <1>10, UserSpeaks
<1> QED BY <1>2, <1>11

LEMMA UserKeepsTypes ==
  ASSUME TypeInv, NewNotesUnused, Inv, User
  PROVE  TypeInv' /\ NewNotesUnused'
<1>1. ASSUME NEW n \in Notes, Open(n) \/ StartNewNote(n) \/ BeginPin(n)
      PROVE  TypeInv' /\ NewNotesUnused'
  BY <1>1, SessionUnused, OpenTypes, StartTypes, BeginPinTypes
<1>2. CASE Close \/ Type \/ BeginSave \/ BeginDelete
  BY <1>2, SessionUnused, CloseTypes, TypeTypes, BeginSaveTypes, BeginDeleteTypes
<1>3. CASE PersistNote \/ PersistConflict \/ DeleteNote \/ PinNote
  BY <1>3, SavingUnused, PersistNoteTypes, PersistConflictTypes, DeleteNoteTypes, PinNoteTypes
<1>4. ASSUME NEW n \in Notes, SaveResolution(n) \/ AcceptDeletion(n)
      PROVE  TypeInv' /\ NewNotesUnused'
  BY <1>4, ResolvingUnused, SaveResolutionTypes, AcceptDeletionTypes
<1>5. ASSUME NEW n \in Notes, NEW c \in Notes, KeepCopy(n, c)
      PROVE  TypeInv' /\ NewNotesUnused'
  BY <1>5, CopyUnused
<1> QED BY <1>1, <1>2, <1>3, <1>4, <1>5 DEF User

(* The end of an acknowledgement, and the next step of one. *)
Acknowledges ==
  /\ task'.target = Absent /\ task'.steps = <<>> /\ task'.batch = task.batch \ {Current}
  /\ task'.batch = {} => task'.pc = "idle" /\ task'.results = {}
  /\ task'.batch # {} => task'.pc = "acks" /\ task'.results = task.results
  /\ task'.remote = Absent /\ task'.put = Absent /\ task'.conflict = Absent

LEMMA NextIs ==
  ASSUME task' = NextAcknowledgement
  PROVE  Acknowledges
<1>1. PICK rest : rest = {q \in task.batch : q # Current}
  BY Zenon
<1>2. task' = IF rest = {} THEN [IdleTask EXCEPT !.limit = task.limit]
              ELSE [IdleTask EXCEPT !.limit = task.limit, !.pc = "acks", !.batch = rest,
                                    !.results = task.results]
  BY <1>1 DEF NextAcknowledgement
<1>3. rest = task.batch \ {Current}
  BY <1>1
<1>4. CASE rest = {}
  BY <1>2, <1>3, <1>4 DEF Acknowledges, IdleTask
<1>5. CASE rest # {}
  BY <1>2, <1>3, <1>5 DEF Acknowledges, IdleTask
<1> QED BY <1>4, <1>5

Proceeds ==
  /\ task.steps # <<>> /\ Len(task.steps) > 1
  /\ task'.steps = Tail(task.steps) /\ task'.target = task.target /\ task'.batch = task.batch
  /\ task'.pc = task.pc /\ task'.results = task.results /\ task'.remote = task.remote
  /\ task'.put = task.put /\ task'.conflict = task.conflict /\ task'.pinned = task.pinned
  /\ task'.laterSave = task.laterSave

LEMMA AdvanceIs ==
  ASSUME TypeInv, Inv, Step # "none", Advance
  PROVE  Proceeds \/ (Acknowledges /\ Len(task.steps) = 1)
<1>1. task.steps # <<>> /\ task.steps \in Seq(Steps)
  BY ProgramRuns DEF TypeInv, TaskTyped, Task
<1>2. CASE Len(task.steps) > 1
  <2>1. task' = [task EXCEPT !.steps = Tail(task.steps)]
    BY <1>2 DEF Advance, Then
  <2> QED BY <1>1, <1>2, <2>1, TaskIs DEF Task, Proceeds
<1>3. CASE ~(Len(task.steps) > 1)
  <2>1. Len(task.steps) = 1
    <3>1. PICK k : k = Len(task.steps)
      OBVIOUS
    <3>2. k \in Nat \ {0}
      BY <1>1, <3>1, EmptySeq
    <3>3. ~(k > 1)
      BY <1>3, <3>1
    <3>4. k = 1
      BY <3>2, <3>3
    <3> QED BY <3>1, <3>4
  <2> QED BY <1>3, <2>1, NextIs DEF Advance
<1> QED BY <1>2, <1>3

LEMMA IdleIs ==
  ASSUME NEW limit, task' = IdleTask \/ task' = [IdleTask EXCEPT !.limit = limit]
  PROVE  /\ task'.pc = "idle" /\ task'.target = Absent /\ task'.steps = <<>> /\ task'.batch = {}
         /\ task'.results = {} /\ task'.remote = Absent /\ task'.put = Absent
         /\ task'.conflict = Absent
BY DEF IdleTask

LEMMA PushSpeaks ==
  ASSUME TypeInv, NewNotesUnused, budget'.fresh = budget.fresh, wire' = wire, chore' = chore,
         saver'.note \in {saver.note, editor.note, Absent},
         editor'.note \in {editor.note, task.target, Absent},
         task'.target \in {task.target, Absent}, task'.batch \subseteq task.batch,
         server'.notes = server.notes,
         \A n \in budget.fresh : DiskUnspoken(disk, n) /\ NetUnspoken(n) => DiskUnspoken(disk', n)
  PROVE  NewNotesUnused'
<1>1. ASSUME NEW n \in budget.fresh
      PROVE  DiskUnspoken(disk', n) /\ UserUnspoken(n)' /\ NetUnspoken(n)'
  <2>1. DiskUnspoken(disk, n) /\ UserUnspoken(n) /\ NetUnspoken(n) /\ n # Absent
    BY FreshIsNote DEF NewNotesUnused
  <2>2. UserUnspoken(n)'
    BY <2>1 DEF UserUnspoken, NetUnspoken
  <2>3. NetUnspoken(n)'
    BY <2>1 DEF NetUnspoken
  <2> QED BY <2>1, <2>2, <2>3
<1> QED BY <1>1 DEF NewNotesUnused

LEMMA CurrentSpoken ==
  ASSUME Inv, TypeInv, NewNotesUnused, task.pc = "acks", NEW n \in budget.fresh
  PROVE  Current.note # n
BY CurrentTyped DEF NewNotesUnused, NetUnspoken

LEMMA FetchingUnused ==
  ASSUME TypeInv, NewNotesUnused, Inv,
         BeginFetch \/ Fetch \/ Flush \/ Flushed \/ Merge \/ Prepare \/ ConflictedPin \/ ReadPinned
  PROVE  NewNotesUnused'
<1>1. disk' = disk /\ editor' = editor /\ chore' = chore /\ wire' = wire /\ server' = server
      /\ budget' = budget
  BY DEF BeginFetch, Fetch, Flush, Flushed, Merge, Prepare, ConflictedPin, ReadPinned, user, asides
<1>2. saver'.note \in {saver.note, editor.note}
  <2>1. CASE SaveStarts
    BY <2>1, SaveStartsTyped
  <2>2. CASE saver' = saver
    BY <2>2
  <2> QED BY <2>1, <2>2 DEF BeginFetch, Fetch, Flush, Flushed, Merge, Prepare, ConflictedPin,
                            ReadPinned, user
<1>3. CASE BeginFetch
  <2>1. task' = [task EXCEPT !.target = Current.note, !.steps = <<"fetch">>] /\ task.pc = "acks"
    BY <1>3 DEF BeginFetch, Begin, Acknowledging
  <2>2. task'.target = Current.note /\ task'.batch = task.batch
    BY <2>1, TaskIs DEF Task
  <2>3. ASSUME NEW n \in budget.fresh
        PROVE  DiskUnspoken(disk', n) /\ UserUnspoken(n)' /\ NetUnspoken(n)'
    <3>1. DiskUnspoken(disk, n) /\ UserUnspoken(n) /\ NetUnspoken(n)
      BY DEF NewNotesUnused
    <3>2. Current.note # n
      BY <2>1, CurrentSpoken
    <3> QED BY <1>1, <1>2, <2>2, <3>1, <3>2 DEF UserUnspoken, NetUnspoken
  <2> QED BY <1>1, <2>3 DEF NewNotesUnused
<1>4. CASE ~BeginFetch
  <2>1. task'.target \in {task.target, Absent} /\ task'.batch \subseteq task.batch
    <3>1. CASE Flushed
      BY <3>1, AdvanceIs DEF Flushed, Proceeds, Acknowledges
    <3>2. CASE Fetch
      BY <3>2, TaskIs DEF Fetch, Task
    <3>3. CASE Flush
      BY <3>3, TaskIs DEF Flush, Then, Task
    <3>4. CASE Merge
      BY <3>4, TaskIs DEF Merge, Then, Task
    <3>5. CASE Prepare
      BY <3>5, TaskIs DEF Prepare, Task
    <3>6. CASE ConflictedPin
      BY <3>6, TaskIs DEF ConflictedPin, Task
    <3>7. CASE ReadPinned
      BY <3>7, TaskIs DEF ReadPinned, Task
    <3> QED BY <1>4, <3>1, <3>2, <3>3, <3>4, <3>5, <3>6, <3>7
  <2> QED BY <1>1, <1>2, <2>1, PushSpeaks
<1> QED BY <1>3, <1>4

LEMMA StoringUnused ==
  ASSUME TypeInv, NewNotesUnused, Inv, RecordDeletion \/ SetConflict \/ Transact \/ Reconcile
  PROVE  NewNotesUnused'
<1>1. chore' = chore /\ wire' = wire /\ server' = server /\ budget' = budget
  BY DEF RecordDeletion, SetConflict, Transact, Reconcile, user, asides
<1>2. task'.target \in {task.target, Absent} /\ task'.batch \subseteq task.batch
  <2>1. CASE task' = IdleTask
    BY <2>1, IdleIs
  <2>2. CASE Step # "none" /\ Advance
    BY <2>2, AdvanceIs DEF Proceeds, Acknowledges
  <2> QED BY <2>1, <2>2 DEF RecordDeletion, SetConflict, Transact, Reconcile
<1>3. saver'.note = saver.note
  BY SessionTyped DEF RecordDeletion, SetConflict, Transact, Reconcile, user
<1>4. editor'.note \in {editor.note, Absent}
  <2>1. CASE Reconcile
    <3>1. CASE UNCHANGED editor \/ editor' = Closed
      BY <3>1, ClosedTyped
    <3>2. CASE task.remote # Absent /\ editor' = UpdateOpenNote(editor, Target, Settled(task.remote))
      <4>1. PICK v \in Note : v = Settled(task.remote)
        BY <3>2, TaskIs, SettledTyped
      <4>2. Target \in Notes
        BY <2>1, StepIs DEF Reconcile
      <4>3. editor' = UpdateOpenNote(editor, Target, v)
        BY <3>2, <4>1
      <4> QED BY <4>2, <4>3, FollowsTyped
    <3> QED BY <2>1, <3>1, <3>2 DEF Reconcile
  <2>2. CASE ~Reconcile
    BY <2>2 DEF RecordDeletion, SetConflict, Transact, user
  <2> QED BY <2>1, <2>2
<1>5. ASSUME NEW n \in budget.fresh, DiskUnspoken(disk, n), NetUnspoken(n)
      PROVE  DiskUnspoken(disk', n)
  <2>1. task.target # n
    BY <1>5 DEF NetUnspoken
  <2>2. CASE RecordDeletion
    <3>1. task.put \in Note /\ task.pc = "acks" /\ Current \in Operation
      BY <2>2, RecordDeletionTypes
    <3>2. CASE IdentityMatches(disk, Current)
      <4>1. Deleting(disk, disk', Current, task.put, BaseText(task.put)) /\ Current.note # n
        BY <2>2, <3>1, <3>2, RecordDeletionTypes, CurrentSpoken
      <4>2. \A q \in disk'.queue : \E p \in disk.queue : q.note = p.note
        BY <4>1, SupersedeKeepsNotes DEF Deleting, TypeInv
      <4> QED BY <1>5, <4>1, <4>2 DEF Deleting, DiskUnspoken
    <3>3. CASE ~IdentityMatches(disk, Current)
      BY <1>5, <2>2, <3>3 DEF RecordDeletion
    <3> QED BY <3>2, <3>3
  <2>3. CASE SetConflict
    BY <1>5, <2>1, <2>3, SetConflictTypes, PutsUnspoken
  <2>4. CASE Transact
    <3>1. TransactsAs /\ disk' \in Disk /\ disk \in Disk
      BY <2>4, TransactStores DEF TypeInv
    <3>2. CASE Step = "put"
      BY <1>5, <2>1, <3>1, <3>2, PutsUnspoken DEF TransactsAs
    <3>3. CASE Step = "supersede"
      <4>1. \A q \in disk'.queue : \E p \in disk.queue : q.note = p.note
        BY <3>1, <3>3, SupersedeKeepsNotes DEF TransactsAs
      <4> QED BY <1>5, <3>1, <3>3, <4>1, QueueUnspoken DEF TransactsAs
    <3>4. CASE Step = "remove"
      <4>1. \A q \in disk'.queue : \E p \in disk.queue : q.note = p.note
        BY <3>1, <3>4 DEF TransactsAs
      <4> QED BY <1>5, <3>1, <3>4, <4>1, QueueUnspoken DEF TransactsAs
    <3>5. CASE Step = "rebase"
      <4>1. task.remote.revision \in Nat /\ task.remote.text \in Text
        BY <3>1, <3>5, RemoteIs DEF TransactsAs
      <4>2. \A q \in disk'.queue : \E p \in disk.queue : q.note = p.note
        <5>1. disk'.queue = MovedQueue(disk, Current, task.remote.revision, task.remote.text)
          BY <3>1, <3>5 DEF TransactsAs
        <5>2. PICK o, r, t : /\ o = Current /\ r = task.remote.revision /\ t = task.remote.text
          OBVIOUS
        <5>3. \A q \in MovedQueue(disk, o, r, t) : \E p \in disk.queue : q.note = p.note
          BY <4>1, <5>2, MovedSpeaks
        <5> QED BY <5>1, <5>2, <5>3
      <4> QED BY <1>5, <3>1, <3>5, <4>2, QueueUnspoken DEF TransactsAs
    <3>6. CASE Step = "queue"
      <4>1. Save(task.target, task.remote.revision, task.put).note = task.target
        BY DEF Save
      <4> QED BY <1>5, <2>1, <3>1, <3>6, <4>1, QueueingUnspoken DEF TransactsAs
    <3>7. CASE Step = "queuePin"
      <4>1. PinRequest(task.target, task.remote.revision, task.pinned).note = task.target
        BY DEF PinRequest
      <4> QED BY <1>5, <2>1, <3>1, <3>7, <4>1, QueueingUnspoken DEF TransactsAs
    <3> QED BY <2>4, <3>2, <3>3, <3>4, <3>5, <3>6, <3>7 DEF Transact
  <2>5. CASE Reconcile
    <3>1. task.pc = "acks" /\ Current \in Operation
      BY <2>5, ReconcileTypes
    <3>2. CASE IdentityMatches(disk, Current)
      <4>1. Reconciling(disk, disk', Current, task.remote) /\ Current.note # n
        BY <2>5, <3>1, <3>2, ReconcileTypes, CurrentSpoken
      <4>2. \A q \in disk'.queue : \E p \in disk.queue : q.note = p.note
        <5>1. CASE task.remote = Absent
          BY <4>1, <5>1 DEF Reconciling
        <5>2. CASE task.remote # Absent
          <6>1. task.remote.revision \in Nat /\ task.remote.text \in Text
            BY <5>2, TaskIs, RemoteIs
          <6>2. PICK o, r, t : /\ o = Current /\ r = task.remote.revision /\ t = task.remote.text
            OBVIOUS
          <6>3. disk'.queue = MovedQueue(disk, o, r, t) \ {o}
            BY <4>1, <5>2, <6>2 DEF Reconciling
          <6>4. \A q \in MovedQueue(disk, o, r, t) : \E p \in disk.queue : q.note = p.note
            BY <6>1, <6>2, MovedSpeaks
          <6> QED BY <6>3, <6>4
        <5> QED BY <5>1, <5>2
      <4> QED BY <1>5, <4>1, <4>2 DEF Reconciling, DiskUnspoken
    <3>3. CASE ~IdentityMatches(disk, Current)
      BY <1>5, <2>5, <3>3 DEF Reconcile
    <3> QED BY <3>2, <3>3
  <2> QED BY <2>2, <2>3, <2>4, <2>5
<1> QED BY <1>1, <1>2, <1>3, <1>4, <1>5, PushSpeaks

LEMMA AcknowledgingUnused ==
  ASSUME TypeInv, NewNotesUnused, Inv, CommitApplied \/ RemoveAcknowledged \/ ShowOutcome
  PROVE  NewNotesUnused'
<1>1. chore' = chore /\ wire' = wire /\ server' = server /\ budget' = budget
  BY DEF CommitApplied, RemoveAcknowledged, ShowOutcome, user, asides
<1>2. CASE CommitApplied
  <2>1. /\ task' = NextAcknowledgement /\ saver' = saver
    BY <1>2 DEF CommitApplied
  <2>2. task'.target = Absent /\ task'.batch \subseteq task.batch
    BY <2>1, NextIs DEF Acknowledges
  <2>3. /\ task.pc = "acks" /\ Current \in Operation /\ CurrentResult \in Result
        /\ IdentityMatches(disk, Current) =>
             Committed(disk, disk', Current, CurrentResult.revision)
        /\ ~IdentityMatches(disk, Current) => UNCHANGED <<disk, editor>>
        /\ editor'.note = editor.note
    BY <1>2, CommitAppliedTypes
  <2>4. ASSUME NEW n \in budget.fresh, DiskUnspoken(disk, n), NetUnspoken(n)
        PROVE  DiskUnspoken(disk', n)
    <3>1. CASE IdentityMatches(disk, Current)
      <4>1. Committed(disk, disk', Current, CurrentResult.revision) /\ Current.note # n
        BY <2>3, <3>1, CurrentSpoken
      <4>2. \A q \in disk'.queue : \E p \in disk.queue : q.note = p.note
        <5>1. CASE SentText(disk, Current) = Absent
          BY <4>1, <5>1 DEF Committed
        <5>2. CASE SentText(disk, Current) # Absent
          <6>1. CurrentResult.revision \in Nat /\ SentText(disk, Current) \in Text
            <7>1. CurrentResult.revision \in Nat
              BY <2>3 DEF Result
            <7>2. Current.text \in Text /\ Current.note \in Notes
              BY <2>3, OperationIs
            <7>3. disk.notes[Current.note] # Absent => disk.notes[Current.note].text \in Text
              BY <7>2, CachedTyped, NoteIs
            <7> QED BY <5>2, <7>1, <7>2, <7>3 DEF SentText
          <6>2. PICK o, r, t : /\ o = Current /\ r = CurrentResult.revision
                               /\ t = SentText(disk, Current)
            OBVIOUS
          <6>3. disk'.queue = MovedQueue(disk, o, r, t) \ {o}
            BY <4>1, <5>2, <6>2 DEF Committed
          <6>4. \A q \in MovedQueue(disk, o, r, t) : \E p \in disk.queue : q.note = p.note
            BY <6>1, <6>2, MovedSpeaks
          <6> QED BY <6>3, <6>4
        <5> QED BY <5>1, <5>2
      <4> QED BY <2>4, <4>1, <4>2 DEF Committed, DiskUnspoken
    <3>2. CASE ~IdentityMatches(disk, Current)
      BY <2>3, <2>4, <3>2
    <3> QED BY <3>1, <3>2
  <2> QED BY <1>1, <2>1, <2>2, <2>3, <2>4, PushSpeaks
<1>3. CASE RemoveAcknowledged
  <2>1. task' = NextAcknowledgement /\ saver' = saver /\ editor' = editor
    BY <1>3 DEF RemoveAcknowledged, user
  <2>2. task'.target = Absent /\ task'.batch \subseteq task.batch
    BY <2>1, NextIs DEF Acknowledges
  <2>3. QueueOnly(disk, disk') /\ disk'.queue \subseteq disk.queue
    BY <1>3, RemoveAcknowledgedTypes
  <2>4. \A n \in budget.fresh : DiskUnspoken(disk, n) => DiskUnspoken(disk', n)
    BY <2>3, QueueUnspoken
  <2> QED BY <1>1, <2>1, <2>2, <2>4, PushSpeaks
<1>4. CASE ShowOutcome
  <2>1. disk' = disk /\ Step \in {"open", "show"} /\ Advance
    BY <1>4 DEF ShowOutcome
  <2>2. task'.target \in {task.target, Absent} /\ task'.batch \subseteq task.batch
    BY <2>1, AdvanceIs DEF Proceeds, Acknowledges
  <2>3. saver'.note = saver.note
    BY <1>4, SessionTyped DEF ShowOutcome
  <2>4. editor'.note \in {editor.note, task.target, Absent}
    <3>1. CASE Step = "show"
      <4>1. editor' = Showing(Target, Settled(task.remote))
        BY <1>4, <3>1 DEF ShowOutcome
      <4> QED BY <4>1 DEF Showing, Target
    <3>2. CASE Step # "show" /\ task.put # Absent
      <4>1. editor' = UpdateOpenNote(editor, Target, task.put)
        BY <1>4, <3>2 DEF ShowOutcome
      <4> QED BY <4>1 DEF Showing, Target, UpdateOpenNote
    <3>3. CASE Step # "show" /\ task.put = Absent
      <4>1. editor' = editor \/ editor' = Closed
        BY <1>4, <3>3 DEF ShowOutcome
      <4> QED BY <4>1, ClosedTyped
    <3> QED BY <3>1, <3>2, <3>3
  <2> QED BY <1>1, <2>1, <2>2, <2>3, <2>4, PushSpeaks
<1> QED BY <1>2, <1>3, <1>4

LEMMA SendUnused ==
  ASSUME TypeInv, NewNotesUnused, Inv, SendBatch
  PROVE  NewNotesUnused'
<1>1. PICK B \in SUBSET disk.queue :
        /\ QueueOnly(disk, disk') /\ disk'.queue = (disk.queue \ B) \cup Attempted(B)
        /\ Attempted(B) = {Sending(q) : q \in B} /\ Attempted(B) \subseteq Operation
        /\ task' = [task EXCEPT !.pc = "sent", !.batch = Attempted(B)]
        /\ wire' = wire \cup {Attempted(B)}
  BY Zenon, SendBatchTypes
<1>2. PICK S : S = Attempted(B)
  OBVIOUS
<1>3. UNCHANGED <<user, server, asides>>
  BY DEF SendBatch
<1>4. \A q \in S : \E p \in disk.queue : q.note = p.note
  <2>1. \A p \in B : p \in Operation /\ p \in disk.queue
    BY DiskIs DEF TypeInv
  <2>2. \A p \in B : Sending(p).note = p.note
    BY <2>1, SendingTyped
  <2> QED BY <1>1, <1>2, <2>1, <2>2
<1>5. task'.batch = S /\ task'.target = task.target
  BY <1>1, <1>2, TaskIs DEF Task
<1>6. ASSUME NEW n \in budget.fresh
      PROVE  DiskUnspoken(disk', n) /\ UserUnspoken(n)' /\ NetUnspoken(n)'
  <2>1. DiskUnspoken(disk, n) /\ UserUnspoken(n) /\ NetUnspoken(n)
    BY DEF NewNotesUnused
  <2>2. \A q \in S : q.note # n
    BY <1>4, <2>1 DEF DiskUnspoken
  <2>3. DiskUnspoken(disk', n)
    BY <1>1, <1>2, <2>1, <2>2 DEF QueueOnly, DiskUnspoken
  <2>4. NetUnspoken(n)'
    BY <1>1, <1>2, <1>3, <1>5, <2>1, <2>2 DEF NetUnspoken
  <2> QED BY <1>3, <2>1, <2>3, <2>4, UserUnspokenStays
<1> QED BY <1>3, <1>6 DEF NewNotesUnused, asides

LEMMA PushKeepsTypes ==
  ASSUME TypeInv, NewNotesUnused, Inv, Push
  PROVE  TypeInv' /\ NewNotesUnused'
<1>1. CASE SendBatch
  BY Zenon, <1>1, SendBatchTypes, SendUnused
<1>2. CASE CommitApplied \/ RemoveAcknowledged \/ ShowOutcome
  BY <1>2, CommitAppliedTypes, RemoveAcknowledgedTypes, ShowOutcomeTypes, AcknowledgingUnused
<1>3. CASE BeginFetch \/ Fetch \/ Flush \/ Flushed
  BY <1>3, BeginFetchTypes, FetchTypes, FlushTypes, FlushedTypes, FetchingUnused
<1>4. CASE Merge \/ Prepare \/ ConflictedPin \/ ReadPinned
  BY <1>4, MergeTypes, PrepareTypes, ConflictedPinTypes, ReadPinnedTypes, FetchingUnused
<1>5. CASE RecordDeletion \/ SetConflict \/ Transact \/ Reconcile
  BY <1>5, RecordDeletionTypes, SetConflictTypes, TransactTypes, ReconcileTypes, StoringUnused
<1> QED BY <1>1, <1>2, <1>3, <1>4, <1>5 DEF Push

(* The server and the faults speak of no new note. *)
LEMMA OthersSpeak ==
  ASSUME TypeInv, NewNotesUnused, budget'.fresh = budget.fresh, wire' \subseteq wire,
         chore' = chore \/ chore' = NoChore, saver' = saver \/ saver' = NoSave,
         editor' = editor \/ editor' = Closed,
         task'.target \in {task.target, Absent} \cup {n \in Notes : editor.note = n},
         task'.batch \subseteq task.batch,
         \A n \in budget.fresh : NetUnspoken(n) => ~server'.notes[n].live,
         \A n \in budget.fresh :
           DiskUnspoken(disk, n) /\ NetUnspoken(n) => DiskUnspoken(disk', n)
  PROVE  NewNotesUnused'
<1>1. ASSUME NEW n \in budget.fresh
      PROVE  DiskUnspoken(disk', n) /\ UserUnspoken(n)' /\ NetUnspoken(n)'
  <2>1. DiskUnspoken(disk, n) /\ UserUnspoken(n) /\ NetUnspoken(n) /\ n # Absent
    BY FreshIsNote DEF NewNotesUnused
  <2>2. UserUnspoken(n)'
    BY <2>1, ClosedTyped, NoSaveTyped, ChoreIs DEF UserUnspoken
  <2>3. NetUnspoken(n)'
    BY <2>1 DEF NetUnspoken, UserUnspoken
  <2> QED BY <2>1, <2>2, <2>3
<1> QED BY <1>1 DEF NewNotesUnused

LEMMA ServedUnspoken ==
  ASSUME NEW batch \in wire, Serves(server', batch), NEW n \in Notes, NetUnspoken(n)
  PROVE  ~server'.notes[n].live
<1>1. \A q \in batch : ~AppliesTo(q, n)
  BY DEF NetUnspoken, AppliesTo
<1> QED BY <1>1 DEF Serves, NetUnspoken

LEMMA OthersKeepTypes ==
  ASSUME TypeInv, NewNotesUnused, Inv, Others
  PROVE  TypeInv' /\ NewNotesUnused'
<1>1. ASSUME NEW batch \in wire, Reply(batch)
      PROVE  TypeInv' /\ NewNotesUnused'
  <2>1. /\ TypeInv' /\ Serves(server', batch) /\ wire' = wire \ {batch}
        /\ task'.batch = task.batch /\ task'.target = task.target
    BY <1>1, ReplyTypes
  <2>2. UNCHANGED <<disk, user, budget>>
    BY <1>1 DEF Reply
  <2>3. \A n \in budget.fresh : NetUnspoken(n) => ~server'.notes[n].live
    BY <2>1, ServedUnspoken, FreshIsNote
  <2> QED BY <2>1, <2>2, <2>3, OthersSpeak DEF user
<1>2. ASSUME NEW batch \in wire, LateArrival(batch)
      PROVE  TypeInv' /\ NewNotesUnused'
  <2>1. TypeInv' /\ Serves(server', batch) /\ wire' = wire \ {batch}
    BY <1>2, LateArrivalTypes
  <2>2. UNCHANGED <<disk, user, budget, task>>
    BY <1>2 DEF LateArrival
  <2>3. \A n \in budget.fresh : NetUnspoken(n) => ~server'.notes[n].live
    BY <2>1, ServedUnspoken, FreshIsNote
  <2> QED BY <2>1, <2>2, <2>3, OthersSpeak DEF user
<1>3. ASSUME NEW n \in Notes, RemoteEdit(n) \/ RemoteDelete(n)
      PROVE  TypeInv' /\ NewNotesUnused'
  <2>1. TypeInv' /\ \E text, live : RemoteWrites(n, text, live)
    BY <1>3, RemoteEditTypes, RemoteDeleteTypes
  <2>2. UNCHANGED <<disk, user, task, wire>>
    BY <1>3 DEF RemoteEdit, RemoteDelete
  <2>3. budget'.fresh = budget.fresh
    BY <2>1 DEF RemoteWrites
  <2>4. \A m \in budget.fresh : NetUnspoken(m) => ~server'.notes[m].live
    BY <2>1, FreshIsNote DEF RemoteWrites, NetUnspoken
  <2> QED BY <2>1, <2>2, <2>3, <2>4, OthersSpeak DEF user
<1>4. ASSUME NEW n \in Notes, ApplyPage(n)
      PROVE  TypeInv' /\ NewNotesUnused'
  <2>1. PICK v \in Optional(Note) :
          /\ Puts(disk, disk', n, v)
          /\ task' = task \/ (task'.target = n /\ editor.note = n /\ task'.batch = task.batch)
    BY <1>4, ApplyPageTypes
  <2>2. TypeInv' /\ UNCHANGED <<user, wire, server, budget>>
    BY Zenon, <1>4, ApplyPageTypes DEF ApplyPage, asides
  <2>3. n \notin budget.fresh
    <3>1. CASE Fetched(n) = Absent
      BY <1>4, <3>1 DEF ApplyPage, NewNotesUnused, DiskUnspoken
    <3>2. CASE Fetched(n) # Absent
      BY <3>2 DEF NewNotesUnused, NetUnspoken, Fetched
    <3> QED BY <3>1, <3>2
  <2>4. \A m \in budget.fresh : DiskUnspoken(disk, m) => DiskUnspoken(disk', m)
    BY <2>1, <2>3, PutsUnspoken
  <2>5. \A m \in budget.fresh : NetUnspoken(m) => ~server'.notes[m].live
    BY <2>2 DEF NetUnspoken
  <2> QED BY <2>1, <2>2, <2>4, <2>5, OthersSpeak DEF user
<1>5. CASE LoseReply \/ FetchFails \/ Crash
  <2>1. TypeInv' /\ budget'.fresh = budget.fresh
    BY <1>5, LoseReplyTypes, CrashTypes
  <2>2. /\ UNCHANGED <<disk, wire, server>> /\ task' = IdleTask
        /\ chore' = chore \/ chore' = NoChore
        /\ saver' = saver \/ saver' = NoSave
        /\ editor' = editor \/ editor' = Closed
    BY <1>5 DEF LoseReply, FetchFails, Crash, user
  <2>3. task'.target = Absent /\ task'.batch = {}
    BY <2>2, IdleIs
  <2>4. \A m \in budget.fresh : NetUnspoken(m) => ~server'.notes[m].live
    BY <2>2 DEF NetUnspoken
  <2> QED BY <2>1, <2>2, <2>3, <2>4, OthersSpeak
<1>6. CASE Forget
  <2>1. TypeInv' /\ server'.notes = server.notes /\ budget'.fresh = budget.fresh
    BY <1>6, ForgetTypes
  <2>2. UNCHANGED <<disk, user, task, wire>>
    BY <1>6 DEF Forget
  <2>3. \A m \in budget.fresh : NetUnspoken(m) => ~server'.notes[m].live
    BY <2>1 DEF NetUnspoken
  <2> QED BY <2>1, <2>2, <2>3, OthersSpeak DEF user
<1>7. CASE Refuse
  <2>1. /\ TypeInv' /\ budget'.fresh = budget.fresh /\ task.pc = "sent"
        /\ wire' = wire \ {task.batch} /\ Current \in Operation /\ Current \in task.batch
        /\ disk' = disk \/ Quarantines(disk, disk', Current)
    BY <1>7, RefuseTypes
  <2>2. UNCHANGED <<user, server>> /\ \E limit : task' = [IdleTask EXCEPT !.limit = limit]
    BY <1>7 DEF Refuse
  <2>3. task'.target = Absent /\ task'.batch = {}
    BY <2>2, IdleIs
  <2>4. ASSUME NEW n \in budget.fresh, DiskUnspoken(disk, n), NetUnspoken(n)
        PROVE  DiskUnspoken(disk', n)
    <3>1. CASE disk' = disk
      BY <2>4, <3>1
    <3>2. CASE Quarantines(disk, disk', Current)
      <4>1. Current.note # n
        BY <2>1, <2>4 DEF NetUnspoken
      <4>2. PICK q \in Operation : q = Current
        BY <2>1
      <4>3. Slot(q).note = q.note
        BY QuarantineTyped DEF TypeInv
      <4> QED BY <2>4, <3>2, <4>1, <4>2, <4>3 DEF Quarantines, DiskUnspoken
    <3> QED BY <2>1, <3>1, <3>2
  <2>5. \A m \in budget.fresh : NetUnspoken(m) => ~server'.notes[m].live
    BY <2>2 DEF NetUnspoken
  <2> QED BY <2>1, <2>2, <2>3, <2>4, <2>5, OthersSpeak DEF user
<1> QED BY <1>1, <1>2, <1>3, <1>4, <1>5, <1>6, <1>7 DEF Others

LEMMA InitTypes ==
  ASSUME Init
  PROVE  TypeInv /\ NewNotesUnused
<1>1. PICK known \in SUBSET MainNotes, bounds \in Budgets :
        /\ server = [notes |-> [n \in Notes |-> IF n \in known THEN Known(n) ELSE NoRow],
                     consumed |-> 0, results |-> {}]
        /\ disk = [notes |-> [n \in Notes |-> IF n \in known THEN Settled(Fetched(n)) ELSE Absent],
                   queue |-> {}, sequence |-> 0, created |-> 0, rejected |-> {},
                   conflicts |-> [n \in Notes |-> Absent]]
        /\ editor = Closed /\ saver = NoSave /\ chore = NoChore
        /\ task = IdleTask /\ wire = {}
        /\ budget = [typed |-> bounds.typed, remote |-> bounds.remote, actions |-> bounds.actions,
                     faults |-> bounds.faults, fresh |-> Notes \ known]
        /\ owed = {} /\ lapses = {}
  BY DEF Init
<1>2. \A n \in Notes : Known(n) \in Row /\ NoRow \in Row /\ Known(n).live = TRUE /\ NoRow.live = FALSE
  BY DEF Known, NoRow, Row, Text
<1>3. PICK rows : rows = [n \in Notes |-> IF n \in known THEN Known(n) ELSE NoRow]
  OBVIOUS
<1>4. rows \in [Notes -> Row] /\ server.notes = rows /\ server.results = {}
  BY <1>1, <1>2, <1>3
<1>5. NetTyped
  BY <1>1, <1>4 DEF NetTyped
<1>6. ASSUME NEW n \in Notes, n \in known PROVE Settled(Fetched(n)) \in Note
  <2>1. PICK row : row = server.notes[n]
    OBVIOUS
  <2>2. row \in Row /\ row.live
    BY <1>2, <1>3, <1>4, <1>6, <2>1
  <2>3. PICK r : r = [text |-> row.text, revision |-> row.revision, pinned |-> row.pinned]
    OBVIOUS
  <2>4. r \in Remote
    BY <2>2, <2>3, RowIs DEF Remote
  <2>5. Fetched(n) = r
    BY <2>1, <2>2, <2>3 DEF Fetched
  <2> QED BY <2>4, <2>5, SettledTyped
<1>7. PICK notes : notes = [n \in Notes |-> IF n \in known THEN Settled(Fetched(n)) ELSE Absent]
  OBVIOUS
<1>8. notes \in [Notes -> Optional(Note)]
  BY <1>6, <1>7 DEF Optional
<1>9. PICK conflicts : conflicts = [n \in Notes |-> Absent]
  OBVIOUS
<1>10. conflicts \in [Notes -> Optional(Conflict)]
  BY <1>9 DEF Optional
<1>11. disk = [notes |-> notes, queue |-> {}, sequence |-> 0, created |-> 0, rejected |-> {},
               conflicts |-> conflicts]
  BY <1>1, <1>7, <1>9
<1>12. disk \in Disk
  BY <1>8, <1>10, <1>11 DEF Disk
<1>13. UserTyped
  BY <1>1, ClosedTyped, NoSaveTyped, ChoreIs DEF UserTyped
<1>14. TaskTyped
  <2>1. task \in Task /\ task.steps = <<>> /\ task.pc = "idle"
    <3>1. BatchLimit \in Nat
      BY SyncAssumption
    <3>2. IdleTask = [IdleTask EXCEPT !.limit = IdleTask.limit] /\ IdleTask.limit = BatchLimit
      BY DEF IdleTask
    <3>3. PICK l \in Nat : l = BatchLimit
      BY <3>1
    <3>4. task = [IdleTask EXCEPT !.limit = l]
      BY <1>1, <3>2, <3>3
    <3> QED BY <3>4, IdleTyped
  <2>2. Prepared
    <3>1. <<>> \notin Programs
      BY ProgramHeads
    <3>2. Step = "none"
      BY <2>1 DEF Step
    <3>3. <<>> # <<"deletion">>
      OBVIOUS
    <3> QED BY <2>1, <3>1, <3>2, <3>3 DEF Prepared, Programs
  <2> QED BY <2>1, <2>2 DEF TaskTyped
<1>15. AsideTyped
  <2>1. /\ bounds.typed \in 0 .. MaxTyped /\ bounds.remote \in 0 .. MaxRemote
        /\ bounds.actions \in Nat /\ bounds.faults \in Nat
    BY SyncAssumption
  <2> QED BY <1>1, <2>1 DEF AsideTyped, Budget
<1>16. TypeInv
  BY <1>5, <1>12, <1>13, <1>14, <1>15 DEF TypeInv
<1>17. ASSUME NEW n \in budget.fresh
       PROVE  DiskUnspoken(disk, n) /\ UserUnspoken(n) /\ NetUnspoken(n)
  <2>1. n \in Notes /\ n \notin known /\ n # Absent
    BY <1>1, StoreAssumption
  <2>2. DiskUnspoken(disk, n)
    BY <1>7, <1>9, <1>11, <2>1 DEF DiskUnspoken
  <2>3. UserUnspoken(n)
    BY <1>1, <2>1, ClosedTyped, NoSaveTyped, ChoreIs DEF UserUnspoken
  <2>4. NetUnspoken(n)
    <3>1. task.batch = {} /\ task.target = Absent
      BY <1>1 DEF IdleTask
    <3>2. server.notes[n] = NoRow
      BY <1>3, <1>4, <2>1
    <3> QED BY <1>1, <1>2, <2>1, <3>1, <3>2 DEF NetUnspoken
  <2> QED BY <2>2, <2>3, <2>4
<1> QED BY <1>16, <1>17 DEF NewNotesUnused

LEMMA StutterTypes ==
  ASSUME TypeInv, NewNotesUnused, UNCHANGED vars
  PROVE  TypeInv' /\ NewNotesUnused'
<1>1. /\ disk' = disk /\ editor' = editor /\ saver' = saver /\ chore' = chore /\ task' = task
      /\ wire' = wire /\ server' = server /\ budget' = budget /\ owed' = owed
  BY DEF vars
<1>2. disk' \in Disk
  BY <1>1 DEF TypeInv
<1>3. TypeInv'
  BY <1>1, <1>2, TaskStays, UserStays, NetStays, AsideStays DEF TypeInv
<1>4. \A n : NetUnspoken(n) => NetUnspoken(n)'
  BY <1>1 DEF NetUnspoken
<1>5. NewNotesUnused'
  BY <1>1, <1>4 DEF NewNotesUnused, UserUnspoken
<1> QED BY <1>3, <1>5

LEMMA NextTypes ==
  ASSUME TypeInv, NewNotesUnused, Inv, [Next]_vars
  PROVE  TypeInv' /\ NewNotesUnused'
BY UserKeepsTypes, PushKeepsTypes, OthersKeepTypes, StutterTypes DEF Next

(* Nothing is ever stored or sent in a shape the code does not expect, and a  *)
(* note copied out of a conflict takes an identifier nothing has used.        *)
THEOREM Typed == Spec => [](Inv /\ TypeInv /\ NewNotesUnused)
<1>1. Init => Inv /\ TypeInv /\ NewNotesUnused
  BY InitInv, InitTypes
<1>2. Inv /\ TypeInv /\ NewNotesUnused /\ [Next]_vars => (Inv /\ TypeInv /\ NewNotesUnused)'
  BY NextInv, NextTypes
<1> QED BY <1>1, <1>2, PTL DEF Spec

(* Every variable keeps its shape: no transaction, acknowledgement or merge  *)
(* stores half a note, a request without a note or a program without what it *)
(* was prepared from.                                                        *)
THEOREM TypeOKHolds == Spec => []TypeOK
BY Typed, TypeInvIsEnough, PTL
=============================================================================
