----------------------------- MODULE SyncContract -----------------------------
(***************************************************************************)
(* What the server promises the devices that write notes, without files,   *)
(* caches, crashes or retries:                                             *)
(*   - the operations of a device are consumed one at a time, in the order *)
(*     of their sequences, and what became of one never changes;           *)
(*   - a note changes only when an operation or a direct write is applied, *)
(*     in the same step, and the result names the revision this creates;   *)
(*   - a live note's revisions are consecutive.                            *)
(***************************************************************************)
EXTENDS Integers

CONSTANTS Notes, Devices, Bodies, Absent

VARIABLES
  revision,  \* of every live note; 0 for a note that does not exist
  body,      \* its content
  outcomes   \* per device: the results of its consumed operations

vars == <<revision, body, outcomes>>

Init ==
  /\ revision = [n \in Notes |-> 0]
  /\ body     = [n \in Notes |-> Absent]
  /\ outcomes = [d \in Devices |-> {}]

(* A live note moves to the next revision; a note that does not exist starts *)
(* at any positive revision, since it may have existed before.               *)
Save(n, content, next) ==
  /\ IF revision[n] > 0 THEN next = revision[n] + 1 ELSE next > 0
  /\ revision' = [revision EXCEPT ![n] = next]
  /\ body'     = [body EXCEPT ![n] = content]

Pin(n, next) ==
  /\ revision[n] > 0
  /\ next = revision[n] + 1
  /\ revision' = [revision EXCEPT ![n] = next]
  /\ UNCHANGED body

Delete(n, next) ==
  /\ revision[n] > 0
  /\ next = revision[n] + 1
  /\ revision' = [revision EXCEPT ![n] = 0]
  /\ body'     = [body EXCEPT ![n] = Absent]

Change(n, next) ==
  (\E content \in Bodies : Save(n, content, next)) \/ Pin(n, next) \/ Delete(n, next)

(* The next sequence of d is consumed: by a change, or by a conflict or a    *)
(* noop, which change nothing.                                               *)
Consume(d) ==
  \E r \in outcomes'[d] :
    /\ {o.sequence : o \in outcomes[d]} = 1 .. (r.sequence - 1)
    /\ outcomes' = [outcomes EXCEPT ![d] = @ \cup {r}]
    /\ \/ r.status = "applied" /\ \E n \in Notes : Change(n, r.revision)
       \/ r.status = "conflict" /\ UNCHANGED <<revision, body>>
       \/ r.status = "applied" /\ r.revision = 0 /\ UNCHANGED <<revision, body>>

DirectWrite ==
  /\ \E n \in Notes :
       Change(n, IF revision'[n] > 0 THEN revision'[n] ELSE revision[n] + 1)
  /\ UNCHANGED outcomes

Next == DirectWrite \/ \E d \in Devices : Consume(d)

Spec == Init /\ [][Next]_vars
=============================================================================
