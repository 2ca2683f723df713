-------------------------- MODULE NoteServer_proofs --------------------------
(***************************************************************************)
(* Theorems about NoteServer, for any set of notes, devices, contents and  *)
(* drafts and any value of the limits and bounds.                          *)
(***************************************************************************)
EXTENDS NoteServer, NoteStore_proofs, SequenceTheorems

-----------------------------------------------------------------------------
(* Types. *)

(* A push is made by a device; a staged file belongs to an operation. *)
RequestInv ==
  /\ handler.source = "push" => handler.device \in Devices
  /\ At("staged") => handler.todo # <<>>

TypeInv == TypeOK /\ Counted(db) /\ RequestInv

LEMMA CurrentTyped ==
  ASSUME TypeOK, handler.todo # <<>>
  PROVE  /\ Current \in Operation
         /\ Current.sequence \in Nat /\ Current.id \in Nat
         /\ Current.draft \in Draft /\ Current.draft.note \in Notes
         /\ WellFormed(Current.draft)
         /\ Current.draft.body \in Content
         /\ Tail(handler.todo) \in Seq(Operation)
<1>1. handler.todo \in Seq(Operation)
  BY DEF TypeOK, Handler
<1>2. Current \in Operation /\ Tail(handler.todo) \in Seq(Operation)
  BY <1>1, HeadTailProperties DEF Current
<1>3. Current.draft \in Draft /\ WellFormed(Current.draft)
  BY <1>2, DraftsAssumption DEF Operation
<1> QED BY <1>2, <1>3 DEF Operation, Draft, Content

LEMMA CompactionsShrink ==
  ASSUME NEW rows, NEW left \in Compactions(rows)
  PROVE  left \subseteq rows
BY DEF Compactions

(* Consuming an operation keeps the types of what it changes. *)
LEMMA ConsumeTyped ==
  ASSUME TypeInv, handler.todo # <<>>, NEW result \in Result, Consume(result)
  PROVE  /\ stored' \subseteq [device : Devices, result : Result]
         /\ lastSequence' \in [Devices -> Nat]
         /\ applied' \subseteq Outcomes
<1> DEFINE row     == [device |-> handler.device, result |-> result]
           outcome == [device |-> handler.device, result |-> result,
                       note |-> Current.draft.note, type |-> Current.draft.type]
<1>1. Current.draft \in Draft /\ Current.sequence \in Nat
  BY CurrentTyped DEF TypeInv
<1>2. outcome \in Outcomes
  BY <1>1 DEF TypeInv, TypeOK, Handler, Outcomes, Draft
<1>3. applied' \subseteq Outcomes
  BY <1>2 DEF Consume, TypeInv, TypeOK
<1>4. CASE handler.source = "push"
  <2>1. row \in [device : Devices, result : Result]
    BY <1>4 DEF TypeInv, RequestInv
  <2>2. stored' \subseteq stored \cup {row}
    BY <1>4, CompactionsShrink DEF Consume
  <2>3. lastSequence' \in [Devices -> Nat]
    BY <1>1, <1>4 DEF Consume, TypeInv, TypeOK
  <2> HIDE DEF row
  <2> QED BY <1>3, <2>1, <2>2, <2>3 DEF TypeInv, TypeOK
<1>5. CASE handler.source # "push"
  BY <1>3, <1>5 DEF Consume, TypeInv, TypeOK
<1> QED BY <1>4, <1>5

(* The outcomes of an operation are results. *)
LEMMA OutcomeTyped ==
  ASSUME TypeInv, handler.todo # <<>>
  PROVE  /\ Outcome("conflict", CurrentRevision(db, Current.draft.note)) \in Result
         /\ Outcome("applied", 0) \in Result
         /\ Written \in Result
<1>1. Current.draft.note \in Notes /\ Current.sequence \in Nat /\ Current.id \in Nat
  BY CurrentTyped DEF TypeInv
<1>2. CurrentRevision(db, Current.draft.note) \in Nat
  BY <1>1, CurrentRevisionCounted DEF TypeInv
<1> QED BY <1>1, <1>2 DEF Outcome, Written, Result

LEMMA AcknowledgeTyped ==
  ASSUME TypeInv, Working, NEW result \in Result, Acknowledge(result)
  PROVE  handler' \in Handler /\ RequestInv'
<1>1. Tail(handler.todo) \in Seq(Operation)
  BY CurrentTyped DEF TypeInv, Working
<1> QED BY <1>1 DEF TypeInv, TypeOK, Handler, Acknowledge, RequestInv, At, Working

LEMMA HandlersTyped == Idle \in Handler /\ Down \in Handler
                       /\ Idle.source = "startup" /\ Down.source = "startup"
                       /\ Idle.pc = "idle" /\ Down.pc = "down"
<1>1. <<>> \in Seq(Operation)
  BY EmptySeq
<1> QED BY <1>1 DEF Idle, Down, Handler

LEMMA RecoveringTyped ==
  ASSUME TypeOK, NEW source \in {"startup", "push", "direct"}, NEW device \in Devices \cup {Direct},
         NEW todo \in Seq(Operation), source = "push" => device \in Devices,
         handler' = Recovering(source, device, todo)
  PROVE  handler' \in Handler /\ RequestInv'
BY DEF TypeOK, Recovering, Idle, Handler, Unquarantined, RequestInv, At

LEMMA InitTyped == Init => TypeInv
<1> SUFFICES ASSUME Init PROVE TypeInv
  OBVIOUS
<1>1. Counted(db)
  BY EmptyStoreCounted DEF Init
<1>2. handler \in Handler /\ RequestInv
  BY HandlersTyped DEF Init, RequestInv, At
<1>3. outbox \in [Devices -> Seq([id : Nat, draft : Drafts])]
  BY EmptySeq DEF Init
<1>4. budget \in [direct : Nat, rollbacks : Nat, faults : Nat, crashes : Nat]
  BY BoundsAssumption DEF Init
<1> QED BY <1>1, <1>2, <1>3, <1>4 DEF Init, TypeInv, TypeOK, Content, Counted

LEMMA MovedTyped ==
  ASSUME TypeOK, NEW f \in FileOp, Moved(f)
  PROVE  files' \in [Notes -> Content] /\ stages' \subseteq Nat
BY DEF TypeOK, Moved, FileOp, Content

(* Taking from the budget what is left of it. *)
LEMMA SpentTyped ==
  ASSUME TypeOK,
         \/ budget.direct > 0 /\ budget' = [budget EXCEPT !.direct = @ - 1]
         \/ budget.rollbacks > 0 /\ budget' = [budget EXCEPT !.rollbacks = @ - 1]
         \/ budget.faults > 0 /\ budget' = [budget EXCEPT !.faults = @ - 1]
         \/ budget.crashes > 0 /\ budget' = [budget EXCEPT !.crashes = @ - 1]
  PROVE  budget' \in [direct : Nat, rollbacks : Nat, faults : Nat, crashes : Nat]
<1> DEFINE Budget == [direct : Nat, rollbacks : Nat, faults : Nat, crashes : Nat]
<1>1. budget \in Budget
  BY DEF TypeOK
<1>2. CASE budget.direct > 0 /\ budget' = [budget EXCEPT !.direct = @ - 1]
  BY <1>1, <1>2
<1>3. CASE budget.rollbacks > 0 /\ budget' = [budget EXCEPT !.rollbacks = @ - 1]
  BY <1>1, <1>3
<1>4. CASE budget.faults > 0 /\ budget' = [budget EXCEPT !.faults = @ - 1]
  BY <1>1, <1>4
<1>5. CASE budget.crashes > 0 /\ budget' = [budget EXCEPT !.crashes = @ - 1]
  BY <1>1, <1>5
<1> QED BY <1>2, <1>3, <1>4, <1>5

LEMMA FaultyTyped ==
  ASSUME TypeOK, NEW f \in FileOp, Faulty(f)
  PROVE  /\ files' \in [Notes -> Content] /\ stages' \subseteq Nat
         /\ budget' \in [direct : Nat, rollbacks : Nat, faults : Nat, crashes : Nat]
<1>1. files' \in [Notes -> Content] /\ stages' \subseteq Nat
  <2>1. CASE UNCHANGED <<files, stages>>
    BY <2>1 DEF TypeOK
  <2>2. CASE Moved(f)
    BY <2>2, MovedTyped
  <2> QED BY <2>1, <2>2 DEF Faulty
<1>2. budget' \in [direct : Nat, rollbacks : Nat, faults : Nat, crashes : Nat]
  <2>1. CASE UNCHANGED budget
    BY <2>1 DEF TypeOK
  <2> QED BY <2>1, SpentTyped DEF Faulty
<1> QED BY <1>1, <1>2

(* Every step keeps the types. *)
LEMMA NextTyped == TypeInv /\ [Next]_vars => TypeInv'
<1> SUFFICES ASSUME TypeInv, [Next]_vars PROVE TypeInv'
  OBVIOUS
<1> USE DEF TypeInv
<1>1. ASSUME NEW d \in Devices, NEW draft \in Drafts, Enqueue(d, draft)
      PROVE  TypeInv'
  <2>1. [id |-> issued + 1, draft |-> draft] \in [id : Nat, draft : Drafts]
    BY DraftsAssumption DEF TypeOK
  <2>2. outbox' \in [Devices -> Seq([id : Nat, draft : Drafts])]
    BY <1>1, <2>1, AppendProperties DEF Enqueue, TypeOK
  <2>3. issued' \in Nat
    BY <1>1 DEF Enqueue, TypeOK
  <2> QED BY <1>1, <2>2, <2>3 DEF Enqueue, TypeOK, note_state, device_state, RequestInv, At
<1>2. ASSUME NEW d \in Devices, NEW kept \in 0 .. Len(outbox[d]), RestoreProfile(d, kept)
      PROVE  TypeInv'
  <2>0. outbox[d] \in Seq([id : Nat, draft : Drafts])
    BY DEF TypeOK
  <2>1. Len(outbox[d]) \in Nat /\ kept \in Int /\ kept < Len(outbox[d])
    BY <1>2, <2>0, LenProperties DEF RestoreProfile
  <2>2. \A i \in 1 .. kept : outbox[d][i] \in [id : Nat, draft : Drafts]
    <3> TAKE i \in 1 .. kept
    <3>1. i \in 1 .. Len(outbox[d])
      BY <2>1
    <3> QED BY <2>0, <3>1, ElementOfSeq
  <2>3. SubSeq(outbox[d], 1, kept) \in Seq([id : Nat, draft : Drafts])
    BY <2>1, <2>2, SubSeqProperties
  <2>4. budget' \in [direct : Nat, rollbacks : Nat, faults : Nat, crashes : Nat]
    BY <1>2, SpentTyped DEF RestoreProfile
  <2> QED BY <1>2, <2>3, <2>4 DEF RestoreProfile, TypeOK, note_state, device_state, RequestInv, At
<1>3. ASSUME NEW d \in Devices, NEW from \in 1 .. Len(outbox[d]), NEW to \in 1 .. Len(outbox[d]),
             from <= to, Push(d, from, to)
      PROVE  TypeInv'
  <2> DEFINE todo == [i \in 1 .. (to - from + 1) |->
                        [sequence |-> from + i - 1, id |-> outbox[d][from + i - 1].id,
                         draft |-> outbox[d][from + i - 1].draft]]
  <2>1. to - from + 1 \in Int /\ Len(outbox[d]) \in Nat
    BY LenProperties DEF TypeOK
  <2>2. ASSUME NEW i \in 1 .. (to - from + 1)
        PROVE  todo[i] \in Operation
    <3>1. from + i - 1 \in 1 .. Len(outbox[d])
      BY <2>1
    <3>2. outbox[d][from + i - 1] \in [id : Nat, draft : Drafts]
      BY <3>1, ElementOfSeq DEF TypeOK
    <3> QED BY <3>1, <3>2 DEF Operation
  <2>3. todo \in Seq(Operation)
    <3>1. todo \in [1 .. (to - from + 1) -> Operation] /\ to - from + 1 \in Nat
      BY <1>3, <2>1, <2>2
    <3> HIDE DEF todo
    <3> QED BY <3>1, SeqDef
  <2>4. handler' = Recovering("push", d, todo)
    BY <1>3 DEF Push
  <2> HIDE DEF todo
  <2>5. handler' \in Handler /\ RequestInv'
    BY <2>3, <2>4, RecoveringTyped
  <2> QED BY <1>3, <2>5 DEF Push, TypeOK, note_state, device_state, environment
<1>4. ASSUME NEW draft \in Drafts, DirectWrite(draft)
      PROVE  TypeInv'
  <2>1. <<[sequence |-> 0, id |-> 0, draft |-> draft]>> \in Seq(Operation)
    BY DraftsAssumption DEF Operation
  <2>2. handler' \in Handler /\ RequestInv'
    BY <1>4, <2>1, RecoveringTyped DEF DirectWrite
  <2>3. budget' \in [direct : Nat, rollbacks : Nat, faults : Nat, crashes : Nat]
    BY <1>4, SpentTyped DEF DirectWrite
  <2> QED BY <1>4, <2>2, <2>3 DEF DirectWrite, TypeOK, note_state, device_state
<1>5. ASSUME NEW n \in Notes, ReadNote(n)
      PROVE  TypeInv'
  BY <1>5 DEF ReadNote, CacheSet, TypeOK, Content, device_state, environment, RequestInv, At
<1>6. ASSUME NEW f \in handler.recovering, RecoverOne(f)
      PROVE  TypeInv'
  <2>1. f \in FileOp
    BY DEF TypeOK, Handler
  <2>2. files' \in [Notes -> Content] /\ stages' \subseteq Nat
    BY <1>6, <2>1, MovedTyped DEF RecoverOne
  <2>3. handler' \in Handler /\ RequestInv'
    BY <1>6 DEF RecoverOne, TypeOK, Handler, RequestInv, At
  <2> QED BY <1>6, <2>2, <2>3 DEF RecoverOne, TypeOK, device_state, environment
<1>7. ASSUME NEW f \in handler.recovering, RecordFailure(f)
      PROVE  TypeInv'
  <2>1. f \in FileOp
    BY DEF TypeOK, Handler
  <2>2. /\ files' \in [Notes -> Content] /\ stages' \subseteq Nat
        /\ budget' \in [direct : Nat, rollbacks : Nat, faults : Nat, crashes : Nat]
    BY <1>7, <2>1, FaultyTyped DEF RecordFailure
  <2>3. handler' \in Handler /\ RequestInv'
    BY <1>7 DEF RecordFailure, TypeOK, Handler, RequestInv, At
  <2>4. [f EXCEPT !.failures = @ + 1, !.quarantined = f.failures + 1 >= QuarantineAfter] \in FileOp
    <3> DEFINE limit == f.failures + 1 >= QuarantineAfter
    <3>1. limit \in BOOLEAN /\ f.failures + 1 \in Nat
      BY <2>1 DEF FileOp
    <3> HIDE DEF limit
    <3>2. [f EXCEPT !.failures = @ + 1, !.quarantined = limit] \in FileOp
      BY <2>1, <3>1 DEF FileOp
    <3> QED BY <3>2 DEF limit
  <2>5. fileOps' \subseteq FileOp
    BY <1>7, <2>4 DEF RecordFailure, TypeOK
  <2> QED BY <1>7, <2>2, <2>3, <2>5 DEF RecordFailure, TypeOK, device_state
<1>8. ASSUME FinishRecovery
      PROVE  TypeInv'
  <2>1. handler' \in Handler /\ RequestInv'
    BY <1>8, HandlersTyped DEF FinishRecovery, TypeOK, Handler, RequestInv, At
  <2> QED BY <1>8, <2>1 DEF FinishRecovery, TypeOK, device_state, environment
<1>9. ASSUME FailRecovery
      PROVE  TypeInv'
  <2>1. handler' \in Handler /\ RequestInv'
    BY <1>9, HandlersTyped DEF FailRecovery, RequestInv, At
  <2>2. budget' \in [direct : Nat, rollbacks : Nat, faults : Nat, crashes : Nat]
    BY <1>9, SpentTyped DEF FailRecovery
  <2> QED BY <1>9, <2>1, <2>2 DEF FailRecovery, TypeOK, note_state, device_state
<1>10. ASSUME ReplayStored
       PROVE  TypeInv'
  <2>1. PICK r \in StoredHere : Acknowledge(r.result)
    BY <1>10 DEF ReplayStored
  <2>2. r.result \in Result
    BY DEF StoredHere, TypeOK
  <2>3. handler' \in Handler /\ RequestInv'
    BY <1>10, <2>1, <2>2, AcknowledgeTyped DEF ReplayStored, Replaying
  <2> QED BY <1>10, <2>3 DEF ReplayStored, TypeOK, note_state, device_state, environment
<1>11. ASSUME ReplayCompacted
       PROVE  TypeInv'
  <2> DEFINE r == [sequence |-> Current.sequence, id |-> Current.id,
                   status |-> "compacted", revision |-> 0]
  <2>1. r \in Result
    BY <1>11, CurrentTyped DEF ReplayCompacted, Replaying, Working, Result
  <2>2. Acknowledge(r)
    BY <1>11 DEF ReplayCompacted
  <2> HIDE DEF r
  <2>3. handler' \in Handler /\ RequestInv'
    BY <1>11, <2>1, <2>2, AcknowledgeTyped DEF ReplayCompacted, Replaying
  <2> QED BY <1>11, <2>3 DEF ReplayCompacted, TypeOK, note_state, device_state, environment
<1>12. ASSUME RefuseReplay \/ RefuseGap \/ RefuseDirect \/ Respond
       PROVE  TypeInv'
  <2>1. /\ handler' = Idle /\ stages' \subseteq stages
        /\ UNCHANGED <<db, fileOps, files, cache, body, device_state, environment>>
    BY <1>12 DEF RefuseReplay, RefuseGap, RefuseDirect, Respond, note_state
  <2>2. handler' \in Handler /\ RequestInv'
    BY <2>1, HandlersTyped DEF RequestInv, At
  <2>3. stages' \subseteq Nat
    BY <2>1 DEF TypeOK
  <2> QED BY <2>1, <2>2, <2>3 DEF TypeOK, note_state, device_state, environment
<1>13. ASSUME Conflict
       PROVE  TypeInv'
  <2> DEFINE r == Outcome("conflict", CurrentRevision(db, Current.draft.note))
  <2>1. Working /\ handler.todo # <<>> /\ Consume(r) /\ Acknowledge(r)
    BY <1>13 DEF Conflict, Due, Working
  <2>2. r \in Result
    BY <2>1, OutcomeTyped
  <2> HIDE DEF r
  <2>3. handler' \in Handler /\ RequestInv'
    BY <2>1, <2>2, AcknowledgeTyped
  <2> QED BY <1>13, <2>1, <2>2, <2>3, ConsumeTyped DEF Conflict, TypeOK, note_state, environment
<1>14. ASSUME Noop
       PROVE  TypeInv'
  <2> DEFINE r == Outcome("applied", 0)
  <2>1. Working /\ handler.todo # <<>> /\ Consume(r) /\ Acknowledge(r)
    BY <1>14 DEF Noop, Due, Working
  <2>2. r \in Result
    BY <2>1, OutcomeTyped
  <2> HIDE DEF r
  <2>3. handler' \in Handler /\ RequestInv'
    BY <2>1, <2>2, AcknowledgeTyped
  <2> QED BY <1>14, <2>1, <2>2, <2>3, ConsumeTyped DEF Noop, TypeOK, note_state, environment
<1>15. ASSUME PinNote
       PROVE  TypeInv'
  <2>1. Working /\ handler.todo # <<>> /\ Consume(Written) /\ Acknowledge(Written)
    BY <1>15 DEF PinNote, Due, Working
  <2>2. Written \in Result /\ Current.draft.note \in Notes
    BY <2>1, OutcomeTyped, CurrentTyped
  <2>3. handler' \in Handler /\ RequestInv'
    BY <2>1, <2>2, AcknowledgeTyped
  <2>4. Counted(db')
    BY <1>15, <2>2, PinCounted DEF PinNote
  <2>5. db' \in Store
    BY <2>4 DEF Counted
  <2> QED BY <1>15, <2>1, <2>2, <2>3, <2>4, <2>5, ConsumeTyped DEF PinNote, TypeOK, environment, Counted
<1>16. ASSUME StageFile
       PROVE  TypeInv'
  <2>1. db.newest \in Nat
    BY DEF TypeOK, Store
  <2>2. stages' \subseteq Nat
    BY <1>16, <2>1 DEF StageFile, TypeOK
  <2>3. handler' \in Handler /\ RequestInv'
    BY <1>16 DEF StageFile, TypeOK, Handler, RequestInv, At, Due, Working
  <2> QED BY <1>16, <2>2, <2>3 DEF StageFile, TypeOK, device_state, environment
<1>17. ASSUME NEW action \in {"replace", "delete"}, NEW content \in Content,
              handler.todo # <<>>, Commit(action, content)
       PROVE  /\ stored' \subseteq [device : Devices, result : Result]
              /\ lastSequence' \in [Devices -> Nat]
              /\ applied' \subseteq Outcomes
              /\ fileOps' \subseteq FileOp
              /\ body' \in [Notes -> Content]
              /\ handler' \in Handler
              /\ RequestInv'
  <2> DEFINE f == [id |-> db.newest + 1, action |-> action, note |-> Current.draft.note,
                   body |-> content, failures |-> 0, quarantined |-> FALSE]
  <2>1. Written \in Result /\ Current.draft.note \in Notes /\ Tail(handler.todo) \in Seq(Operation)
    BY <1>17, OutcomeTyped, CurrentTyped
  <2>2. f \in FileOp
    BY <2>1 DEF FileOp, TypeOK, Store
  <2>3. /\ fileOps' = fileOps \cup {f}
        /\ handler' = [handler EXCEPT !.pc = "committed", !.pending = {f},
                                      !.todo = Tail(@), !.acks = @ \cup {Written}]
    BY <1>17 DEF Commit
  <2> HIDE DEF f
  <2>4. handler' \in Handler /\ RequestInv'
    BY <2>1, <2>2, <2>3 DEF TypeOK, Handler, RequestInv, At
  <2>5. body' \in [Notes -> Content]
    BY <1>17 DEF Commit, TypeOK
  <2> QED BY <1>17, <2>1, <2>2, <2>3, <2>4, <2>5, ConsumeTyped DEF Commit, TypeOK
<1>18. ASSUME CommitSave
       PROVE  TypeInv'
  <2> DEFINE n        == Current.draft.note
             pinOrder == IF Live(db, n) THEN db.rows[n].pinOrder
                         ELSE IF handler.source = "push" /\ Current.draft.pinned
                              THEN NextPinOrder(db) ELSE 0
  <2>0. handler.todo # <<>>
    BY <1>18 DEF CommitSave, RequestInv
  <2>1. n \in Notes /\ Current.draft.body \in Content
    BY <2>0, CurrentTyped
  <2>2. pinOrder \in Nat /\ pinOrder <= db.newest + 1
    <3>1. db.newest \in Nat /\ db.rows[n].pinOrder \in Nat /\ db.rows[n].pinOrder <= db.newest
      BY <2>1 DEF Counted, Store, Row
    <3>2. NextPinOrder(db) \in Nat /\ NextPinOrder(db) <= db.newest + 1
      BY NextPinOrderIsNew
    <3> HIDE DEF n
    <3> QED BY <3>1, <3>2
  <2>3. db' = Upsert(db, n, pinOrder) /\ Commit("replace", Current.draft.body)
    BY <1>18 DEF CommitSave
  <2> HIDE DEF n, pinOrder
  <2>4. Counted(db')
    BY <2>1, <2>2, <2>3, UpsertCounted
  <2>5. db' \in Store
    BY <2>4 DEF Counted
  <2> QED BY <1>17, <1>18, <2>0, <2>1, <2>3, <2>4, <2>5 DEF CommitSave, TypeOK, environment, Counted
<1>19. ASSUME Abort
       PROVE  TypeInv'
  <2>1. handler' \in Handler /\ RequestInv'
    BY <1>19, HandlersTyped DEF Abort, RequestInv, At
  <2>2. budget' \in [direct : Nat, rollbacks : Nat, faults : Nat, crashes : Nat]
    BY <1>19, SpentTyped DEF Abort
  <2>3. stages' \subseteq Nat
    BY <1>19 DEF Abort, TypeOK
  <2> QED BY <1>19, <2>1, <2>2, <2>3 DEF Abort, TypeOK, device_state
<1>20. ASSUME CommitDelete
       PROVE  TypeInv'
  <2>1. handler.todo # <<>> /\ Absent \in Content
    BY <1>20 DEF CommitDelete, Due, Working, Content
  <2>2. Counted(db')
    BY <1>20, <2>1, CurrentTyped, DeleteCounted DEF CommitDelete
  <2>3. db' \in Store
    BY <2>2 DEF Counted
  <2>4. Commit("delete", Absent)
    BY <1>20 DEF CommitDelete
  <2> QED BY <1>17, <1>20, <2>1, <2>2, <2>3, <2>4 DEF CommitDelete, TypeOK, environment, Counted
<1>21. ASSUME NEW f \in handler.pending, CompleteFile(f)
       PROVE  TypeInv'
  <2>1. f \in FileOp
    BY DEF TypeOK, Handler
  <2>2. files' \in [Notes -> Content] /\ stages' \subseteq Nat
    BY <1>21, <2>1, MovedTyped DEF CompleteFile
  <2>3. cache' \in [Notes -> Content]
    BY <1>21, <2>1 DEF CompleteFile, CacheSet, CacheDelete, FileOp, TypeOK, Content
  <2>4. handler' \in Handler /\ RequestInv'
    BY <1>21 DEF CompleteFile, TypeOK, Handler, RequestInv, At
  <2> QED BY <1>21, <2>2, <2>3, <2>4 DEF CompleteFile, TypeOK, device_state, environment
<1>22. ASSUME NEW f \in handler.pending, FailFile(f)
       PROVE  TypeInv'
  <2>1. f \in FileOp
    BY DEF TypeOK, Handler
  <2>2. /\ files' \in [Notes -> Content] /\ stages' \subseteq Nat
        /\ budget' \in [direct : Nat, rollbacks : Nat, faults : Nat, crashes : Nat]
    BY <1>22, <2>1, FaultyTyped DEF FailFile
  <2>3. handler' \in Handler /\ RequestInv'
    BY <1>22, HandlersTyped DEF FailFile, RequestInv, At
  <2> QED BY <1>22, <2>2, <2>3 DEF FailFile, TypeOK, device_state
<1>23. ASSUME Crash
       PROVE  TypeInv'
  <2>1. handler' \in Handler /\ RequestInv'
    BY <1>23, HandlersTyped DEF Crash, RequestInv, At
  <2>2. budget' \in [direct : Nat, rollbacks : Nat, faults : Nat, crashes : Nat]
    BY <1>23, SpentTyped DEF Crash
  <2>3. cache' \in [Notes -> Content]
    BY <1>23 DEF Crash, Content
  <2> QED BY <1>23, <2>1, <2>2, <2>3 DEF Crash, TypeOK, device_state
<1>24. ASSUME Start
       PROVE  TypeInv'
  <2>1. handler' \in Handler /\ RequestInv'
    BY <1>24, RecoveringTyped, EmptySeq DEF Start
  <2> QED BY <1>24, <2>1 DEF Start, TypeOK, note_state, device_state, environment
<1>25. CASE UNCHANGED vars
  BY <1>25 DEF vars, TypeOK, RequestInv, At
<1> QED
  BY <1>1, <1>2, <1>3, <1>4, <1>5, <1>6, <1>7, <1>8, <1>9, <1>10, <1>11, <1>12, <1>13, <1>14,
     <1>15, <1>16, <1>18, <1>19, <1>20, <1>21, <1>22, <1>23, <1>24, <1>25
     DEF Next, Devices_Next, Recovery, Operations

(* TypeOK holds in every reachable state. *)
THEOREM TypeCorrect == Spec => []TypeOK
<1>1. TypeInv => TypeOK
  BY DEF TypeInv
<1> QED BY <1>1, InitTyped, NextTyped, PTL DEF Spec

-----------------------------------------------------------------------------
(* Files. The content of every committed save survives because             *)
(*   - noteMu: while a request works on operations no recorded file        *)
(*     operation concerns a note of its batch, except the one it has just  *)
(*     committed (RequestsUnblocked);                                      *)
(*   - a file operation is recorded in the transaction that commits the    *)
(*     content, under a staged file of its own (FileOpsCurrent);           *)
(*   - a file that differs from its note's content has a file operation.   *)

RequestsUnblocked ==
  /\ At("recover") => handler.recovering \subseteq fileOps
  /\ At("operations") \/ At("staged") => ~AnyBlocked
  /\ At("staged") => Current.draft.type = "note.save" /\ db.newest + 1 \in stages
  /\ At("committed") =>
       \E f \in fileOps :
         /\ handler.pending = {f}
         /\ \A i \in 1 .. Len(handler.todo) : \A g \in fileOps \ {f} :
              handler.todo[i].draft.type # "noop" => g.note # handler.todo[i].draft.note

FileOpsCurrent ==
  /\ \A f \in fileOps :
       /\ f.id <= db.newest
       /\ f.body = body[f.note]
       /\ f.action = "delete" => f.body = Absent
       /\ CanComplete(f)
  /\ \A f, g \in fileOps : f.note = g.note \/ f.id = g.id => f = g

OutstandingRecorded ==
  \A n \in Notes : files[n] # body[n] => \E f \in fileOps : f.note = n

FilesInv == RequestsUnblocked /\ FileOpsCurrent /\ OutstandingRecorded

LEMMA InitFiles == Init => FilesInv
BY DEF Init, FilesInv, RequestsUnblocked, FileOpsCurrent, OutstandingRecorded, At, Idle

(* Every write takes the next place in the feed. *)
LEMMA NewestNext ==
  ASSUME NEW n, NEW pinOrder, NEW pinned
  PROVE  /\ Upsert(db, n, pinOrder).newest = db.newest + 1
         /\ Delete(db, n).newest = db.newest + 1
         /\ Pin(db, n, pinned).newest = db.newest + 1
BY DEF Upsert, Delete, Pin, Write

(* The first operation of a batch and the rest of it. *)
LEMMA CurrentUnblocked ==
  ASSUME TypeOK, handler.todo # <<>>, ~AnyBlocked
  PROVE  /\ Current.draft.type # "noop" => \A g \in fileOps : g.note # Current.draft.note
         /\ \A i \in 1 .. Len(Tail(handler.todo)) : \A g \in fileOps :
              Tail(handler.todo)[i].draft.type # "noop"
                => g.note # Tail(handler.todo)[i].draft.note
<1>1. handler.todo \in Seq(Operation)
  BY DEF TypeOK, Handler
<1>2. Len(handler.todo) \in Nat \ {0}
  BY <1>1, EmptySeq, LenProperties
<1>3. Current = handler.todo[1]
  BY <1>1 DEF Current
<1>4. \A i \in 1 .. Len(handler.todo) : \A g \in fileOps :
        handler.todo[i].draft.type # "noop" => g.note # handler.todo[i].draft.note
  BY DEF AnyBlocked, Blocked
<1>5. ASSUME NEW i \in 1 .. Len(Tail(handler.todo))
      PROVE  i + 1 \in 1 .. Len(handler.todo) /\ Tail(handler.todo)[i] = handler.todo[i + 1]
  <2>1. Len(Tail(handler.todo)) = Len(handler.todo) - 1
    BY <1>1, HeadTailProperties
  <2>2. Tail(handler.todo)[i] = handler.todo[i + 1]
    BY <1>1, HeadTailProperties
  <2> QED BY <1>2, <2>1, <2>2
<1> QED BY <1>2, <1>3, <1>4, <1>5

(* Working through a batch does not disturb the files. *)
LEMMA SameFiles ==
  ASSUME TypeInv, TypeInv', FilesInv, UNCHANGED <<fileOps, files, stages, body>>,
         db'.newest >= db.newest
  PROVE  FileOpsCurrent' /\ OutstandingRecorded'
<1>1. db.newest \in Nat /\ db'.newest \in Nat
  BY DEF TypeInv, TypeOK, Store
<1>2. \A f \in fileOps : f.id \in Nat
  BY DEF TypeInv, TypeOK, FileOp
<1> QED BY <1>1, <1>2 DEF FilesInv, FileOpsCurrent, OutstandingRecorded, CanComplete

LEMMA Acknowledged ==
  ASSUME TypeInv, TypeInv', FilesInv, Working, UNCHANGED <<fileOps, files, stages, body>>,
         db'.newest >= db.newest, NEW result, Acknowledge(result)
  PROVE  FilesInv'
<1>1. handler'.pc = "operations" /\ handler'.todo = Tail(handler.todo)
  BY DEF Acknowledge, Working, At, TypeInv, TypeOK, Handler
<1>2. ~AnyBlocked /\ handler.todo # <<>>
  BY DEF FilesInv, RequestsUnblocked, Working
<1>3. ~AnyBlocked'
  BY <1>1, <1>2, CurrentUnblocked DEF AnyBlocked, Blocked, TypeInv
<1> QED BY <1>1, <1>3, SameFiles DEF FilesInv, RequestsUnblocked, At

(* When a request ends, by its response or by a crash, nothing else changes. *)
LEMMA RequestEnded ==
  ASSUME TypeInv, TypeInv', FilesInv, UNCHANGED <<db, fileOps, files, stages, body>>,
         handler'.pc \in {"idle", "down"}
  PROVE  FilesInv'
<1>1. db.newest \in Nat
  BY DEF TypeInv, TypeOK, Store
<1>2. FileOpsCurrent' /\ OutstandingRecorded'
  BY <1>1, SameFiles
<1> QED BY <1>2 DEF FilesInv, RequestsUnblocked, At

(* A file operation is carried out: its own note's file becomes current, and *)
(* every recorded operation can still be carried out, this one included.     *)
LEMMA MovedFiles ==
  ASSUME TypeInv, FilesInv, NEW f \in fileOps, Moved(f), UNCHANGED body
  PROVE  /\ files'[f.note] = body[f.note]
         /\ \A n \in Notes \ {f.note} : files'[n] = files[n]
         /\ \A g \in fileOps : CanComplete(g)'
<1>1. f.note \in Notes /\ files \in [Notes -> Content]
  BY DEF TypeInv, TypeOK, FileOp
<1>2. f.body = body[f.note] /\ (f.action = "delete" => f.body = Absent) /\ CanComplete(f)
  BY DEF FilesInv, FileOpsCurrent
<1>3. f.action \in {"replace", "delete"}
  BY DEF TypeInv, TypeOK, FileOp
<1>4. files'[f.note] = body[f.note]
  BY <1>1, <1>2, <1>3 DEF Moved, CanComplete
<1>5. \A n \in Notes \ {f.note} : files'[n] = files[n]
  BY <1>1 DEF Moved
<1>6. ASSUME NEW g \in fileOps
      PROVE  CanComplete(g)'
  <2>1. CASE g = f
    BY <2>1, <1>2, <1>4 DEF CanComplete
  <2>2. CASE g # f
    <3>1. g.note # f.note /\ g.id # f.id /\ CanComplete(g) /\ g.note \in Notes
      BY <2>2 DEF FilesInv, FileOpsCurrent, TypeInv, TypeOK, FileOp
    <3> QED BY <3>1, <1>5 DEF CanComplete, Moved
  <2> QED BY <2>1, <2>2
<1> QED BY <1>4, <1>5, <1>6

(* A failing call leaves the files as they were, or as the operation makes   *)
(* them; the row stays.                                                      *)
LEMMA FaultyFiles ==
  ASSUME TypeInv, FilesInv, NEW f \in fileOps, Faulty(f), UNCHANGED body
  PROVE  /\ files'[f.note] \in {files[f.note], body[f.note]}
         /\ \A n \in Notes \ {f.note} : files'[n] = files[n]
         /\ \A g \in fileOps : CanComplete(g)'
<1>1. CanComplete(f)
  BY DEF FilesInv, FileOpsCurrent
<1>2. CASE UNCHANGED <<files, stages>>
  BY <1>2 DEF FilesInv, FileOpsCurrent, CanComplete
<1>3. CASE Moved(f)
  BY <1>3, MovedFiles
<1> QED BY <1>1, <1>2, <1>3 DEF Faulty

(* A commit records the file operation that its content needs. *)
LEMMA CommitFiles ==
  ASSUME TypeInv, TypeInv', FilesInv, handler.todo # <<>>, ~AnyBlocked,
         Current.draft.type # "noop",
         NEW action \in {"replace", "delete"}, NEW content \in Content,
         action = "delete" => content = Absent,
         action = "replace" => db.newest + 1 \in stages,
         Commit(action, content), db'.newest = db.newest + 1, UNCHANGED <<files, stages>>
  PROVE  FilesInv'
<1> DEFINE f == [id |-> db.newest + 1, action |-> action, note |-> Current.draft.note,
                 body |-> content, failures |-> 0, quarantined |-> FALSE]
           n == Current.draft.note
<1>1. /\ fileOps' = fileOps \cup {f}
      /\ body' = [body EXCEPT ![n] = content]
      /\ handler' = [handler EXCEPT !.pc = "committed", !.pending = {f},
                                    !.todo = Tail(@), !.acks = @ \cup {Written}]
  BY DEF Commit
<1>2. f.id = db.newest + 1 /\ f.action = action /\ f.note = n /\ f.body = content
  OBVIOUS
<1> HIDE DEF f
<1>3. n \in Notes /\ db.newest \in Nat /\ body \in [Notes -> Content]
  BY CurrentTyped DEF TypeInv, TypeOK, Store
<1>4. \A g \in fileOps : g.note # n /\ g.id \in Nat /\ g.id <= db.newest /\ g.note \in Notes
  BY CurrentUnblocked DEF TypeInv, TypeOK, FileOp, FilesInv, FileOpsCurrent
<1>5. body'[n] = content /\ \A m \in Notes \ {n} : body'[m] = body[m]
  BY <1>1, <1>3
<1>6. f \notin fileOps /\ f \in fileOps'
  BY <1>1, <1>2, <1>4
<1>7. FileOpsCurrent'
  <2>1. ASSUME NEW g \in fileOps'
        PROVE  /\ g.id <= db'.newest /\ g.body = body'[g.note]
               /\ g.action = "delete" => g.body = Absent
               /\ CanComplete(g)'
    <3>1. CASE g = f
      BY <3>1, <1>2, <1>3, <1>5 DEF CanComplete
    <3>2. CASE g \in fileOps
      BY <3>2, <1>3, <1>4, <1>5 DEF FilesInv, FileOpsCurrent, CanComplete
    <3> QED BY <1>1, <3>1, <3>2
  <2>2. ASSUME NEW g \in fileOps', NEW h \in fileOps', g.note = h.note \/ g.id = h.id
        PROVE  g = h
    <3>1. CASE g \in fileOps /\ h \in fileOps
      BY <2>2, <3>1 DEF FilesInv, FileOpsCurrent
    <3>2. CASE (g = f /\ h \in fileOps) \/ (g \in fileOps /\ h = f)
      BY <2>2, <3>2, <1>2, <1>3, <1>4
    <3> QED BY <1>1, <3>1, <3>2
  <2> QED BY <2>1, <2>2 DEF FileOpsCurrent
<1>8. OutstandingRecorded'
  BY <1>1, <1>2, <1>5 DEF FilesInv, OutstandingRecorded
<1>9. RequestsUnblocked'
  <2>1. handler'.pc = "committed" /\ handler'.pending = {f} /\ handler'.todo = Tail(handler.todo)
    BY <1>1 DEF TypeInv, TypeOK, Handler
  <2>2. \A i \in 1 .. Len(handler'.todo) : \A g \in fileOps' \ {f} :
          handler'.todo[i].draft.type # "noop" => g.note # handler'.todo[i].draft.note
    BY <1>1, <2>1, CurrentUnblocked DEF TypeInv
  <2> QED BY <1>6, <2>1, <2>2 DEF RequestsUnblocked, At
<1> QED BY <1>7, <1>8, <1>9 DEF FilesInv

(* Every step keeps the files and the file operations in step. *)
LEMMA NextFiles == TypeInv /\ FilesInv /\ [Next]_vars => FilesInv'
<1> SUFFICES ASSUME TypeInv, TypeInv', FilesInv, [Next]_vars PROVE FilesInv'
  BY NextTyped
<1>0. db.newest \in Nat
  BY DEF TypeInv, TypeOK, Store
<1>1. ASSUME UNCHANGED <<db, fileOps, files, stages, body, handler>>
      PROVE  FilesInv'
  <2>1. FileOpsCurrent' /\ OutstandingRecorded'
    BY <1>0, <1>1, SameFiles
  <2>2. RequestsUnblocked'
    BY <1>1 DEF FilesInv, RequestsUnblocked, At, AnyBlocked, Blocked, Current
  <2> QED BY <2>1, <2>2 DEF FilesInv
<1>2. ASSUME NEW source, NEW device, NEW todo, handler' = Recovering(source, device, todo),
             UNCHANGED note_state
      PROVE  FilesInv'
  <2>1. FileOpsCurrent' /\ OutstandingRecorded'
    BY <1>0, <1>2, SameFiles DEF note_state
  <2>2. handler'.pc = "recover" /\ handler'.recovering \subseteq fileOps
    BY <1>2 DEF Recovering, Idle, Unquarantined
  <2> QED BY <1>2, <2>1, <2>2 DEF FilesInv, RequestsUnblocked, At, note_state
<1>3. ASSUME NEW f \in handler.recovering, RecoverOne(f)
      PROVE  FilesInv'
  <2>1. f \in fileOps /\ handler.recovering \subseteq fileOps /\ At("recover")
    BY <1>3 DEF RecoverOne, FilesInv, RequestsUnblocked
  <2>2. /\ files'[f.note] = body[f.note]
        /\ \A n \in Notes \ {f.note} : files'[n] = files[n]
        /\ \A g \in fileOps : CanComplete(g)'
    BY <1>3, <2>1, MovedFiles DEF RecoverOne
  <2>3. FileOpsCurrent'
    BY <1>3, <2>2 DEF RecoverOne, FilesInv, FileOpsCurrent
  <2>4. OutstandingRecorded'
    BY <1>3, <2>2 DEF RecoverOne, FilesInv, OutstandingRecorded
  <2>5. handler'.pc = "recover" /\ handler'.recovering = handler.recovering \ {f}
    BY <1>3 DEF RecoverOne, At, TypeInv, TypeOK, Handler
  <2> QED BY <1>3, <2>1, <2>3, <2>4, <2>5 DEF FilesInv, RequestsUnblocked, At, RecoverOne
<1>4. ASSUME NEW f \in handler.recovering, RecordFailure(f)
      PROVE  FilesInv'
  <2> DEFINE again == [f EXCEPT !.failures = @ + 1,
                                !.quarantined = f.failures + 1 >= QuarantineAfter]
  <2>1. f \in fileOps /\ handler.recovering \subseteq fileOps /\ At("recover")
    BY <1>4 DEF RecordFailure, FilesInv, RequestsUnblocked
  <2>2. /\ files'[f.note] \in {files[f.note], body[f.note]}
        /\ \A n \in Notes \ {f.note} : files'[n] = files[n]
        /\ \A g \in fileOps : CanComplete(g)'
    BY <1>4, <2>1, FaultyFiles DEF RecordFailure
  <2>3. /\ again.id = f.id /\ again.note = f.note /\ again.body = f.body
        /\ again.action = f.action
        /\ fileOps' = (fileOps \ {f}) \cup {again}
    BY <1>4, <2>1 DEF RecordFailure, TypeInv, TypeOK, FileOp
  <2> HIDE DEF again
  <2>4. CanComplete(again)'
    BY <2>1, <2>2, <2>3 DEF CanComplete
  <2>5. FileOpsCurrent'
    BY <1>4, <2>1, <2>2, <2>3, <2>4 DEF RecordFailure, FilesInv, FileOpsCurrent
  <2>6. OutstandingRecorded'
    BY <1>4, <2>1, <2>2, <2>3 DEF RecordFailure, FilesInv, OutstandingRecorded
  <2>7. handler'.pc = "recover" /\ handler'.recovering = handler.recovering \ {f}
    BY <1>4 DEF RecordFailure, At, TypeInv, TypeOK, Handler
  <2> QED BY <2>1, <2>3, <2>5, <2>6, <2>7 DEF FilesInv, RequestsUnblocked, At
<1>5. ASSUME FinishRecovery
      PROVE  FilesInv'
  <2>1. /\ stages' = stages \cap {f.id : f \in fileOps}
        /\ UNCHANGED <<db, fileOps, files, body>>
    BY <1>5 DEF FinishRecovery, Referenced
  <2>2. FileOpsCurrent'
    BY <2>1 DEF FilesInv, FileOpsCurrent, CanComplete
  <2>3. OutstandingRecorded'
    BY <2>1 DEF FilesInv, OutstandingRecorded
  <2>4. CASE handler' = Idle
    BY <2>4, <2>2, <2>3 DEF FilesInv, RequestsUnblocked, At, Idle
  <2>5. CASE handler' = [handler EXCEPT !.pc = "operations"] /\ ~AnyBlocked
    <3>1. handler'.pc = "operations" /\ handler'.todo = handler.todo
      BY <2>5 DEF TypeInv, TypeOK, Handler
    <3>2. ~AnyBlocked'
      BY <2>1, <2>5, <3>1 DEF AnyBlocked, Blocked
    <3> QED BY <2>2, <2>3, <3>1, <3>2 DEF FilesInv, RequestsUnblocked, At
  <2> QED BY <1>5, <2>4, <2>5 DEF FinishRecovery
<1>6. ASSUME FailRecovery \/ RefuseReplay \/ RefuseGap \/ Respond \/ Crash
      PROVE  FilesInv'
  <2>1. UNCHANGED <<db, fileOps, files, stages, body>> /\ handler' \in {Idle, Down}
    BY <1>6 DEF FailRecovery, RefuseReplay, RefuseGap, Respond, Crash, note_state
  <2> QED BY <2>1, HandlersTyped, RequestEnded
<1>7. ASSUME ReplayStored \/ ReplayCompacted \/ Conflict \/ Noop
      PROVE  FilesInv'
  <2>1. Working /\ UNCHANGED note_state /\ \E result : Acknowledge(result)
    BY <1>7 DEF ReplayStored, ReplayCompacted, Conflict, Noop, Replaying, Due
  <2> QED BY <1>0, <2>1, Acknowledged DEF note_state
<1>8. ASSUME PinNote
      PROVE  FilesInv'
  <2>1. Working /\ UNCHANGED <<fileOps, files, stages, body>> /\ Acknowledge(Written)
    BY <1>8 DEF PinNote, Due
  <2>2. db'.newest = db.newest + 1
    BY <1>8, NewestNext DEF PinNote
  <2> QED BY <1>0, <2>1, <2>2, Acknowledged
<1>9. ASSUME StageFile
      PROVE  FilesInv'
  <2>1. /\ stages' = stages \cup {db.newest + 1}
        /\ UNCHANGED <<db, fileOps, files, body>>
        /\ handler'.pc = "staged" /\ handler'.todo = handler.todo
        /\ At("operations") /\ Current.draft.type = "note.save"
    BY <1>9 DEF StageFile, Due, Working, TypeInv, TypeOK, Handler
  <2>2. FileOpsCurrent' /\ OutstandingRecorded'
    BY <2>1 DEF FilesInv, FileOpsCurrent, OutstandingRecorded, CanComplete
  <2>3. ~AnyBlocked'
    BY <2>1 DEF FilesInv, RequestsUnblocked, AnyBlocked, Blocked
  <2>4. Current' = Current
    BY <2>1 DEF Current
  <2> QED BY <2>1, <2>2, <2>3, <2>4 DEF FilesInv, RequestsUnblocked, At
<1>10. ASSUME CommitSave
       PROVE  FilesInv'
  <2>1. /\ handler.todo # <<>> /\ ~AnyBlocked
        /\ Current.draft.type = "note.save" /\ db.newest + 1 \in stages
    BY <1>10 DEF CommitSave, FilesInv, RequestsUnblocked, TypeInv, RequestInv
  <2>2. Current.draft.body \in Content
    BY <2>1, CurrentTyped DEF TypeInv
  <2>3. /\ Commit("replace", Current.draft.body) /\ db'.newest = db.newest + 1
        /\ UNCHANGED <<files, stages>>
    BY <1>10, NewestNext DEF CommitSave
  <2> QED BY <2>1, <2>2, <2>3, CommitFiles
<1>11. ASSUME Abort \/ RefuseDirect
       PROVE  FilesInv'
  <2>1. /\ UNCHANGED <<db, fileOps, files, body>> /\ handler' = Idle
        /\ stages \ {db.newest + 1} \subseteq stages' /\ stages' \subseteq stages
    BY <1>11 DEF Abort, RefuseDirect
  <2>2. \A f \in fileOps : f.id # db.newest + 1
    BY <1>0 DEF FilesInv, FileOpsCurrent, TypeInv, TypeOK, FileOp
  <2>3. FileOpsCurrent' /\ OutstandingRecorded'
    BY <2>1, <2>2 DEF FilesInv, FileOpsCurrent, OutstandingRecorded, CanComplete
  <2> QED BY <2>1, <2>3 DEF FilesInv, RequestsUnblocked, At, Idle
<1>12. ASSUME CommitDelete
       PROVE  FilesInv'
  <2>1. /\ handler.todo # <<>> /\ ~AnyBlocked
        /\ Current.draft.type = "note.delete" /\ Absent \in Content
    BY <1>12 DEF CommitDelete, Due, Working, FilesInv, RequestsUnblocked, Content
  <2>2. /\ Commit("delete", Absent) /\ db'.newest = db.newest + 1
        /\ UNCHANGED <<files, stages>>
    BY <1>12, NewestNext DEF CommitDelete
  <2> QED BY <2>1, <2>2, CommitFiles
<1>13. ASSUME NEW f \in handler.pending, CompleteFile(f)
       PROVE  FilesInv'
  <2>1. /\ f \in fileOps
        /\ \A i \in 1 .. Len(handler.todo) : \A g \in fileOps \ {f} :
             handler.todo[i].draft.type # "noop" => g.note # handler.todo[i].draft.note
    BY <1>13 DEF CompleteFile, FilesInv, RequestsUnblocked
  <2>2. /\ files'[f.note] = body[f.note]
        /\ \A n \in Notes \ {f.note} : files'[n] = files[n]
        /\ \A g \in fileOps : CanComplete(g)'
    BY <1>13, <2>1, MovedFiles DEF CompleteFile
  <2>3. FileOpsCurrent'
    BY <1>13, <2>2 DEF CompleteFile, FilesInv, FileOpsCurrent
  <2>4. OutstandingRecorded'
    BY <1>13, <2>2 DEF CompleteFile, FilesInv, OutstandingRecorded
  <2>5. handler'.pc = "operations" /\ handler'.todo = handler.todo /\ fileOps' = fileOps \ {f}
    BY <1>13 DEF CompleteFile, TypeInv, TypeOK, Handler
  <2>6. ~AnyBlocked'
    BY <2>1, <2>5 DEF AnyBlocked, Blocked
  <2> QED BY <2>3, <2>4, <2>5, <2>6 DEF FilesInv, RequestsUnblocked, At
<1>14. ASSUME NEW f \in handler.pending, FailFile(f)
       PROVE  FilesInv'
  <2>1. f \in fileOps
    BY <1>14 DEF FailFile, FilesInv, RequestsUnblocked
  <2>2. /\ files'[f.note] \in {files[f.note], body[f.note]}
        /\ \A n \in Notes \ {f.note} : files'[n] = files[n]
        /\ \A g \in fileOps : CanComplete(g)'
    BY <1>14, <2>1, FaultyFiles DEF FailFile
  <2>3. FileOpsCurrent'
    BY <1>14, <2>2 DEF FailFile, FilesInv, FileOpsCurrent
  <2>4. OutstandingRecorded'
    BY <1>14, <2>1, <2>2 DEF FailFile, FilesInv, OutstandingRecorded
  <2>5. handler' = Idle
    BY <1>14 DEF FailFile
  <2> QED BY <2>3, <2>4, <2>5 DEF FilesInv, RequestsUnblocked, At, Idle
<1>15. CASE Devices_Next
  <2>1. CASE \E d \in Devices, draft \in Drafts : Enqueue(d, draft)
    BY <2>1, <1>1 DEF Enqueue, note_state
  <2>2. CASE \E d \in Devices : \E kept \in 0 .. Len(outbox[d]) : RestoreProfile(d, kept)
    BY <2>2, <1>1 DEF RestoreProfile, note_state
  <2>3. CASE \E d \in Devices : \E from, to \in 1 .. Len(outbox[d]) : Push(d, from, to)
    BY <2>3, <1>2 DEF Push
  <2>4. CASE \E draft \in Drafts : DirectWrite(draft)
    BY <2>4, <1>2 DEF DirectWrite
  <2>5. CASE \E n \in Notes : ReadNote(n)
    BY <2>5, <1>1 DEF ReadNote
  <2> QED BY <1>15, <2>1, <2>2, <2>3, <2>4, <2>5 DEF Devices_Next
<1>16. CASE Recovery
  BY <1>16, <1>3, <1>4, <1>5, <1>6 DEF Recovery
<1>17. CASE Operations
  BY <1>17, <1>6, <1>7, <1>8, <1>9, <1>10, <1>11, <1>12, <1>13, <1>14 DEF Operations
<1>18. CASE Start
  BY <1>18, <1>2 DEF Start
<1>19. CASE UNCHANGED vars
  BY <1>19, <1>1 DEF vars
<1> QED BY <1>6, <1>15, <1>16, <1>17, <1>18, <1>19 DEF Next

LEMMA InvariantFiles == Spec => [](TypeInv /\ FilesInv)
BY InitTyped, InitFiles, NextTyped, NextFiles, PTL DEF Spec

(* The content of the last committed save is on its way to the file, in      *)
(* every state that crashes and failing file system calls can leave.         *)
THEOREM ContentIsDurable == Spec => []ContentDurable
<1>1. TypeInv /\ FilesInv => ContentDurable
  <2> SUFFICES ASSUME FilesInv, NEW n \in Notes, files[n] # body[n]
               PROVE  \E f \in fileOps : f.note = n /\ f.body = body[n] /\ CanComplete(f)
    BY DEF ContentDurable
  <2>1. PICK f \in fileOps : f.note = n
    BY DEF FilesInv, OutstandingRecorded
  <2> QED BY <2>1 DEF FilesInv, FileOpsCurrent
<1> QED BY <1>1, InvariantFiles, PTL

(* A note never has two file operations: recovery may take them in any order. *)
THEOREM FileOperationsUnique == Spec => []OneFileOperationPerNote
<1>1. FilesInv => OneFileOperationPerNote
  BY DEF FilesInv, FileOpsCurrent, OneFileOperationPerNote
<1> QED BY <1>1, InvariantFiles, PTL

-----------------------------------------------------------------------------
(* What devices rely on when they push (every operation is consumed exactly  *)
(* once and every acknowledgement is true, whatever is repeated, delayed,    *)
(* restored or interrupted), what readers of the change feed rely on, and    *)
(* that every step of the server is a step of SyncContract under the         *)
(* refinement mapping, or a stutter.                                         *)

(* An identifier is handed out once. A restored browser profile drops        *)
(* operations from its queue and never gets their identifiers back.          *)
IdentifiersFresh ==
  \A d \in Devices : \A i \in 1 .. Len(outbox[d]) :
    /\ outbox[d][i].id <= issued
    /\ \A j \in 1 .. Len(outbox[d]) : outbox[d][i].id = outbox[d][j].id => i = j
    /\ \A a \in Pushed(d) : a.result.id = outbox[d][i].id => a.result.sequence = i

(* A consumed identifier has been handed out. *)
ConsumedIssued == \A d \in Devices : \A a \in Pushed(d) : a.result.id <= issued

(* A retained acknowledgement is the outcome of the operation it names. *)
StoredTrue == \A s \in stored : \E a \in applied : a.device = s.device /\ a.result = s.result

(* A push in progress carries operations of its device's queue. *)
BatchQueued ==
  handler.source = "push" =>
    \A i \in 1 .. Len(handler.todo) :
      /\ handler.todo[i].sequence \in 1 .. Len(outbox[handler.device])
      /\ handler.todo[i].id = outbox[handler.device][handler.todo[i].sequence].id

(* Only a push speaks for a device. *)
DirectIsNoDevice == handler.source # "push" => handler.device = Direct

(* The queues change only while no request is in progress. *)
IdleIsNoPush == At("idle") => handler.source # "push"

(* A staged file belongs to the next operation of its device. *)
CurrentIsNext == handler.source = "push" => Current.sequence = lastSequence[handler.device] + 1

StagedIsNext == At("staged") => CurrentIsNext

(* AcknowledgementsTrue, with the range that keeps the queue's positions.    *)
AcknowledgedQueued ==
  handler.source = "push" =>
    \A r \in handler.acks : r.sequence \in 1 .. Len(outbox[handler.device])

PushInv ==
  /\ IdentifiersFresh
  /\ ConsumedIssued
  /\ StoredTrue
  /\ BatchQueued
  /\ DirectIsNoDevice
  /\ IdleIsNoPush
  /\ StagedIsNext
  /\ AcknowledgedQueued
  /\ ExactlyOnce
  /\ AcknowledgementsTrue

LEMMA InitPush == Init => PushInv
<1> SUFFICES ASSUME Init PROVE PushInv
  OBVIOUS
<1>1. handler.source = "startup" /\ handler.device = Direct /\ handler.pc = "idle"
  BY DEF Init, Idle
<1>2. \A d \in Devices : Len(outbox[d]) = 0 /\ lastSequence[d] = 0
  BY EmptySeq DEF Init
<1>3. applied = {} /\ stored = {}
  BY DEF Init
<1>4. \A d \in Devices : Pushed(d) = {}
  BY <1>3 DEF Pushed
<1>5. IdentifiersFresh /\ ConsumedIssued /\ StoredTrue /\ ExactlyOnce
  BY <1>2, <1>3, <1>4 DEF IdentifiersFresh, ConsumedIssued, StoredTrue, ExactlyOnce
<1>6. /\ BatchQueued /\ DirectIsNoDevice /\ IdleIsNoPush /\ StagedIsNext
      /\ AcknowledgedQueued /\ AcknowledgementsTrue
  BY <1>1 DEF BatchQueued, DirectIsNoDevice, IdleIsNoPush, StagedIsNext, AcknowledgedQueued,
              AcknowledgementsTrue, At
<1> QED BY <1>5, <1>6 DEF PushInv

(* Parts of the invariant that do not look at the request in progress. *)
LEMMA SameDevices ==
  ASSUME PushInv, UNCHANGED <<outbox, issued, device_state>>
  PROVE  /\ IdentifiersFresh' /\ ConsumedIssued' /\ StoredTrue' /\ ExactlyOnce'
BY DEF PushInv, device_state, IdentifiersFresh, ConsumedIssued, StoredTrue, ExactlyOnce, Pushed

(* A request ends, or begins with nothing acknowledged. *)
LEMMA OtherRequest ==
  ASSUME PushInv, UNCHANGED <<outbox, issued, device_state>>,
         handler'.acks = {}, BatchQueued', DirectIsNoDevice', IdleIsNoPush',
         ~At("staged")'
  PROVE  PushInv'
BY SameDevices DEF PushInv, AcknowledgedQueued, AcknowledgementsTrue, StagedIsNext

(* The request in progress goes on with the same operations. *)
LEMMA SameRequest ==
  ASSUME PushInv, UNCHANGED <<outbox, issued, device_state>>,
         handler'.source = handler.source, handler'.device = handler.device,
         handler'.todo = handler.todo, handler'.acks = handler.acks,
         handler'.pc = "idle" => handler.pc = "idle",
         handler'.pc = "staged" => handler.pc = "staged" \/ CurrentIsNext
  PROVE  PushInv'
<1>1. /\ BatchQueued' /\ DirectIsNoDevice' /\ IdleIsNoPush' /\ StagedIsNext'
      /\ AcknowledgedQueued' /\ AcknowledgementsTrue'
  BY DEF PushInv, BatchQueued, DirectIsNoDevice, IdleIsNoPush, StagedIsNext, CurrentIsNext,
         AcknowledgedQueued, AcknowledgementsTrue, At, Current, device_state
<1> QED BY <1>1, SameDevices DEF PushInv

LEMMA RequestsIdle ==
  /\ Idle.acks = {} /\ Idle.source = "startup" /\ Idle.device = Direct /\ Idle.pc = "idle"
  /\ Down.acks = {} /\ Down.source = "startup" /\ Down.device = Direct /\ Down.pc = "down"
BY DEF Idle, Down

LEMMA RequestOver ==
  ASSUME PushInv, UNCHANGED <<outbox, issued, device_state>>, handler' \in {Idle, Down}
  PROVE  PushInv'
<1>1. BatchQueued' /\ DirectIsNoDevice' /\ IdleIsNoPush' /\ handler'.acks = {}
      /\ ~At("staged")'
  BY RequestsIdle DEF BatchQueued, DirectIsNoDevice, IdleIsNoPush, At
<1> QED BY <1>1, OtherRequest

(* The first operation of a push is in the queue, and so is the rest. *)
LEMMA CurrentQueued ==
  ASSUME TypeInv, BatchQueued, handler.source = "push", handler.todo # <<>>
  PROVE  /\ Current.sequence \in 1 .. Len(outbox[handler.device])
         /\ Current.id = outbox[handler.device][Current.sequence].id
         /\ \A i \in 1 .. Len(Tail(handler.todo)) :
              /\ Tail(handler.todo)[i].sequence \in 1 .. Len(outbox[handler.device])
              /\ Tail(handler.todo)[i].id
                   = outbox[handler.device][Tail(handler.todo)[i].sequence].id
<1>1. handler.todo \in Seq(Operation)
  BY DEF TypeInv, TypeOK, Handler
<1>2. Len(handler.todo) \in Nat \ {0}
  BY <1>1, EmptySeq, LenProperties
<1>3. Current = handler.todo[1]
  BY <1>1 DEF Current
<1>4. ASSUME NEW i \in 1 .. Len(Tail(handler.todo))
      PROVE  i + 1 \in 1 .. Len(handler.todo) /\ Tail(handler.todo)[i] = handler.todo[i + 1]
  <2>1. Len(Tail(handler.todo)) = Len(handler.todo) - 1
    BY <1>1, HeadTailProperties
  <2>2. Tail(handler.todo)[i] = handler.todo[i + 1]
    BY <1>1, HeadTailProperties
  <2> QED BY <1>2, <2>1, <2>2
<1>5. 1 \in 1 .. Len(handler.todo)
  BY <1>2
<1> QED BY <1>3, <1>4, <1>5 DEF BatchQueued

(* The next operation of the batch is acknowledged. *)
LEMMA AcknowledgedNext ==
  ASSUME TypeInv, PushInv, handler.todo # <<>>, NEW result, handler'.source = handler.source,
         handler'.device = handler.device, handler'.todo = Tail(handler.todo),
         handler'.acks = handler.acks \cup {result},
         UNCHANGED outbox,
         result.sequence = Current.sequence, result.id = Current.id,
         handler.source = "push" =>
           /\ \A e \in Devices : lastSequence'[e] \in Nat /\ lastSequence[e] <= lastSequence'[e]
           /\ applied \subseteq applied'
           /\ result.sequence <= lastSequence'[handler.device]
           /\ result.status # "compacted" =>
                \E a \in applied' : a.device = handler.device /\ a.result = result
  PROVE  BatchQueued' /\ DirectIsNoDevice' /\ AcknowledgedQueued' /\ AcknowledgementsTrue'
<1>1. CASE handler.source # "push"
  BY <1>1 DEF PushInv, BatchQueued, DirectIsNoDevice, AcknowledgedQueued, AcknowledgementsTrue
<1>2. CASE handler.source = "push"
  <2> DEFINE d == handler.device
  <2>1. d \in Devices /\ outbox \in [Devices -> Seq([id : Nat, draft : Drafts])]
        /\ lastSequence[d] \in Nat
    BY <1>2 DEF TypeInv, TypeOK, RequestInv
  <2>2. /\ Current.sequence \in 1 .. Len(outbox[d])
        /\ Current.id = outbox[d][Current.sequence].id
        /\ BatchQueued'
    BY <1>2, CurrentQueued DEF PushInv, BatchQueued
  <2>3. AcknowledgedQueued'
    BY <1>2, <2>2 DEF PushInv, AcknowledgedQueued
  <2>4. ASSUME NEW r \in handler'.acks
        PROVE  /\ r.sequence <= lastSequence'[d]
               /\ r.id = outbox[d][r.sequence].id
               /\ r.status # "compacted" => \E a \in applied' : a.device = d /\ a.result = r
    <3>1. CASE r = result
      BY <3>1, <1>2, <2>2
    <3>2. CASE r \in handler.acks
      <4>1. /\ r.sequence <= lastSequence[d] /\ r.id = outbox[d][r.sequence].id
            /\ r.status # "compacted" => \E a \in applied : a.device = d /\ a.result = r
        BY <1>2, <3>2 DEF PushInv, AcknowledgementsTrue
      <4>2. r.sequence \in Nat
        BY <3>2 DEF TypeInv, TypeOK, Handler, Result
      <4>3. lastSequence'[d] \in Nat /\ lastSequence[d] <= lastSequence'[d] /\ applied \subseteq applied'
        BY <1>2, <2>1
      <4> HIDE DEF d
      <4> QED BY <2>1, <4>1, <4>2, <4>3
    <3> QED BY <3>1, <3>2
  <2>5. AcknowledgementsTrue'
    BY <1>2, <2>4 DEF AcknowledgementsTrue
  <2> QED BY <1>2, <2>2, <2>3, <2>5 DEF DirectIsNoDevice
<1> QED BY <1>1, <1>2

(* An operation is consumed: its sequence is the next one, and its           *)
(* identifier has not been consumed before, because no other position of the *)
(* queue has it.                                                             *)
LEMMA Consumed ==
  ASSUME TypeInv, TypeInv', PushInv, handler.todo # <<>>, CurrentIsNext, NEW result \in Result, Consume(result),
         result.sequence = Current.sequence, result.id = Current.id,
         result.status # "compacted",
         UNCHANGED <<outbox, issued>>,
         handler'.source = handler.source, handler'.device = handler.device,
         handler'.todo = Tail(handler.todo), handler'.acks = handler.acks \cup {result},
         handler'.pc \notin {"idle", "staged"}
  PROVE  PushInv'
<1> DEFINE d   == handler.device
           new == [device |-> handler.device, result |-> result,
                   note |-> Current.draft.note, type |-> Current.draft.type]
<1>1. applied' = applied \cup {new}
  BY DEF Consume
<1>2. new.device = d /\ new.result = result
  OBVIOUS
<1> HIDE DEF new
<1>4. CASE handler.source # "push"
  <2>1. d \notin Devices
    BY <1>4, NamesAssumption DEF PushInv, DirectIsNoDevice
  <2>2. \A e \in Devices : Pushed(e)' = Pushed(e)
    BY <1>1, <1>2, <2>1 DEF Pushed
  <2>3. UNCHANGED <<stored, lastSequence>>
    BY <1>4 DEF Consume
  <2>4. IdentifiersFresh' /\ ConsumedIssued' /\ ExactlyOnce'
    BY <2>2, <2>3 DEF PushInv, IdentifiersFresh, ConsumedIssued, ExactlyOnce
  <2>5. StoredTrue'
    BY <1>1, <2>3 DEF PushInv, StoredTrue
  <2>6. BatchQueued' /\ DirectIsNoDevice' /\ AcknowledgedQueued' /\ AcknowledgementsTrue'
    BY <1>4, AcknowledgedNext
  <2> QED BY <2>4, <2>5, <2>6 DEF PushInv, IdleIsNoPush, StagedIsNext, At
<1>5. CASE handler.source = "push"
  <2>1. /\ d \in Devices /\ lastSequence \in [Devices -> Nat]
        /\ outbox \in [Devices -> Seq([id : Nat, draft : Drafts])]
    BY <1>5 DEF TypeInv, TypeOK, RequestInv
  <2> DEFINE s == Current.sequence
  <2>2. /\ s \in 1 .. Len(outbox[d]) /\ Current.id = outbox[d][s].id
        /\ s = lastSequence[d] + 1
    BY <1>5, CurrentQueued DEF PushInv, CurrentIsNext
  <2>3. /\ lastSequence' = [lastSequence EXCEPT ![d] = s]
        /\ stored' \in Compactions(stored \cup {[device |-> d, result |-> result]})
    BY <1>5 DEF Consume
  <2>4. lastSequence'[d] = s /\ \A e \in Devices \ {d} : lastSequence'[e] = lastSequence[e]
    BY <2>1, <2>3
  <2>5. stored' \subseteq stored \cup {[device |-> d, result |-> result]}
    BY <2>3, CompactionsShrink
  <2>6. /\ Pushed(d)' = Pushed(d) \cup {new}
        /\ \A e \in Devices \ {d} : Pushed(e)' = Pushed(e)
    BY <1>1, <1>2 DEF Pushed
  <2>17. \A e \in Devices : \A a \in Pushed(e)' : a \in Pushed(e) \/ (e = d /\ a = new)
    BY <1>1, <1>2 DEF Pushed
  <2>18. d' = d
    OBVIOUS
  <2>7. s \in Nat /\ lastSequence[d] \in Nat
    BY <2>1, <2>2
  <2> HIDE DEF d, s
  <2>8. \A a \in Pushed(d) : a.result.sequence \in 1 .. lastSequence[d]
    BY <2>1 DEF PushInv, ExactlyOnce
  <2>9. \A a \in Pushed(d) : a.result.sequence # s /\ a.result.id # Current.id
    <3> TAKE a \in Pushed(d)
    <3>1. a.result.sequence # s
      BY <2>2, <2>7, <2>8
    <3>2. a.result.id = outbox[d][s].id => a.result.sequence = s
      BY <2>1, <2>2 DEF PushInv, IdentifiersFresh
    <3> QED BY <2>2, <3>1, <3>2
  <2>10. new.result.sequence = s /\ new.result.id = Current.id
    BY <1>2 DEF s
  <2>11. ExactlyOnce'
    <3>1. ASSUME NEW e \in Devices \ {d}
          PROVE  /\ {a.result.sequence : a \in Pushed(e)'} = 1 .. lastSequence'[e]
                 /\ \A a, b \in Pushed(e)' :
                      a.result.sequence = b.result.sequence \/ a.result.id = b.result.id => a = b
      BY <2>4, <2>6 DEF PushInv, ExactlyOnce
    <3>2. {a.result.sequence : a \in Pushed(d)'} = 1 .. lastSequence'[d]
      <4>1. {a.result.sequence : a \in Pushed(d)} = 1 .. lastSequence[d]
        BY <2>1 DEF PushInv, ExactlyOnce
      <4>2. {a.result.sequence : a \in Pushed(d)'}
              = {a.result.sequence : a \in Pushed(d)} \cup {s}
        BY <2>6, <2>10
      <4>3. (1 .. lastSequence[d]) \cup {s} = 1 .. s
        BY <2>2, <2>7
      <4> QED BY <2>4, <4>1, <4>2, <4>3
    <3>3. \A a, b \in Pushed(d)' :
            a.result.sequence = b.result.sequence \/ a.result.id = b.result.id => a = b
      <4>1. \A a, b \in Pushed(d) :
              a.result.sequence = b.result.sequence \/ a.result.id = b.result.id => a = b
        BY <2>1 DEF PushInv, ExactlyOnce
      <4> QED BY <4>1, <2>6, <2>9, <2>10
    <3>4. ASSUME NEW e \in Devices
          PROVE  /\ {a.result.sequence : a \in Pushed(e)'} = 1 .. lastSequence'[e]
                 /\ \A a, b \in Pushed(e)' :
                      a.result.sequence = b.result.sequence \/ a.result.id = b.result.id => a = b
      <4>1. CASE e # d
        BY <4>1, <3>1
      <4>2. CASE e = d
        <5>1. Pushed(e)' = Pushed(d)' /\ lastSequence'[e] = lastSequence'[d]
          BY <4>2, <2>18 DEF Pushed
        <5> QED BY <5>1, <3>2, <3>3
      <4> QED BY <4>1, <4>2
    <3> QED BY <3>4 DEF ExactlyOnce
  <2>12. IdentifiersFresh'
    <3>1. ASSUME NEW e \in Devices, NEW i \in 1 .. Len(outbox[e]), NEW a \in Pushed(e)',
                 a.result.id = outbox[e][i].id
          PROVE  a.result.sequence = i
      <4>1. CASE a \in Pushed(e)
        BY <3>1, <4>1 DEF PushInv, IdentifiersFresh
      <4>2. CASE e = d /\ a = new
        BY <3>1, <4>2, <2>2, <2>10 DEF PushInv, IdentifiersFresh
      <4> QED BY <2>17, <4>1, <4>2
    <3> QED BY <3>1 DEF PushInv, IdentifiersFresh
  <2>13. ConsumedIssued'
    <3>1. Current.id <= issued
      BY <2>1, <2>2 DEF PushInv, IdentifiersFresh
    <3>2. ASSUME NEW e \in Devices, NEW a \in Pushed(e)'
          PROVE  a.result.id <= issued
      <4>1. CASE a \in Pushed(e)
        BY <4>1 DEF PushInv, ConsumedIssued
      <4>2. CASE e = d /\ a = new
        BY <3>1, <4>2, <2>10
      <4> QED BY <2>17, <4>1, <4>2
    <3> QED BY <3>2 DEF ConsumedIssued
  <2>14. StoredTrue'
    <3>1. ASSUME NEW r \in stored'
          PROVE  \E a \in applied' : a.device = r.device /\ a.result = r.result
      <4>1. CASE r \in stored
        BY <4>1, <1>1 DEF PushInv, StoredTrue
      <4>2. CASE r = [device |-> d, result |-> result]
        BY <4>2, <1>1, <1>2
      <4> QED BY <2>5, <4>1, <4>2
    <3> QED BY <3>1 DEF StoredTrue
  <2>15. \A e \in Devices : lastSequence'[e] \in Nat /\ lastSequence[e] <= lastSequence'[e]
    <3> TAKE e \in Devices
    <3>1. CASE e = d
      BY <3>1, <2>2, <2>4, <2>7
    <3>2. CASE e # d
      BY <3>2, <2>1, <2>4
    <3> QED BY <3>1, <3>2
  <2>16. BatchQueued' /\ DirectIsNoDevice' /\ AcknowledgedQueued' /\ AcknowledgementsTrue'
    <3>1. result.sequence <= lastSequence'[handler.device]
      BY <2>4, <2>7 DEF d, s
    <3>2. applied \subseteq applied' /\ \E a \in applied' : a.device = handler.device /\ a.result = result
      BY <1>1, <1>2 DEF d
    <3> QED BY <2>15, <3>1, <3>2, AcknowledgedNext
  <2> QED BY <2>11, <2>12, <2>13, <2>14, <2>16 DEF PushInv, IdleIsNoPush, StagedIsNext, At
<1> QED BY <1>4, <1>5

(* An operation the counter has passed is acknowledged without effect. *)
LEMMA Replayed ==
  ASSUME TypeInv, PushInv, Replaying, UNCHANGED <<outbox, issued, device_state>>,
         NEW result, Acknowledge(result),
         result.sequence = Current.sequence, result.id = Current.id,
         result.status # "compacted" =>
           \E a \in applied : a.device = handler.device /\ a.result = result
  PROVE  PushInv'
<1>1. /\ Working /\ handler.source = "push"
      /\ Current.sequence <= lastSequence[handler.device]
  BY DEF Replaying
<1>2. /\ handler'.source = handler.source /\ handler'.device = handler.device
      /\ handler'.todo = Tail(handler.todo)
      /\ handler'.acks = handler.acks \cup {result}
      /\ handler'.pc \notin {"idle", "staged"}
  BY DEF Acknowledge, TypeInv, TypeOK, Handler, Replaying, Working, At
<1>3. \A e \in Devices : lastSequence'[e] \in Nat /\ lastSequence[e] <= lastSequence'[e]
  BY DEF TypeInv, TypeOK, device_state
<1>4. applied' = applied /\ lastSequence' = lastSequence
  BY DEF device_state
<1>5. BatchQueued' /\ DirectIsNoDevice' /\ AcknowledgedQueued' /\ AcknowledgementsTrue'
  BY <1>1, <1>2, <1>3, <1>4, AcknowledgedNext DEF Working
<1> QED BY <1>2, <1>5, SameDevices DEF PushInv, IdleIsNoPush, StagedIsNext, At

(* Every step keeps the counters, the acknowledgements and the queues in step. *)
LEMMA NextPush == TypeInv /\ PushInv /\ [Next]_vars => PushInv'
<1> SUFFICES ASSUME TypeInv, TypeInv', PushInv, [Next]_vars PROVE PushInv'
  BY NextTyped
<1>1. ASSUME NEW d \in Devices, NEW draft \in Drafts, Enqueue(d, draft)
      PROVE  PushInv'
  <2> DEFINE queue == outbox[d]
             new   == [id |-> issued + 1, draft |-> draft]
  <2>1. /\ outbox \in [Devices -> Seq([id : Nat, draft : Drafts])] /\ issued \in Nat
        /\ queue \in Seq([id : Nat, draft : Drafts])
    BY DEF TypeInv, TypeOK
  <2>12. new \in [id : Nat, draft : Drafts]
    BY <2>1
  <2>2. /\ outbox' = [outbox EXCEPT ![d] = Append(queue, new)]
        /\ issued' = issued + 1
        /\ UNCHANGED <<stored, lastSequence, applied, handler>>
        /\ At("idle")
    BY <1>1 DEF Enqueue, device_state
  <2>3. /\ Len(queue) \in Nat
        /\ Len(Append(queue, new)) = Len(queue) + 1
        /\ \A i \in 1 .. Len(queue) : Append(queue, new)[i] = queue[i]
        /\ Append(queue, new)[Len(queue) + 1] = new
    BY <2>1, <2>12, AppendProperties, LenProperties
  <2>4. /\ outbox'[d] = Append(queue, new)
        /\ \A e \in Devices \ {d} : outbox'[e] = outbox[e]
    BY <2>1, <2>2
  <2>5. new.id = issued + 1
    OBVIOUS
  <2>6. \A e \in Devices : \A i \in 1 .. Len(outbox[e]) :
          outbox[e][i].id \in Nat /\ outbox[e][i].id <= issued
    <3> TAKE e \in Devices
    <3> TAKE i \in 1 .. Len(outbox[e])
    <3>1. outbox[e][i] \in [id : Nat, draft : Drafts]
      BY <2>1, ElementOfSeq
    <3> QED BY <3>1 DEF PushInv, IdentifiersFresh
  <2>7. \A e \in Devices : \A a \in Pushed(e) : a.result.id \in Nat /\ a.result.id <= issued
    BY DEF PushInv, ConsumedIssued, Pushed, TypeInv, TypeOK, Outcomes, Result
  <2> HIDE DEF new
  <2>8. ASSUME NEW i \in 1 .. Len(outbox'[d])
        PROVE  \/ i \in 1 .. Len(queue) /\ outbox'[d][i] = queue[i]
               \/ i = Len(queue) + 1 /\ outbox'[d][i] = new
    BY <2>3, <2>4
  <2>9. IdentifiersFresh'
    <3>1. ASSUME NEW e \in Devices, e # d, NEW i \in 1 .. Len(outbox'[e])
          PROVE  /\ outbox'[e][i].id <= issued'
                 /\ \A j \in 1 .. Len(outbox'[e]) :
                      outbox'[e][i].id = outbox'[e][j].id => i = j
                 /\ \A a \in Pushed(e)' :
                      a.result.id = outbox'[e][i].id => a.result.sequence = i
      BY <3>1, <2>1, <2>2, <2>4, <2>6 DEF PushInv, IdentifiersFresh, Pushed
    <3>2. ASSUME NEW i \in 1 .. Len(outbox'[d])
          PROVE  /\ outbox'[d][i].id <= issued'
                 /\ \A j \in 1 .. Len(outbox'[d]) :
                      outbox'[d][i].id = outbox'[d][j].id => i = j
                 /\ \A a \in Pushed(d)' :
                      a.result.id = outbox'[d][i].id => a.result.sequence = i
      <4>1. outbox'[d][i].id <= issued'
        BY <2>1, <2>2, <2>5, <2>6, <2>8
      <4>2. ASSUME NEW j \in 1 .. Len(outbox'[d]), outbox'[d][i].id = outbox'[d][j].id
            PROVE  i = j
        <5>1. CASE i \in 1 .. Len(queue) /\ j \in 1 .. Len(queue)
          BY <4>2, <5>1, <2>3, <2>4 DEF PushInv, IdentifiersFresh
        <5>2. \A k \in 1 .. Len(queue) : queue[k].id # new.id
          BY <2>1, <2>5, <2>6
        <5> QED BY <4>2, <5>1, <5>2, <2>8
      <4>3. ASSUME NEW a \in Pushed(d)', a.result.id = outbox'[d][i].id
            PROVE  a.result.sequence = i
        <5>1. a \in Pushed(d) /\ a.result.id \in Nat /\ a.result.id <= issued
          BY <2>2, <2>7 DEF Pushed
        <5>2. i \in 1 .. Len(queue) /\ outbox'[d][i] = queue[i]
          BY <4>3, <5>1, <2>1, <2>5, <2>8
        <5> QED BY <4>3, <5>1, <5>2 DEF PushInv, IdentifiersFresh
      <4> QED BY <4>1, <4>2, <4>3
    <3> QED BY <3>1, <3>2 DEF IdentifiersFresh
  <2>10. ConsumedIssued' /\ StoredTrue' /\ ExactlyOnce'
    BY <2>1, <2>2, <2>7 DEF PushInv, ConsumedIssued, StoredTrue, ExactlyOnce, Pushed
  <2>11. BatchQueued' /\ DirectIsNoDevice' /\ AcknowledgedQueued' /\ AcknowledgementsTrue'
    <3>1. handler.source # "push"
      BY <2>2 DEF PushInv, IdleIsNoPush
    <3> QED BY <2>2, <3>1
            DEF PushInv, BatchQueued, DirectIsNoDevice, AcknowledgedQueued, AcknowledgementsTrue
  <2> QED BY <2>2, <2>9, <2>10, <2>11 DEF PushInv, IdleIsNoPush, StagedIsNext, At
<1>2. ASSUME NEW d \in Devices, NEW kept \in 0 .. Len(outbox[d]), RestoreProfile(d, kept)
      PROVE  PushInv'
  <2>1. /\ outbox \in [Devices -> Seq([id : Nat, draft : Drafts])]
        /\ outbox' = [outbox EXCEPT ![d] = SubSeq(outbox[d], 1, kept)]
        /\ UNCHANGED <<issued, stored, lastSequence, applied, handler>>
        /\ At("idle")
    BY <1>2 DEF RestoreProfile, device_state, TypeInv, TypeOK
  <2>2. Len(outbox[d]) \in Nat /\ kept \in Int /\ kept <= Len(outbox[d])
    BY <2>1, LenProperties
  <2>3. \A i \in 1 .. kept : outbox[d][i] \in [id : Nat, draft : Drafts]
    <3> TAKE i \in 1 .. kept
    <3>1. i \in 1 .. Len(outbox[d])
      BY <2>2
    <3> QED BY <2>1, <3>1, ElementOfSeq
  <2>4. ASSUME NEW i \in 1 .. Len(outbox'[d])
        PROVE  i \in 1 .. Len(outbox[d]) /\ outbox'[d][i] = outbox[d][i]
    BY <2>1, <2>2, <2>3, SubSeqProperties
  <2>5. \A e \in Devices \ {d} : outbox'[e] = outbox[e]
    BY <2>1
  <2>6. ASSUME NEW e \in Devices, NEW i \in 1 .. Len(outbox'[e])
        PROVE  i \in 1 .. Len(outbox[e]) /\ outbox'[e][i] = outbox[e][i]
    BY <2>4, <2>5
  <2>7. IdentifiersFresh'
    <3> SUFFICES ASSUME NEW e \in Devices, NEW i \in 1 .. Len(outbox'[e])
                 PROVE  /\ outbox'[e][i].id <= issued'
                        /\ \A j \in 1 .. Len(outbox'[e]) :
                             outbox'[e][i].id = outbox'[e][j].id => i = j
                        /\ \A a \in Pushed(e)' :
                             a.result.id = outbox'[e][i].id => a.result.sequence = i
      BY DEF IdentifiersFresh
    <3>1. Pushed(e)' = Pushed(e)
      BY <2>1 DEF Pushed
    <3>2. i \in 1 .. Len(outbox[e]) /\ outbox'[e][i] = outbox[e][i]
      BY <2>6
    <3>3. \A j \in 1 .. Len(outbox'[e]) :
            j \in 1 .. Len(outbox[e]) /\ outbox'[e][j] = outbox[e][j]
      BY <2>6
    <3>4. /\ outbox[e][i].id <= issued
          /\ \A j \in 1 .. Len(outbox[e]) : outbox[e][i].id = outbox[e][j].id => i = j
          /\ \A a \in Pushed(e) : a.result.id = outbox[e][i].id => a.result.sequence = i
      BY <3>2 DEF PushInv, IdentifiersFresh
    <3>5. outbox'[e][i].id <= issued'
      BY <2>1, <3>2, <3>4
    <3>6. ASSUME NEW j \in 1 .. Len(outbox'[e]), outbox'[e][i].id = outbox'[e][j].id
          PROVE  i = j
      <4>1. j \in 1 .. Len(outbox[e]) /\ outbox'[e][j] = outbox[e][j]
        BY <3>3
      <4>2. outbox[e][i].id = outbox[e][j].id
        BY <3>2, <3>6, <4>1
      <4> QED BY <3>4, <4>1, <4>2
    <3>7. \A a \in Pushed(e)' : a.result.id = outbox'[e][i].id => a.result.sequence = i
      BY <3>1, <3>2, <3>4
    <3> QED BY <3>5, <3>6, <3>7
  <2>8. ConsumedIssued' /\ StoredTrue' /\ ExactlyOnce'
    BY <2>1 DEF PushInv, ConsumedIssued, StoredTrue, ExactlyOnce, Pushed
  <2>9. BatchQueued' /\ DirectIsNoDevice' /\ AcknowledgedQueued' /\ AcknowledgementsTrue'
    <3>1. handler.source # "push"
      BY <2>1 DEF PushInv, IdleIsNoPush
    <3> QED BY <2>1, <3>1
            DEF PushInv, BatchQueued, DirectIsNoDevice, AcknowledgedQueued, AcknowledgementsTrue
  <2> QED BY <2>1, <2>7, <2>8, <2>9 DEF PushInv, IdleIsNoPush, StagedIsNext, At
<1>3. ASSUME NEW d \in Devices, NEW from \in 1 .. Len(outbox[d]), NEW to \in 1 .. Len(outbox[d]),
             from <= to, Push(d, from, to)
      PROVE  PushInv'
  <2> DEFINE todo == [i \in 1 .. (to - from + 1) |->
                        [sequence |-> from + i - 1, id |-> outbox[d][from + i - 1].id,
                         draft |-> outbox[d][from + i - 1].draft]]
  <2>1. /\ UNCHANGED <<outbox, issued, device_state>>
        /\ handler' = Recovering("push", d, todo)
    BY <1>3 DEF Push, environment
  <2>2. /\ handler'.source = "push" /\ handler'.device = d /\ handler'.todo = todo
        /\ handler'.acks = {} /\ handler'.pc = "recover"
    BY <2>1 DEF Recovering, Idle
  <2>3. Len(outbox[d]) \in Nat
    BY LenProperties DEF TypeInv, TypeOK
  <2>4. to - from + 1 \in Nat
    BY <1>3, <2>3
  <2>5. Len(todo) = to - from + 1
    BY <2>4
  <2>6. ASSUME NEW i \in 1 .. Len(todo)
        PROVE  /\ todo[i].sequence \in 1 .. Len(outbox[d])
               /\ todo[i].id = outbox[d][todo[i].sequence].id
    <3>1. todo[i].sequence = from + i - 1 /\ todo[i].id = outbox[d][from + i - 1].id
      BY <2>5
    <3>2. from + i - 1 \in 1 .. Len(outbox[d])
      BY <2>3, <2>4, <2>5
    <3> QED BY <3>1, <3>2
  <2> HIDE DEF todo
  <2>7. BatchQueued' /\ DirectIsNoDevice' /\ IdleIsNoPush' /\ ~At("staged")'
    BY <2>1, <2>2, <2>6 DEF BatchQueued, DirectIsNoDevice, IdleIsNoPush, At
  <2> QED BY <2>1, <2>2, <2>7, OtherRequest
<1>4. ASSUME NEW source \in {"startup", "direct"}, NEW todo,
             handler' = Recovering(source, Direct, todo),
             UNCHANGED <<outbox, issued, device_state>>
      PROVE  PushInv'
  <2>1. /\ handler'.source # "push" /\ handler'.device = Direct /\ handler'.acks = {}
        /\ handler'.pc = "recover"
    BY <1>4 DEF Recovering, Idle
  <2>2. BatchQueued' /\ DirectIsNoDevice' /\ IdleIsNoPush' /\ ~At("staged")'
    BY <2>1 DEF BatchQueued, DirectIsNoDevice, IdleIsNoPush, At
  <2> QED BY <1>4, <2>1, <2>2, OtherRequest
<1>5. ASSUME NEW f \in handler.recovering, RecoverOne(f) \/ RecordFailure(f)
      PROVE  PushInv'
  <2>1. /\ handler' = [handler EXCEPT !.recovering = @ \ {f}]
        /\ UNCHANGED <<outbox, issued, device_state>>
    BY <1>5 DEF RecoverOne, RecordFailure, environment
  <2> QED BY <2>1, SameRequest DEF TypeInv, TypeOK, Handler
<1>6. ASSUME FinishRecovery
      PROVE  PushInv'
  <2>1. UNCHANGED <<outbox, issued, device_state>>
    BY <1>6 DEF FinishRecovery, environment
  <2>2. CASE handler' = Idle
    BY <2>1, <2>2, RequestOver
  <2>3. CASE handler' = [handler EXCEPT !.pc = "operations"]
    BY <2>1, <2>3, SameRequest DEF TypeInv, TypeOK, Handler
  <2> QED BY <1>6, <2>2, <2>3 DEF FinishRecovery
<1>7. ASSUME \/ FailRecovery \/ RefuseReplay \/ RefuseGap \/ RefuseDirect \/ Respond \/ Crash
             \/ Abort \/ \E f \in handler.pending : FailFile(f)
      PROVE  PushInv'
  <2>1. UNCHANGED <<outbox, issued, device_state>> /\ handler' \in {Idle, Down}
    BY <1>7 DEF FailRecovery, RefuseReplay, RefuseGap, RefuseDirect, Respond, Crash, Abort,
                FailFile, environment
  <2> QED BY <2>1, RequestOver
<1>8. ASSUME ReplayStored
      PROVE  PushInv'
  <2>1. PICK r \in StoredHere : r.result.id = Current.id /\ Acknowledge(r.result)
    BY <1>8 DEF ReplayStored
  <2>2. /\ r \in stored /\ r.device = handler.device
        /\ r.result.sequence = Current.sequence
    BY DEF StoredHere
  <2>3. \E a \in applied : a.device = handler.device /\ a.result = r.result
    BY <2>2 DEF PushInv, StoredTrue
  <2>4. Replaying /\ UNCHANGED <<outbox, issued, device_state>>
    BY <1>8 DEF ReplayStored, environment
  <2> QED BY <2>1, <2>2, <2>3, <2>4, Replayed
<1>9. ASSUME ReplayCompacted
      PROVE  PushInv'
  <2> DEFINE result == [sequence |-> Current.sequence, id |-> Current.id,
                        status |-> "compacted", revision |-> 0]
  <2>1. /\ Replaying /\ Acknowledge(result)
        /\ UNCHANGED <<outbox, issued, device_state>>
    BY <1>9 DEF ReplayCompacted, environment
  <2>2. /\ result.sequence = Current.sequence /\ result.id = Current.id
        /\ result.status = "compacted"
    OBVIOUS
  <2> HIDE DEF result
  <2> QED BY <2>1, <2>2, Replayed
<1>10. ASSUME NEW result \in Result, Due, Consume(result), Acknowledge(result),
              result.sequence = Current.sequence, result.id = Current.id,
              result.status # "compacted", UNCHANGED <<outbox, issued>>
       PROVE  PushInv'
  <2>1. /\ handler'.source = handler.source /\ handler'.device = handler.device
        /\ handler'.todo = Tail(handler.todo)
        /\ handler'.acks = handler.acks \cup {result}
        /\ handler'.pc \notin {"idle", "staged"}
    BY <1>10 DEF Acknowledge, TypeInv, TypeOK, Handler, Due, Working, At
  <2> QED BY <1>10, <2>1, Consumed DEF Due, Working, CurrentIsNext
<1>11. ASSUME NEW status \in {"applied", "conflict"}, NEW revision
       PROVE  /\ Outcome(status, revision).sequence = Current.sequence
              /\ Outcome(status, revision).id = Current.id
              /\ Outcome(status, revision).status # "compacted"
  BY DEF Outcome
<1>12. ASSUME Conflict
       PROVE  PushInv'
  <2> DEFINE result == Outcome("conflict", CurrentRevision(db, Current.draft.note))
  <2>1. Due /\ Consume(result) /\ Acknowledge(result) /\ UNCHANGED <<outbox, issued>>
    BY <1>12 DEF Conflict, environment
  <2>2. result \in Result
    BY <2>1, OutcomeTyped DEF Due, Working
  <2>3. /\ result.sequence = Current.sequence /\ result.id = Current.id
        /\ result.status # "compacted"
    BY <1>11
  <2> HIDE DEF result
  <2> QED BY <2>1, <2>2, <2>3, <1>10
<1>13. ASSUME Noop
       PROVE  PushInv'
  <2> DEFINE result == Outcome("applied", 0)
  <2>1. Due /\ Consume(result) /\ Acknowledge(result) /\ UNCHANGED <<outbox, issued>>
    BY <1>13 DEF Noop, environment
  <2>2. result \in Result
    BY <2>1, OutcomeTyped DEF Due, Working
  <2>3. /\ result.sequence = Current.sequence /\ result.id = Current.id
        /\ result.status # "compacted"
    BY <1>11
  <2> HIDE DEF result
  <2> QED BY <2>1, <2>2, <2>3, <1>10
<1>14. ASSUME PinNote
       PROVE  PushInv'
  <2>1. Due /\ Consume(Written) /\ Acknowledge(Written) /\ UNCHANGED <<outbox, issued>>
    BY <1>14 DEF PinNote, environment
  <2>2. Written \in Result
    BY <2>1, OutcomeTyped DEF Due, Working
  <2>3. /\ Written.sequence = Current.sequence /\ Written.id = Current.id
        /\ Written.status # "compacted"
    BY <1>11 DEF Written
  <2> QED BY <2>1, <2>2, <2>3, <1>10
<1>15. ASSUME StageFile
       PROVE  PushInv'
  <2>1. /\ handler' = [handler EXCEPT !.pc = "staged"]
        /\ UNCHANGED <<outbox, issued, device_state>>
    BY <1>15 DEF StageFile, environment
  <2>2. CurrentIsNext
    BY <1>15 DEF StageFile, Due, CurrentIsNext
  <2> QED BY <2>1, <2>2, SameRequest DEF TypeInv, TypeOK, Handler
<1>16. ASSUME CommitSave \/ CommitDelete
       PROVE  PushInv'
  <2>1. PICK action, content : Commit(action, content)
    BY <1>16 DEF CommitSave, CommitDelete
  <2>2. handler.todo # <<>> /\ CurrentIsNext
    BY <1>16 DEF CommitSave, CommitDelete, PushInv, StagedIsNext, CurrentIsNext, Due, Working,
                 TypeInv, RequestInv
  <2>3. UNCHANGED <<outbox, issued>>
    BY <1>16 DEF CommitSave, CommitDelete, environment
  <2>4. Written \in Result
    BY <2>2, OutcomeTyped
  <2>5. /\ Written.sequence = Current.sequence /\ Written.id = Current.id
        /\ Written.status # "compacted"
    BY <1>11 DEF Written
  <2>6. /\ handler'.source = handler.source /\ handler'.device = handler.device
        /\ handler'.todo = Tail(handler.todo)
        /\ handler'.acks = handler.acks \cup {Written}
        /\ handler'.pc \notin {"idle", "staged"}
    BY <2>1 DEF Commit, TypeInv, TypeOK, Handler
  <2> QED BY <2>1, <2>2, <2>3, <2>4, <2>5, <2>6, Consumed DEF Commit
<1>17. ASSUME NEW f \in handler.pending, CompleteFile(f)
       PROVE  PushInv'
  <2>1. /\ handler' = [handler EXCEPT !.pc = "operations", !.pending = {}]
        /\ UNCHANGED <<outbox, issued, device_state>>
    BY <1>17 DEF CompleteFile, environment
  <2> QED BY <2>1, SameRequest DEF TypeInv, TypeOK, Handler
<1>18. ASSUME UNCHANGED <<outbox, issued, device_state, handler>>
       PROVE  PushInv'
  BY <1>18, SameRequest
<1>19. CASE Devices_Next
  <2>1. CASE \E n \in Notes : ReadNote(n)
    BY <2>1, <1>18 DEF ReadNote, environment
  <2>2. CASE \E draft \in Drafts : DirectWrite(draft)
    BY <2>2, <1>4 DEF DirectWrite
  <2> QED BY <1>19, <1>1, <1>2, <1>3, <2>1, <2>2 DEF Devices_Next
<1>20. CASE Recovery
  BY <1>20, <1>5, <1>6, <1>7 DEF Recovery
<1>21. CASE Operations
  BY <1>21, <1>7, <1>8, <1>9, <1>12, <1>13, <1>14, <1>15, <1>16, <1>17 DEF Operations
<1>22. CASE Start
  BY <1>22, <1>4 DEF Start, environment
<1>23. CASE UNCHANGED vars
  BY <1>23, <1>18 DEF vars, device_state
<1> QED BY <1>7, <1>19, <1>20, <1>21, <1>22, <1>23 DEF Next

LEMMA InvariantPush == Spec => [](TypeInv /\ PushInv)
BY InitTyped, InitPush, NextTyped, NextPush, PTL DEF Spec

(* Every sequence up to a device's counter has been consumed exactly once.   *)
THEOREM PushesExactlyOnce == Spec => []ExactlyOnce
<1>1. PushInv => ExactlyOnce
  BY DEF PushInv
<1> QED BY <1>1, InvariantPush, PTL

(* No response claims an outcome that an operation did not have.             *)
THEOREM AcknowledgementsAreTrue == Spec => []AcknowledgementsTrue
<1>1. PushInv => AcknowledgementsTrue
  BY DEF PushInv
<1> QED BY <1>1, InvariantPush, PTL

-----------------------------------------------------------------------------
(* The change feed, the pin order and the revision checks. *)
StoreInv == FeedInv(db) /\ PinOrdersDistinct(db)

(* As long as no change row has been compacted away, no write that was ever  *)
(* applied is newer than its note's current revision.                        *)
AppliedWrite(a) == a.result.status = "applied" /\ a.type # "noop"

AppliedBelowCurrent ==
  db.newest <= MaxSyncChanges =>
    \A a \in applied : AppliedWrite(a) => a.result.revision <= CurrentRevision(db, a.note)

HistoryInv == AppliedBelowCurrent /\ NoForkedRevision

-----------------------------------------------------------------------------
LEMMA InitStore == Init => StoreInv
BY EmptyStoreFeed DEF Init, StoreInv, PinOrdersDistinct, EmptyStore, NoRow

LEMMA InitHistory == Init => HistoryInv
BY DEF Init, HistoryInv, AppliedBelowCurrent, NoForkedRevision

(* The write that an action performs, as one of the next revision. *)
WritesNext(n, row, deleted) ==
  /\ n = Current.draft.note
  /\ row \in Row
  /\ deleted \in BOOLEAN
  /\ db' = Write(db, n, row, CurrentRevision(db, n) + 1, deleted)
  /\ deleted => row.revision = 0
  /\ ~deleted => row.revision = CurrentRevision(db, n) + 1
  /\ row.pinOrder \in {0, db.rows[n].pinOrder, NextPinOrder(db)}

LEMMA SaveWrites ==
  ASSUME TypeInv, CommitSave
  PROVE  \E n \in Notes, row \in Row : WritesNext(n, row, FALSE)
<1> DEFINE n        == Current.draft.note
           pinOrder == IF Live(db, n) THEN db.rows[n].pinOrder
                       ELSE IF handler.source = "push" /\ Current.draft.pinned
                            THEN NextPinOrder(db) ELSE 0
           revision == CurrentRevision(db, n) + 1
           row      == [revision |-> revision, pinOrder |-> pinOrder]
<1>1. handler.todo # <<>>
  BY DEF CommitSave, TypeInv, RequestInv
<1>2. n \in Notes
  BY <1>1, CurrentTyped DEF TypeInv
<1>3. pinOrder \in Nat /\ pinOrder \in {0, db.rows[n].pinOrder, NextPinOrder(db)}
  <2>1. db.rows[n].pinOrder \in Nat
    BY <1>2 DEF TypeInv, TypeOK, Store, Row
  <2>2. NextPinOrder(db) \in Nat
    BY NextPinOrderIsNew DEF TypeInv
  <2> HIDE DEF n
  <2> QED BY <2>1, <2>2
<1>4. revision \in Nat
  BY <1>2, CurrentRevisionCounted DEF TypeInv
<1>5. db' = Write(db, n, row, revision, FALSE)
  BY DEF CommitSave, Upsert
<1>6. row \in Row /\ row.revision = revision /\ row.pinOrder = pinOrder
  <2> HIDE DEF revision, pinOrder
  <2> QED BY <1>3, <1>4 DEF Row
<1>7. WritesNext(n, row, FALSE)
  BY <1>3, <1>5, <1>6 DEF WritesNext
<1> HIDE DEF n, row
<1> QED BY <1>2, <1>6, <1>7

LEMMA DeleteWrites ==
  ASSUME TypeInv, CommitDelete
  PROVE  \E n \in Notes, row \in Row : WritesNext(n, row, TRUE)
<1> DEFINE n == Current.draft.note
<1>1. handler.todo # <<>> /\ Current.draft.type = "note.delete" /\ ~Conflicts
  BY DEF CommitDelete, Due, Working
<1>2. n \in Notes /\ Current.draft.base \in Nat \ {0}
  BY <1>1, CurrentTyped DEF TypeInv, WellFormed, Draft
<1>3. Live(db, n)
  BY <1>1, <1>2 DEF Conflicts, RevisionConflict
<1>4. db' = Write(db, n, NoRow, CurrentRevision(db, n) + 1, TRUE)
  BY <1>3 DEF CommitDelete, Delete, CurrentRevision
<1>5. NoRow \in Row /\ WritesNext(n, NoRow, TRUE)
  BY <1>4 DEF WritesNext, NoRow, Row
<1> HIDE DEF n
<1> QED BY <1>2, <1>5

LEMMA PinWrites ==
  ASSUME TypeInv, PinNote
  PROVE  \E n \in Notes, row \in Row : WritesNext(n, row, FALSE)
<1> DEFINE n        == Current.draft.note
           revision == CurrentRevision(db, n) + 1
           order    == IF Current.draft.pinned THEN NextPinOrder(db) ELSE 0
           row      == [revision |-> revision, pinOrder |-> order]
<1>1. handler.todo # <<>> /\ Live(db, n)
  BY DEF PinNote, Due, Working
<1>2. n \in Notes
  BY <1>1, CurrentTyped DEF TypeInv
<1>3. revision \in Nat /\ order \in Nat /\ order \in {0, NextPinOrder(db)}
  BY <1>2, CurrentRevisionCounted, NextPinOrderIsNew DEF TypeInv
<1>4. db' = Write(db, n, row, revision, FALSE)
  BY <1>1 DEF PinNote, Pin, CurrentRevision
<1>5. row \in Row /\ row.revision = revision /\ row.pinOrder = order
  <2> HIDE DEF revision, order
  <2> QED BY <1>3 DEF Row
<1>6. WritesNext(n, row, FALSE)
  BY <1>3, <1>4, <1>5 DEF WritesNext
<1> HIDE DEF n, row
<1> QED BY <1>2, <1>5, <1>6

-----------------------------------------------------------------------------
(* The store changes by such a write, or not at all. *)
LEMMA StoreSteps ==
  ASSUME TypeInv, [Next]_vars
  PROVE  \/ UNCHANGED db
         \/ /\ PinNote \/ CommitSave \/ CommitDelete
            /\ \E n \in Notes, row \in Row, deleted \in BOOLEAN : WritesNext(n, row, deleted)
<1>1. CASE PinNote \/ CommitSave \/ CommitDelete
  BY <1>1, PinWrites, SaveWrites, DeleteWrites
<1>2. CASE Devices_Next
  BY <1>2 DEF Devices_Next, Enqueue, RestoreProfile, Push, DirectWrite, ReadNote, note_state
<1>3. CASE Recovery
  BY <1>3 DEF Recovery, RecoverOne, RecordFailure, FinishRecovery, FailRecovery, note_state
<1>4. CASE Operations /\ ~(PinNote \/ CommitSave \/ CommitDelete)
  BY <1>4 DEF Operations, ReplayStored, ReplayCompacted, RefuseReplay, RefuseGap, Conflict,
              RefuseDirect, Noop, StageFile, Abort, CompleteFile, FailFile, Respond, note_state
<1>5. CASE Crash \/ Start \/ UNCHANGED vars
  BY <1>5 DEF Crash, Start, note_state, vars
<1> QED BY <1>1, <1>2, <1>3, <1>4, <1>5 DEF Next

LEMMA NextStore == TypeInv /\ StoreInv /\ [Next]_vars => StoreInv'
<1> SUFFICES ASSUME TypeInv, TypeInv', StoreInv, [Next]_vars PROVE StoreInv'
  BY NextTyped
<1>1. CASE UNCHANGED db
  BY <1>1 DEF StoreInv
<1>2. ASSUME NEW n \in Notes, NEW row, NEW deleted, WritesNext(n, row, deleted)
      PROVE  StoreInv'
  <2>1. Counted(db) /\ Counted(db')
    BY DEF TypeInv
  <2>2. FeedInv(db')
    BY <1>2, <2>1, WriteKeepsFeed DEF WritesNext, StoreInv
  <2>3. PinOrdersDistinct(db')
    BY <1>2, <2>1, WriteKeepsPinOrder DEF WritesNext, StoreInv
  <2> QED BY <2>2, <2>3 DEF StoreInv
<1> QED BY <1>1, <1>2, StoreSteps

LEMMA InvariantStore == Spec => [](TypeInv /\ StoreInv)
BY InitTyped, InitStore, NextTyped, NextStore, PTL DEF Spec

(* Readers of the feed end up with the rows. *)
THEOREM FeedIsTrue == Spec => []FeedAgreesWithRows
<1>1. StoreInv => FeedAgreesWithRows
  BY DEF StoreInv, FeedInv, FeedAgreesWithRows
<1> QED BY <1>1, InvariantStore, PTL

(* Pinned notes have a total order. *)
THEOREM PinsAreOrdered == Spec => []PinOrderTotal
<1>1. StoreInv => PinOrderTotal
  BY DEF StoreInv, PinOrderTotal
<1> QED BY <1>1, InvariantStore, PTL

-----------------------------------------------------------------------------
(* Steps that change the history but not the store record no write. *)
LEMMA HistorySteps ==
  ASSUME TypeInv, [Next]_vars, ~(PinNote \/ CommitSave \/ CommitDelete)
  PROVE  \A a \in applied' \ applied : ~AppliedWrite(a)
<1>1. CASE Conflict
  BY <1>1 DEF Conflict, Consume, Outcome, AppliedWrite
<1>2. CASE Noop
  BY <1>2 DEF Noop, Consume, Outcome, AppliedWrite
<1>3. CASE Devices_Next
  BY <1>3 DEF Devices_Next, Enqueue, RestoreProfile, Push, DirectWrite, ReadNote, device_state
<1>4. CASE Recovery
  BY <1>4 DEF Recovery, RecoverOne, RecordFailure, FinishRecovery, FailRecovery, device_state
<1>5. CASE Operations /\ ~Conflict /\ ~Noop
  BY <1>5 DEF Operations, ReplayStored, ReplayCompacted, RefuseReplay, RefuseGap,
              RefuseDirect, StageFile, Abort, CompleteFile, FailFile, Respond, device_state
<1>6. CASE Crash \/ Start \/ UNCHANGED vars
  BY <1>6 DEF Crash, Start, device_state, vars
<1> QED BY <1>1, <1>2, <1>3, <1>4, <1>5, <1>6 DEF Next

LEMMA NextHistory == TypeInv /\ StoreInv /\ HistoryInv /\ [Next]_vars => HistoryInv'
<1> SUFFICES ASSUME TypeInv, TypeInv', StoreInv, HistoryInv, [Next]_vars PROVE HistoryInv'
  BY NextTyped
<1>1. CASE UNCHANGED db /\ ~(PinNote \/ CommitSave \/ CommitDelete)
  <2>1. \A a \in applied' : AppliedWrite(a) => a \in applied
    BY <1>1, HistorySteps
  <2> QED BY <1>1, <2>1 DEF HistoryInv, AppliedBelowCurrent, NoForkedRevision, AppliedWrite
<1>2. CASE PinNote \/ CommitSave \/ CommitDelete
  <2>1. PICK n \in Notes, row \in Row, deleted \in BOOLEAN : WritesNext(n, row, deleted)
    BY <1>2, PinWrites, SaveWrites, DeleteWrites
  <2> DEFINE revision == CurrentRevision(db, n) + 1
             new      == [device |-> handler.device, result |-> Written,
                          note |-> Current.draft.note, type |-> Current.draft.type]
  <2>2. applied' = applied \cup {new}
    BY <1>2 DEF PinNote, CommitSave, CommitDelete, Commit, Consume
  <2>3. new.note = n /\ new.result.revision = revision
    BY <2>1 DEF WritesNext, Written, Outcome
  <2>4. SUFFICES ASSUME db'.newest <= MaxSyncChanges
                 PROVE  /\ \A a \in applied' : AppliedWrite(a) =>
                             a.result.revision <= CurrentRevision(db', a.note)
                        /\ \A a, b \in applied' :
                             /\ a.note = b.note /\ a.result.revision = b.result.revision
                             /\ AppliedWrite(a) /\ AppliedWrite(b)
                             => a = b
    BY DEF HistoryInv, AppliedBelowCurrent, NoForkedRevision, AppliedWrite
  <2>5. db.newest \in Nat /\ db'.newest = db.newest + 1 /\ db.newest <= MaxSyncChanges
    BY <2>1, <2>4, MaxSyncChangesAssumption DEF WritesNext, Write, TypeInv, TypeOK, Store
  <2>6. /\ revision <= CurrentRevision(db', n)
        /\ \A m \in Notes \ {n} : CurrentRevision(db', m) = CurrentRevision(db, m)
    BY <2>1, <2>4, <2>5, WriteRaisesRevision DEF WritesNext, StoreInv, TypeInv
  <2>7. \A m \in Notes : CurrentRevision(db, m) \in Nat /\ CurrentRevision(db', m) \in Nat
    BY CurrentRevisionCounted DEF TypeInv
  <2>8. \A a \in applied : a.note \in Notes /\ a.result.revision \in Nat
    BY DEF TypeInv, TypeOK, Outcomes, Result
  <2>9. \A a \in applied : AppliedWrite(a) => a.result.revision <= CurrentRevision(db, a.note)
    BY <2>5 DEF HistoryInv, AppliedBelowCurrent
  <2> HIDE DEF new
  <2>10. \A a \in applied : AppliedWrite(a) /\ a.note = n => a.result.revision < revision
    BY <2>7, <2>8, <2>9
  <2>11. ASSUME NEW a \in applied', AppliedWrite(a)
         PROVE  a.result.revision <= CurrentRevision(db', a.note)
    <3>1. CASE a = new
      BY <3>1, <2>3, <2>6
    <3>2. CASE a \in applied /\ a.note = n
      BY <3>2, <2>6, <2>7, <2>8, <2>10, <2>11
    <3>3. CASE a \in applied /\ a.note # n
      BY <3>3, <2>6, <2>8, <2>9, <2>11
    <3> QED BY <2>2, <3>1, <3>2, <3>3
  <2>12. ASSUME NEW a \in applied', NEW b \in applied',
                a.note = b.note, a.result.revision = b.result.revision,
                AppliedWrite(a), AppliedWrite(b)
         PROVE  a = b
    <3>1. CASE a \in applied /\ b \in applied
      BY <2>12, <3>1, <2>5 DEF HistoryInv, NoForkedRevision, AppliedWrite
    <3>2. CASE (a = new /\ b \in applied) \/ (a \in applied /\ b = new)
      BY <2>12, <3>2, <2>3, <2>7, <2>8, <2>10
    <3> QED BY <2>2, <3>1, <3>2
  <2> QED BY <2>11, <2>12
<1> QED BY <1>1, <1>2, StoreSteps

(* No two writes ever produce the same revision of a note, while the feed    *)
(* still holds every change.                                                 *)
THEOREM RevisionsNeverFork == Spec => []NoForkedRevision
<1>1. HistoryInv => NoForkedRevision
  BY DEF HistoryInv
<1>2. Spec => [](TypeInv /\ StoreInv /\ HistoryInv)
  BY InitTyped, InitStore, InitHistory, NextTyped, NextStore, NextHistory, PTL DEF Spec
<1> QED BY <1>1, <1>2, PTL

-----------------------------------------------------------------------------
(* The contract with the devices. *)
ServerInv == TypeInv /\ FilesInv /\ PushInv

-----------------------------------------------------------------------------
(* What a write does to the contract's revisions. *)
LEMMA WriteRevises ==
  ASSUME TypeInv, NEW n \in Notes, NEW row, NEW deleted, WritesNext(n, row, deleted)
  PROVE  LET next == CurrentRevision(db, n) + 1
         IN  /\ Revisions' = [Revisions EXCEPT ![n] = IF deleted THEN 0 ELSE next]
             /\ Revisions \in [Notes -> Nat]
             /\ next \in Nat \ {0}
             /\ Revisions[n] > 0 => next = Revisions[n] + 1
<1> DEFINE next == CurrentRevision(db, n) + 1
<1>1. db.rows \in [Notes -> Row] /\ \A m \in Notes : db.rows[m].revision \in Nat
  BY DEF TypeInv, TypeOK, Store, Row
<1>2. db'.rows = [db.rows EXCEPT ![n] = row]
  BY DEF WritesNext, Write
<1>3. row.revision = IF deleted THEN 0 ELSE next
  BY DEF WritesNext
<1>4. Revisions' = [Revisions EXCEPT ![n] = IF deleted THEN 0 ELSE next]
  BY <1>1, <1>2, <1>3 DEF Revisions
<1>5. next \in Nat \ {0}
  BY CurrentRevisionCounted DEF TypeInv
<1>6. Revisions[n] > 0 => next = Revisions[n] + 1
  BY <1>1 DEF Revisions, CurrentRevision, Live
<1>7. Revisions \in [Notes -> Nat]
  BY <1>1 DEF Revisions
<1> QED BY <1>4, <1>5, <1>6, <1>7

(* Every write is a change of the contract. *)
LEMMA WriteIsChange ==
  ASSUME ServerInv, PinNote \/ CommitSave \/ CommitDelete
  PROVE  \E n \in Notes :
           /\ Contract!Change(n, Written.revision)
           /\ Written.revision = IF Revisions'[n] > 0 THEN Revisions'[n] ELSE Revisions[n] + 1
<1>1. CASE PinNote
  <2>1. PICK n \in Notes, row \in Row : WritesNext(n, row, FALSE)
    BY <1>1, PinWrites DEF ServerInv
  <2> DEFINE next == CurrentRevision(db, n) + 1
  <2>2. /\ Revisions' = [Revisions EXCEPT ![n] = next]
        /\ Revisions \in [Notes -> Nat]
        /\ next \in Nat \ {0}
        /\ Revisions[n] > 0 => next = Revisions[n] + 1
    <3>1. TypeInv
      BY DEF ServerInv
    <3> QED BY <2>1, <3>1, WriteRevises
  <2>3. n = Current.draft.note /\ Written.revision = next
    BY <2>1 DEF WritesNext, Written, Outcome
  <2>4. Revisions[n] > 0 /\ body' = body
    BY <1>1, <2>3 DEF PinNote, Live, Revisions
  <2> HIDE DEF next
  <2>5. Contract!Pin(n, next)
    BY <2>2, <2>4 DEF Contract!Pin, Revisions
  <2>6. Contract!Change(n, next)
    BY <2>5 DEF Contract!Change
  <2>7. Revisions'[n] = next
    BY <2>2
  <2> QED BY <2>2, <2>3, <2>6, <2>7
<1>2. CASE CommitSave
  <2>1. PICK n \in Notes, row \in Row : WritesNext(n, row, FALSE)
    BY <1>2, SaveWrites DEF ServerInv
  <2> DEFINE next == CurrentRevision(db, n) + 1
  <2>2. /\ Revisions' = [Revisions EXCEPT ![n] = next]
        /\ Revisions \in [Notes -> Nat]
        /\ next \in Nat \ {0}
        /\ Revisions[n] > 0 => next = Revisions[n] + 1
    <3>1. TypeInv
      BY DEF ServerInv
    <3> QED BY <2>1, <3>1, WriteRevises
  <2>3. n = Current.draft.note /\ Written.revision = next
    BY <2>1 DEF WritesNext, Written, Outcome
  <2>4. body' = [body EXCEPT ![n] = Current.draft.body]
    BY <1>2, <2>3 DEF CommitSave, Commit
  <2>5. Current.draft.body \in Bodies
    <3>1. handler.todo # <<>> /\ Current.draft.type = "note.save"
      BY <1>2 DEF CommitSave, ServerInv, TypeInv, RequestInv, FilesInv, RequestsUnblocked
    <3> QED BY <3>1, CurrentTyped DEF ServerInv, TypeInv, WellFormed, Content
  <2> HIDE DEF next
  <2>6. Contract!Save(n, Current.draft.body, next)
    BY <2>2, <2>4 DEF Contract!Save, Revisions
  <2>7. Contract!Change(n, next)
    BY <2>5, <2>6 DEF Contract!Change
  <2>8. Revisions'[n] = next
    BY <2>2
  <2> QED BY <2>2, <2>3, <2>7, <2>8
<1>3. CASE CommitDelete
  <2>1. PICK n \in Notes, row \in Row : WritesNext(n, row, TRUE)
    BY <1>3, DeleteWrites DEF ServerInv
  <2> DEFINE next == CurrentRevision(db, n) + 1
  <2>2. /\ Revisions' = [Revisions EXCEPT ![n] = 0]
        /\ Revisions \in [Notes -> Nat]
        /\ next \in Nat \ {0}
        /\ Revisions[n] > 0 => next = Revisions[n] + 1
    <3>1. TypeInv
      BY DEF ServerInv
    <3> QED BY <2>1, <3>1, WriteRevises
  <2>3. n = Current.draft.note /\ Written.revision = next
    BY <2>1 DEF WritesNext, Written, Outcome
  <2>4. body' = [body EXCEPT ![n] = Absent]
    BY <1>3, <2>3 DEF CommitDelete, Commit
  <2>5. Revisions[n] > 0
    <3>1. handler.todo # <<>> /\ Current.draft.type = "note.delete" /\ ~Conflicts
      BY <1>3 DEF CommitDelete, Due, Working
    <3>2. Current.draft.base \in Nat \ {0}
      BY <3>1, CurrentTyped DEF ServerInv, TypeInv, WellFormed, Draft
    <3> QED BY <2>3, <3>1, <3>2 DEF Conflicts, RevisionConflict, Live, Revisions
  <2> HIDE DEF next
  <2>6. Contract!Delete(n, next)
    BY <2>2, <2>4, <2>5 DEF Contract!Delete, Revisions
  <2>7. Contract!Change(n, next)
    BY <2>6 DEF Contract!Change
  <2>8. Revisions'[n] = 0
    BY <2>2
  <2> QED BY <2>2, <2>3, <2>5, <2>7, <2>8
<1> QED BY <1>1, <1>2, <1>3

-----------------------------------------------------------------------------
(* A step that consumes nothing leaves every outcome alone. *)
LEMMA QuietOutcomes ==
  ASSUME UNCHANGED <<lastSequence, applied>>
  PROVE  DeviceOutcomes' = DeviceOutcomes
BY DEF DeviceOutcomes, OutcomesOf, Pushed

(* A direct write has no sequence. *)
LEMMA DirectOutcomes ==
  ASSUME ServerInv, ServerInv', handler.source # "push", NEW result, Consume(result)
  PROVE  DeviceOutcomes' = DeviceOutcomes
<1> DEFINE new == [device |-> handler.device, result |-> result,
                   note |-> Current.draft.note, type |-> Current.draft.type]
<1>1. applied' = applied \cup {new} /\ UNCHANGED lastSequence
  BY DEF Consume
<1>2. new.device \notin Devices
  BY NamesAssumption DEF ServerInv, PushInv, DirectIsNoDevice
<1> HIDE DEF new
<1>3. \A d \in Devices : Pushed(d)' = Pushed(d)
  BY <1>1, <1>2 DEF Pushed
<1> QED BY <1>3 DEF DeviceOutcomes, OutcomesOf

(* A pushed operation adds its result, which has the next sequence, to the   *)
(* outcomes of its device.                                                   *)
LEMMA ConsumedOutcome ==
  ASSUME ServerInv, handler.source = "push", CurrentIsNext,
         NEW result, Consume(result), result.sequence = Current.sequence
  PROVE  LET d == handler.device
         IN  /\ d \in Devices
             /\ DeviceOutcomes' = [DeviceOutcomes EXCEPT ![d] = @ \cup {result}]
             /\ {o.sequence : o \in DeviceOutcomes[d]} = 1 .. (result.sequence - 1)
<1> DEFINE d   == handler.device
           new == [device |-> handler.device, result |-> result,
                   note |-> Current.draft.note, type |-> Current.draft.type]
<1>1. d \in Devices /\ lastSequence[d] \in Nat
  BY DEF ServerInv, TypeInv, TypeOK, RequestInv
<1>2. applied' = applied \cup {new} /\ new.device = d /\ new.result = result
  BY DEF Consume
<1>3. result.sequence = lastSequence[d] + 1
  BY DEF CurrentIsNext
<1> HIDE DEF d, new
<1>4. ASSUME NEW e \in Devices
      PROVE  OutcomesOf(e)' = IF e = d THEN OutcomesOf(e) \cup {result} ELSE OutcomesOf(e)
  <2>1. Pushed(e)' = IF e = d THEN Pushed(e) \cup {new} ELSE Pushed(e)
    BY <1>2 DEF Pushed
  <2> QED BY <1>2, <2>1 DEF OutcomesOf
<1>5. DeviceOutcomes' = [DeviceOutcomes EXCEPT ![d] = @ \cup {result}]
  BY <1>1, <1>4 DEF DeviceOutcomes
<1>6. {o.sequence : o \in DeviceOutcomes[d]} = 1 .. lastSequence[d]
  <2>1. DeviceOutcomes[d] = {a.result : a \in Pushed(d)}
    BY <1>1 DEF DeviceOutcomes, OutcomesOf
  <2>2. {a.result.sequence : a \in Pushed(d)} = 1 .. lastSequence[d]
    BY <1>1 DEF ServerInv, PushInv, ExactlyOnce
  <2> QED BY <2>1, <2>2
<1>7. 1 .. lastSequence[d] = 1 .. (result.sequence - 1)
  BY <1>1, <1>3
<1> QED BY <1>1, <1>5, <1>6, <1>7 DEF d

(* A pushed operation is one step of the contract. *)
LEMMA ConsumedContract ==
  ASSUME ServerInv, ServerInv', handler.source = "push", CurrentIsNext,
         NEW result, Consume(result), result.sequence = Current.sequence,
         \/ result.status = "applied" /\ \E n \in Notes : Contract!Change(n, result.revision)
         \/ result.status = "conflict" /\ UNCHANGED <<Revisions, body>>
         \/ result.status = "applied" /\ result.revision = 0 /\ UNCHANGED <<Revisions, body>>
  PROVE  Contract!Next
<1> DEFINE d == handler.device
<1>1. /\ d \in Devices
      /\ DeviceOutcomes' = [DeviceOutcomes EXCEPT ![d] = @ \cup {result}]
      /\ {o.sequence : o \in DeviceOutcomes[d]} = 1 .. (result.sequence - 1)
  BY ConsumedOutcome
<1>2. result \in DeviceOutcomes'[d]
  BY <1>1 DEF DeviceOutcomes
<1>3. \E e \in Devices :
        /\ result \in DeviceOutcomes'[e]
        /\ {o.sequence : o \in DeviceOutcomes[e]} = 1 .. (result.sequence - 1)
        /\ DeviceOutcomes' = [DeviceOutcomes EXCEPT ![e] = @ \cup {result}]
  BY <1>1, <1>2
<1> HIDE DEF d
<1>4. \E e \in Devices : Contract!Consume(e)
  BY <1>3 DEF Contract!Consume
<1> QED BY <1>4 DEF Contract!Next

-----------------------------------------------------------------------------
LEMMA RefinesInit == Init => Contract!Init
<1> SUFFICES ASSUME Init PROVE Contract!Init
  OBVIOUS
<1>1. Revisions = [n \in Notes |-> 0] /\ body = [n \in Notes |-> Absent]
  BY DEF Init, Revisions, EmptyStore, NoRow
<1>2. DeviceOutcomes = [d \in Devices |-> {}]
  BY DEF Init, DeviceOutcomes, OutcomesOf, Pushed
<1> QED BY <1>1, <1>2 DEF Contract!Init

(* A write is committed together with its outcome, or with none. *)
LEMMA WriteRefines ==
  ASSUME ServerInv, ServerInv', PinNote \/ CommitSave \/ CommitDelete
  PROVE  Contract!Next
<1>1. /\ Consume(Written) /\ CurrentIsNext /\ handler.todo # <<>>
  BY DEF PinNote, CommitSave, CommitDelete, Commit, ServerInv, PushInv, StagedIsNext,
         CurrentIsNext, Due, Working, TypeInv, RequestInv
<1>2. Written \in Result
  BY <1>1, OutcomeTyped DEF ServerInv
<1>3. Written.sequence = Current.sequence /\ Written.status = "applied"
  BY DEF Written, Outcome
<1>4. PICK n \in Notes :
        /\ Contract!Change(n, Written.revision)
        /\ Written.revision = IF Revisions'[n] > 0 THEN Revisions'[n] ELSE Revisions[n] + 1
  BY WriteIsChange
<1>5. CASE handler.source = "push"
  BY <1>1, <1>2, <1>3, <1>4, <1>5, ConsumedContract
<1>6. CASE handler.source # "push"
  <2>1. DeviceOutcomes' = DeviceOutcomes
    BY <1>1, <1>6, DirectOutcomes
  <2>2. Contract!Change(n, IF Revisions'[n] > 0 THEN Revisions'[n] ELSE Revisions[n] + 1)
    BY <1>4
  <2>3. Contract!DirectWrite
    BY <2>1, <2>2 DEF Contract!DirectWrite
  <2> QED BY <2>3 DEF Contract!Next
<1> QED BY <1>5, <1>6

(* A conflict or a noop is consumed without a change. *)
LEMMA NoWriteRefines ==
  ASSUME ServerInv, ServerInv', Conflict \/ Noop
  PROVE  [Contract!Next]_(Contract!vars)
<1>1. PICK result \in Result :
        /\ Consume(result) /\ result.sequence = Current.sequence
        /\ result.status = "conflict" \/ (result.status = "applied" /\ result.revision = 0)
  <2>1. handler.todo # <<>>
    BY DEF Conflict, Noop, Due, Working
  <2>2. CASE Conflict
    <3>1. Outcome("conflict", CurrentRevision(db, Current.draft.note)) \in Result
      BY <2>1, OutcomeTyped DEF ServerInv
    <3>2. Consume(Outcome("conflict", CurrentRevision(db, Current.draft.note)))
      BY <2>2 DEF Conflict
    <3> QED BY <3>1, <3>2 DEF Outcome
  <2>3. CASE Noop
    <3>1. Outcome("applied", 0) \in Result
      BY <2>1, OutcomeTyped DEF ServerInv
    <3>2. Consume(Outcome("applied", 0))
      BY <2>3 DEF Noop
    <3> QED BY <3>1, <3>2 DEF Outcome
  <2> QED BY <2>2, <2>3
<1>2. UNCHANGED <<Revisions, body>>
  BY DEF Conflict, Noop, note_state, Revisions
<1>3. CurrentIsNext
  BY DEF Conflict, Noop, Due, CurrentIsNext
<1>4. CASE handler.source = "push"
  <2>1. Contract!Next
    BY <1>1, <1>2, <1>3, <1>4, ConsumedContract
  <2> QED BY <2>1
<1>5. CASE handler.source # "push"
  BY <1>1, <1>2, <1>5, DirectOutcomes DEF Contract!vars
<1> QED BY <1>4, <1>5

LEMMA RefinesNext == ServerInv /\ ServerInv' /\ [Next]_vars => [Contract!Next]_(Contract!vars)
<1> SUFFICES ASSUME ServerInv, ServerInv', [Next]_vars PROVE [Contract!Next]_(Contract!vars)
  OBVIOUS
<1>1. CASE PinNote \/ CommitSave \/ CommitDelete
  BY <1>1, WriteRefines
<1>2. CASE Conflict \/ Noop
  BY <1>2, NoWriteRefines
<1>3. ASSUME UNCHANGED <<db, body, lastSequence, applied>>
      PROVE  [Contract!Next]_(Contract!vars)
  BY <1>3, QuietOutcomes DEF Revisions, Contract!vars
<1>4. CASE Devices_Next
  BY <1>3, <1>4 DEF Devices_Next, Enqueue, RestoreProfile, Push, DirectWrite, ReadNote,
                    note_state, device_state
<1>5. CASE Recovery
  BY <1>3, <1>5 DEF Recovery, RecoverOne, RecordFailure, FinishRecovery, FailRecovery,
                    note_state, device_state
<1>6. CASE Operations /\ ~(PinNote \/ CommitSave \/ CommitDelete \/ Conflict \/ Noop)
  BY <1>3, <1>6 DEF Operations, ReplayStored, ReplayCompacted, RefuseReplay, RefuseGap,
                    RefuseDirect, StageFile, Abort, CompleteFile, FailFile, Respond,
                    note_state, device_state
<1>7. CASE Crash \/ Start \/ UNCHANGED vars
  BY <1>3, <1>7 DEF Crash, Start, note_state, device_state, vars
<1> QED BY <1>1, <1>2, <1>4, <1>5, <1>6, <1>7 DEF Next

LEMMA InvariantServer == Spec => []ServerInv
<1>1. TypeInv /\ FilesInv /\ TypeInv /\ PushInv => ServerInv
  BY DEF ServerInv
<1> QED BY <1>1, InvariantFiles, InvariantPush, PTL

(* Retries, crashes, file operations and compaction are invisible: for every *)
(* set of notes and devices the server implements the contract that its      *)
(* operations are consumed one at a time, in order, each with its own effect *)
(* (sync_ops.go, handleSyncPush and applySyncOperation).                     *)
THEOREM ServerImplementsContract == Spec => ImplementsContract
BY RefinesInit, RefinesNext, InvariantServer, PTL DEF Spec, ImplementsContract, Contract!Spec
-----------------------------------------------------------------------------
(* Reads. While no file system call has failed, a file operation outlives    *)
(* its request only in a crash, which empties the cache too, and the next    *)
(* request begins by carrying it out: so what is cached is the committed     *)
(* content, but for the note whose file operation is being carried out.      *)
FileOpsInHand ==
  /\ \A f \in fileOps : ~f.quarantined
  /\ At("idle") \/ At("operations") \/ At("staged") => fileOps = {}
  /\ At("recover") => fileOps \subseteq handler.recovering
  /\ At("committed") => fileOps \subseteq handler.pending

CacheCurrent ==
  \A n \in Notes :
    cache[n] # Absent /\ (At("committed") => \A f \in handler.pending : f.note # n)
      => cache[n] = body[n]

ReadsInv ==
  /\ budget.faults <= MaxFaults
  /\ Unfaulted => FileOpsInHand /\ CacheCurrent

LEMMA InitReads == Init => ReadsInv
BY BoundsAssumption
   DEF Init, ReadsInv, Unfaulted, FileOpsInHand, CacheCurrent, At, Idle

(* The model's fault: from then on nothing is claimed.                       *)
LEMMA FaultSpent ==
  ASSUME TypeInv, ReadsInv, budget.faults > 0, budget' = [budget EXCEPT !.faults = @ - 1]
  PROVE  ReadsInv'
<1>1. budget.faults \in Nat /\ MaxFaults \in Nat
  BY BoundsAssumption DEF TypeInv, TypeOK
<1>2. budget'.faults = budget.faults - 1
  BY DEF TypeInv, TypeOK
<1> QED BY <1>1, <1>2 DEF ReadsInv, Unfaulted

LEMMA NextReads == TypeInv /\ FilesInv /\ ReadsInv /\ [Next]_vars => ReadsInv'
<1> SUFFICES ASSUME TypeInv, FilesInv, ReadsInv, [Next]_vars PROVE ReadsInv'
  OBVIOUS
<1>0. /\ handler \in Handler /\ cache \in [Notes -> Content] /\ body \in [Notes -> Content]
      /\ fileOps \subseteq FileOp
      /\ budget \in [direct : Nat, rollbacks : Nat, faults : Nat, crashes : Nat]
  BY DEF TypeInv, TypeOK
<1>1. ASSUME budget'.faults = budget.faults, Unfaulted => FileOpsInHand' /\ CacheCurrent'
      PROVE  ReadsInv'
  BY <1>1 DEF ReadsInv, Unfaulted
<1>2. ASSUME budget'.faults = budget.faults, UNCHANGED <<fileOps, cache, body, handler>>
      PROVE  ReadsInv'
  BY <1>1, <1>2 DEF ReadsInv, FileOpsInHand, CacheCurrent, At
<1>3. ASSUME NEW source, NEW device, NEW todo, handler' = Recovering(source, device, todo),
             At("idle") \/ At("down"), budget'.faults = budget.faults,
             UNCHANGED <<fileOps, cache, body>>
      PROVE  ReadsInv'
  <2>1. handler'.pc = "recover" /\ handler'.recovering = Unquarantined
    BY <1>3 DEF Recovering, Idle
  <2> QED BY <1>1, <1>3, <2>1 DEF ReadsInv, FileOpsInHand, CacheCurrent, At, Unquarantined
\* a request that works on its operations goes on, or ends
<1>4. ASSUME Working, handler' = Idle \/ handler'.pc \in {"operations", "staged"},
             budget' = budget, UNCHANGED <<fileOps, cache, body>>
      PROVE  ReadsInv'
  BY <1>1, <1>4 DEF ReadsInv, FileOpsInHand, CacheCurrent, At, Working, Idle
<1>5. ASSUME NEW result, Acknowledge(result), Working
      PROVE  handler'.pc = "operations"
  BY <1>0, <1>5 DEF Acknowledge, Working, At, Handler
<1>6. ASSUME NEW f \in handler.recovering, RecoverOne(f) PROVE ReadsInv'
  <2>1. /\ handler'.pc = "recover" /\ handler'.recovering = handler.recovering \ {f}
        /\ At("recover") /\ fileOps' = fileOps \ {f} /\ UNCHANGED <<cache, body, budget>>
    BY <1>0, <1>6 DEF RecoverOne, At, Handler, environment
  <2> QED BY <1>1, <2>1 DEF ReadsInv, FileOpsInHand, CacheCurrent, At
<1>7. ASSUME NEW f \in fileOps, Faulty(f) PROVE ReadsInv'
  <2>1. CanComplete(f)
    BY DEF FilesInv, FileOpsCurrent
  <2> QED BY <1>7, <2>1, FaultSpent DEF Faulty
<1>8. ASSUME NEW f \in handler.recovering, RecordFailure(f) PROVE ReadsInv'
  BY <1>7, <1>8 DEF RecordFailure, FilesInv, RequestsUnblocked
<1>9. CASE FinishRecovery
  <2>1. /\ handler'.pc \in {"idle", "operations"} /\ At("recover") /\ handler.recovering = {}
        /\ UNCHANGED <<fileOps, cache, body, budget>>
    BY <1>0, <1>9 DEF FinishRecovery, At, Handler, Idle, environment
  <2> QED BY <1>1, <2>1 DEF ReadsInv, FileOpsInHand, CacheCurrent, At
<1>10. CASE FailRecovery
  BY <1>10, FaultSpent DEF FailRecovery
<1>11. CASE ReplayStored \/ ReplayCompacted \/ RefuseReplay \/ RefuseGap
  BY <1>11, <1>4, <1>5 DEF ReplayStored, ReplayCompacted, RefuseReplay, RefuseGap, Replaying,
     note_state, environment
<1>12. CASE Conflict \/ Noop \/ PinNote
  BY <1>12, <1>4, <1>5 DEF Conflict, Noop, PinNote, Due, note_state, environment
<1>13. CASE StageFile
  <2>1. handler'.pc = "staged"
    BY <1>0, <1>13 DEF StageFile, Handler
  <2> QED BY <1>4, <1>13, <2>1 DEF StageFile, Due, environment
<1>14. CASE Abort \/ RefuseDirect
  <2>1. CASE Abort
    BY <2>1, FaultSpent DEF Abort
  <2>2. CASE RefuseDirect
    <3>1. /\ handler'.pc = "idle"
          /\ At("operations") \/ At("staged")
          /\ UNCHANGED <<fileOps, cache, body, budget>>
      BY <2>2 DEF RefuseDirect, Due, Working, At, Idle, environment
    <3> QED BY <1>1, <3>1 DEF ReadsInv, FileOpsInHand, CacheCurrent, At
  <2> QED BY <1>14, <2>1, <2>2
<1>15. ASSUME NEW action, NEW content \in Content, Commit(action, content),
              Working \/ At("staged"), UNCHANGED <<cache, budget>>
       PROVE  ReadsInv'
  <2> DEFINE f == [id |-> db.newest + 1, action |-> action, note |-> Current.draft.note,
                   body |-> content, failures |-> 0, quarantined |-> FALSE]
  <2>1. /\ fileOps' = fileOps \cup {f} /\ body' = [body EXCEPT ![f.note] = content]
        /\ handler'.pc = "committed" /\ handler'.pending = {f}
    BY <1>0, <1>15 DEF Commit, Handler
  <2>2. ~f.quarantined
    OBVIOUS
  <2> HIDE DEF f
  <2>3. \A n \in Notes : n # f.note => body'[n] = body[n]
    BY <1>0, <2>1
  <2> QED BY <1>1, <1>15, <2>1, <2>2, <2>3 DEF ReadsInv, FileOpsInHand, CacheCurrent, At, Working
<1>16. CASE CommitSave
  <2>1. Current.draft.body \in Content
    BY <1>16, CurrentTyped DEF TypeInv, RequestInv, CommitSave
  <2> QED BY <1>15, <1>16, <2>1 DEF CommitSave, environment
<1>17. CASE CommitDelete
  BY <1>15, <1>17 DEF CommitDelete, Due, Content, environment
<1>18. ASSUME NEW f \in handler.pending, CompleteFile(f) PROVE ReadsInv'
  <2>1. f \in fileOps /\ handler.pending = {f}
    BY <1>18 DEF CompleteFile, FilesInv, RequestsUnblocked
  <2>2. /\ handler'.pc = "operations" /\ At("committed") /\ fileOps' = fileOps \ {f}
        /\ UNCHANGED <<body, budget>>
    BY <1>0, <1>18 DEF CompleteFile, Handler, environment
  <2>3. f.body = body[f.note] /\ f.note \in Notes
    BY <1>0, <2>1 DEF FilesInv, FileOpsCurrent, FileOp
  <2>4. \A n \in Notes : cache'[n] # Absent =>
          IF n = f.note THEN cache'[n] = f.body ELSE cache'[n] = cache[n]
    BY <1>0, <1>18, <2>3 DEF CompleteFile, CacheSet, CacheDelete
  <2> QED BY <1>1, <2>1, <2>2, <2>3, <2>4 DEF ReadsInv, FileOpsInHand, CacheCurrent, At
<1>19. ASSUME NEW f \in handler.pending, FailFile(f) PROVE ReadsInv'
  BY <1>7, <1>19 DEF FailFile, FilesInv, RequestsUnblocked
<1>20. CASE Respond
  BY <1>1, <1>20 DEF Respond, note_state, environment, ReadsInv, FileOpsInHand, CacheCurrent,
     At, Idle
<1>21. CASE Devices_Next
  <2>1. CASE \E d \in Devices, draft \in Drafts : Enqueue(d, draft)
    BY <2>1, <1>2 DEF Enqueue, note_state
  <2>2. CASE \E d \in Devices : \E kept \in 0 .. Len(outbox[d]) : RestoreProfile(d, kept)
    BY <2>2, <1>0, <1>2 DEF RestoreProfile, note_state
  <2>3. CASE \E d \in Devices : \E from, to \in 1 .. Len(outbox[d]) : Push(d, from, to)
    BY <2>3, <1>3 DEF Push, note_state, environment
  <2>4. CASE \E draft \in Drafts : DirectWrite(draft)
    BY <2>4, <1>0, <1>3 DEF DirectWrite, note_state
  <2>5. ASSUME NEW n \in Notes, ReadNote(n) PROVE ReadsInv'
    <3>1. At("idle") /\ UNCHANGED <<fileOps, body, handler, budget>>
      BY <2>5 DEF ReadNote, environment
    <3>2. \A m \in Notes : cache'[m] # Absent =>
            IF m = n THEN cache'[m] = files[n] ELSE cache'[m] = cache[m]
      BY <2>5 DEF ReadNote, CacheSet
    <3>3. Unfaulted => files[n] = body[n]
      BY <3>1 DEF ReadsInv, FileOpsInHand, FilesInv, OutstandingRecorded
    <3> QED BY <1>1, <3>1, <3>2, <3>3 DEF ReadsInv, FileOpsInHand, CacheCurrent, At
  <2> QED BY <1>21, <2>1, <2>2, <2>3, <2>4, <2>5 DEF Devices_Next
<1>22. CASE Crash
  <2>1. /\ handler'.pc = "down" /\ UNCHANGED <<fileOps, body>> /\ budget'.faults = budget.faults
        /\ \A n \in Notes : cache'[n] = Absent
    BY <1>0, <1>22 DEF Crash, Down, Idle
  <2> QED BY <1>1, <2>1 DEF ReadsInv, FileOpsInHand, CacheCurrent, At
<1>23. CASE Start
  BY <1>3, <1>23 DEF Start, note_state, environment
<1>24. CASE UNCHANGED vars
  BY <1>2, <1>24 DEF vars
<1>25. CASE Recovery
  BY <1>25, <1>6, <1>8, <1>9, <1>10 DEF Recovery
<1>26. CASE Operations
  BY <1>26, <1>11, <1>12, <1>13, <1>14, <1>16, <1>17, <1>18, <1>19, <1>20 DEF Operations
<1> QED BY <1>21, <1>22, <1>23, <1>24, <1>25, <1>26 DEF Next

(* Whenever no request is in progress, and no file system call has failed,   *)
(* a read returns the content of the revision it returns: what the cache or  *)
(* the file holds is what the row's revision committed, crashes and all      *)
(* (handlers.go, loadNoteWithContent).                                       *)
THEOREM ReadsAreCurrent == Spec => []ReadsReturnTheirRevision
<1>1. TypeInv /\ FilesInv /\ ReadsInv => ReadsReturnTheirRevision
  BY DEF FilesInv, OutstandingRecorded, ReadsInv, FileOpsInHand, CacheCurrent,
         ReadsReturnTheirRevision, View, At
<1> QED BY <1>1, InitTyped, InitFiles, InitReads, NextTyped, NextFiles, NextReads, PTL DEF Spec
=============================================================================
