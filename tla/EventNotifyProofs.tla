-------------------------- MODULE EventNotifyProofs --------------------------
(***************************************************************************)
(* Proofs about EventNotify, for any set of handles and of IRPs.           *)
(***************************************************************************)
EXTENDS EventNotify, TLAPS

USE IoAssumption, EventAssumption

LEMMA AcquireType ==
  ASSUME rundown \in [Files -> SUBSET Reqs], NEW r \in Reqs,
         IoAcquireRemoveLock(r)
  PROVE  rundown' \in [Files -> SUBSET Reqs]
BY DEF IoAcquireRemoveLock

\* Every variable keeps its type: in particular no IRP is completed with a
\* status that EventDispatchIoControl may not complete it with (STATUS_PENDING).
THEOREM TypeCorrect == Spec => []TypeOK
<1> USE DEF TypeOK, IoTypeOK, vars, ioVars, irpVars, cancelVars, recordVars,
            PCs, Kinds, MemStates, LinkStates, TimerStates, Statuses,
            FileStates, CancellerStates
<1>1. Init => TypeOK
  BY DEF Init, IoInit
<1>2. TypeOK /\ [Next]_vars => TypeOK'
  <2> SUFFICES ASSUME TypeOK, [Next]_vars
               PROVE  TypeOK'
    OBVIOUS
  <2> USE DEF SetPC, Finish, SetCancelRoutine, IoCompleteRequest
  <2>1. ASSUME NEW r \in Reqs, NEW f \in Files, Issue(r, f)
        PROVE  TypeOK'
    BY <2>1 DEF Issue, IssueIrp
  <2>2. ASSUME NEW r \in Reqs, Dispatch(r)
        PROVE  TypeOK'
    <3>1. CASE DispatchEnter(r)
      <4>1. rundown' \in [Files -> SUBSET Reqs]
        BY <3>1, AcquireType DEF DispatchEnter
      <4> QED
        BY <3>1, <4>1 DEF DispatchEnter
    <3>2. CASE DispatchRefused(r)
      BY <3>2 DEF DispatchRefused
    <3>3. CASE RegisterFails(r)
      BY <3>3 DEF RegisterFails
    <3>4. CASE AllocateIrpRecord(r)
      BY <3>4 DEF AllocateIrpRecord
    <3>5. CASE AllocateEventRecord(r)
      BY <3>5 DEF AllocateEventRecord
    <3>6. CASE RegSetCancelRoutine(r)
      BY <3>6 DEF RegSetCancelRoutine
    <3>7. CASE RegCheckCancel(r)
      BY <3>7 DEF RegCheckCancel
    <3>8. CASE RegCancelled(r)
      BY <3>8 DEF RegCancelled, Freed
    <3>9. CASE RegLostToCancel(r)
      BY <3>9 DEF RegLostToCancel
    <3>10. CASE RegInsert(r)
      BY <3>10 DEF RegInsert
    <3>11. CASE RegInsertEvent(r)
      BY <3>11 DEF RegInsertEvent
    <3>12. CASE RegArmEvent(r)
      BY <3>12 DEF RegArmEvent
    <3>13. CASE CompleteDispatch(r)
      BY <3>13 DEF CompleteDispatch
    <3>14. CASE DispatchRelease(r)
      BY <3>14 DEF DispatchRelease, IoReleaseRemoveLock
    <3> QED
      BY <2>2, <3>1, <3>2, <3>3, <3>4, <3>5, <3>6, <3>7, <3>8, <3>9, <3>10,
         <3>11, <3>12, <3>13, <3>14 DEF Dispatch
  <2>3. ASSUME NEW r \in Reqs, Cancel(r)
        PROVE  TypeOK'
    BY <2>3 DEF Cancel, IoCancelIrp
  <2>4. ASSUME NEW r \in Reqs, CancelStep(r)
        PROVE  TypeOK'
    <3>1. CASE CallCancelRoutine(r)
      BY <3>1 DEF CallCancelRoutine, IoCallCancelRoutine
    <3>2. CASE EventCancelRoutine(r)
      BY <3>2 DEF EventCancelRoutine, Removed, Reinitialized, Freed
    <3>3. CASE CancelComplete(r)
      BY <3>3 DEF CancelComplete
    <3> QED
      BY <2>4, <3>1, <3>2, <3>3 DEF CancelStep
  <2>5. ASSUME NEW r \in Reqs, TimerExpire(r)
        PROVE  TypeOK'
    BY <2>5 DEF TimerExpire
  <2>6. ASSUME NEW r \in Reqs, CustomTimerDPC(r)
        PROVE  TypeOK'
    <3>1. CASE DpcTakeIrp(r)
      BY <3>1 DEF DpcTakeIrp, Removed
    <3>2. CASE DpcLeaveToCancel(r)
      BY <3>2 DEF DpcLeaveToCancel, Removed, Reinitialized
    <3>3. CASE DpcAfterCancel(r)
      BY <3>3 DEF DpcAfterCancel, Removed
    <3>4. CASE DpcSignalEvent(r)
      BY <3>4 DEF DpcSignalEvent, Removed
    <3>5. CASE DpcComplete(r)
      BY <3>5 DEF DpcComplete
    <3>6. CASE DpcRelock(r)
      BY <3>6 DEF DpcRelock
    <3>7. CASE DpcFree(r)
      BY <3>7 DEF DpcFree, Freed
    <3> QED
      BY <2>6, <3>1, <3>2, <3>3, <3>4, <3>5, <3>6, <3>7 DEF CustomTimerDPC
  <2>7. ASSUME NEW r \in Reqs, CleanupComplete(r)
        PROVE  TypeOK'
    BY <2>7 DEF CleanupComplete
  <2>8. ASSUME NEW f \in Files, Create(f)
        PROVE  TypeOK'
    BY <2>8 DEF Create, IoCreateFile
  <2>9. ASSUME NEW f \in Files, CleanupStart(f)
        PROVE  TypeOK'
    BY <2>9 DEF CleanupStart, IoCloseHandle
  <2>10. ASSUME NEW f \in Files, CleanupWalk(f)
         PROVE  TypeOK'
    <3>1. Owned(f) \subseteq Reqs
      BY DEF Owned, Stopped, EventQueue
    <3> QED
      BY <2>10, <3>1 DEF CleanupWalk, Removed, Freed
  <2>11. ASSUME NEW f \in Files, CleanupEnd(f)
         PROVE  TypeOK'
    BY <2>11 DEF CleanupEnd
  <2>12. ASSUME NEW f \in Files, Close(f)
         PROVE  TypeOK'
    BY <2>12 DEF Close, IoCloseFile
  <2>13. CASE EventUnload
    BY <2>13 DEF EventUnload
  <2>14. CASE UNCHANGED vars
    BY <2>14
  <2> QED
    BY <2>1, <2>2, <2>3, <2>4, <2>5, <2>6, <2>7, <2>8, <2>9, <2>10, <2>11,
       <2>12, <2>13, <2>14 DEF Next, Cleanup, Terminated
<1> QED
  BY <1>1, <1>2, PTL DEF Spec

(***************************************************************************)
(* The mode of one record.                                                 *)
(***************************************************************************)

\* What the mode of an IRP and its record depends on.
Local(q) == <<pc[q], status[q], kind[q], mem[q], link[q], pendingIrp[q],
              freeMem[q], context[q], eventRef[q], timer[q], cancel[q],
              cancelRoutine[q], canceller[q], completions[q]>>

\* An activity on one record leaves the other records in their modes.
LEMMA ModeFrame ==
  ASSUME NEW q \in Reqs, Mode(q), Local(q)' = Local(q),
         q \in cleanupList' <=> q \in cleanupList
  PROVE  Mode(q)'
BY DEF Local, Mode, NoRecord, Registering, GivenUp, Queued, LeftToDpc,
       LeftToCancel, DpcOwns, CleanupOwns, Gone, EventRecord, Record, Quiet,
       NotCalled, Cancellable, CancelWaits, CancelAnswers, DispatchAnswers,
       Registered

\* Every activity takes the record it works on from one mode to another.
LEMMA ModeStep ==
  ASSUME TypeOK, RecordLife, LockHolder, HandleInUse, [Next]_vars,
         NEW q \in Reqs
  PROVE  Mode(q)'
<1> USE DEF TypeOK, IoTypeOK, vars, ioVars, irpVars, cancelVars, recordVars,
            SetPC, Finish, SetCancelRoutine, IoCompleteRequest, LockHolder
<1>0. Mode(q)
  BY DEF RecordLife
<1>1. ASSUME NEW r \in Reqs, NEW f \in Files, Issue(r, f)
      PROVE  Mode(q)'
  <2>1. CASE q # r
    BY <1>0, <1>1, <2>1, ModeFrame DEF Local, Issue, IssueIrp
  <2>2. CASE q = r
    BY <1>0, <1>1, <2>2 DEF Issue, IssueIrp, Mode, NoRecord, Registering,
       GivenUp, Queued, LeftToDpc, LeftToCancel, DpcOwns, CleanupOwns, Gone,
       EventRecord, Record, Quiet, NotCalled, Cancellable, CancelWaits,
       CancelAnswers, DispatchAnswers, Registered
  <2> QED
    BY <2>1, <2>2
<1>2. ASSUME NEW r \in Reqs, Dispatch(r)
      PROVE  Mode(q)'
  <2>1. CASE DispatchEnter(r)
    <3>1. CASE q # r
      BY <1>0, <2>1, <3>1, ModeFrame DEF Local, DispatchEnter,
         IoAcquireRemoveLock
    <3>2. CASE q = r
      BY <1>0, <2>1, <3>2 DEF DispatchEnter, IoAcquireRemoveLock, Mode,
         NoRecord, Registering, GivenUp, Queued, LeftToDpc, LeftToCancel,
         DpcOwns, CleanupOwns, Gone, EventRecord, Record, Quiet, NotCalled,
         Cancellable, CancelWaits, CancelAnswers, DispatchAnswers, Registered
    <3> QED
      BY <3>1, <3>2
  <2>2. CASE DispatchRefused(r)
    <3>1. CASE q # r
      BY <1>0, <2>2, <3>1, ModeFrame DEF Local, DispatchRefused
    <3>2. CASE q = r
      BY <1>0, <2>2, <3>2 DEF DispatchRefused, Mode, NoRecord, Registering,
         GivenUp, Queued, LeftToDpc, LeftToCancel, DpcOwns, CleanupOwns, Gone,
         EventRecord, Record, Quiet, NotCalled, Cancellable, CancelWaits,
         CancelAnswers, DispatchAnswers, Registered
    <3> QED
      BY <3>1, <3>2
  <2>3. CASE RegisterFails(r)
    <3>1. CASE q # r
      BY <1>0, <2>3, <3>1, ModeFrame DEF Local, RegisterFails
    <3>2. CASE q = r
      BY <1>0, <2>3, <3>2 DEF RegisterFails, Mode, NoRecord, Registering,
         GivenUp, Queued, LeftToDpc, LeftToCancel, DpcOwns, CleanupOwns, Gone,
         EventRecord, Record, Quiet, NotCalled, Cancellable, CancelWaits,
         CancelAnswers, DispatchAnswers, Registered
    <3> QED
      BY <3>1, <3>2
  <2>4. CASE AllocateIrpRecord(r)
    <3>1. CASE q # r
      BY <1>0, <2>4, <3>1, ModeFrame DEF Local, AllocateIrpRecord
    <3>2. CASE q = r
      BY <1>0, <2>4, <3>2 DEF AllocateIrpRecord, Mode, NoRecord, Registering,
         GivenUp, Queued, LeftToDpc, LeftToCancel, DpcOwns, CleanupOwns, Gone,
         EventRecord, Record, Quiet, NotCalled, Cancellable, CancelWaits,
         CancelAnswers, DispatchAnswers, Registered
    <3> QED
      BY <3>1, <3>2
  <2>5. CASE AllocateEventRecord(r)
    <3>1. CASE q # r
      BY <1>0, <2>5, <3>1, ModeFrame DEF Local, AllocateEventRecord
    <3>2. CASE q = r
      BY <1>0, <2>5, <3>2 DEF AllocateEventRecord, Mode, NoRecord,
         Registering, GivenUp, Queued, LeftToDpc, LeftToCancel, DpcOwns,
         CleanupOwns, Gone, EventRecord, Record, Quiet, NotCalled,
         Cancellable, CancelWaits, CancelAnswers, DispatchAnswers, Registered
    <3> QED
      BY <3>1, <3>2
  <2>6. CASE RegSetCancelRoutine(r)
    <3>1. CASE q # r
      BY <1>0, <2>6, <3>1, ModeFrame DEF Local, RegSetCancelRoutine, LockFree
    <3>2. CASE q = r
      BY <1>0, <2>6, <3>2 DEF RegSetCancelRoutine, LockFree, Mode, NoRecord,
         Registering, GivenUp, Queued, LeftToDpc, LeftToCancel, DpcOwns,
         CleanupOwns, Gone, EventRecord, Record, Quiet, NotCalled,
         Cancellable, CancelWaits, CancelAnswers, DispatchAnswers, Registered
    <3> QED
      BY <3>1, <3>2
  <2>7. CASE RegCheckCancel(r)
    <3>1. CASE q # r
      BY <1>0, <2>7, <3>1, ModeFrame DEF Local, RegCheckCancel
    <3>2. CASE q = r
      BY <1>0, <2>7, <3>2 DEF RegCheckCancel, Mode, NoRecord, Registering,
         GivenUp, Queued, LeftToDpc, LeftToCancel, DpcOwns, CleanupOwns, Gone,
         EventRecord, Record, Quiet, NotCalled, Cancellable, CancelWaits,
         CancelAnswers, DispatchAnswers, Registered
    <3> QED
      BY <3>1, <3>2
  <2>8. CASE RegCancelled(r)
    <3>1. CASE q # r
      BY <1>0, <2>8, <3>1, ModeFrame DEF Local, RegCancelled, ClearedByUs,
         Freed
    <3>2. CASE q = r
      BY <1>0, <2>8, <3>2 DEF RegCancelled, ClearedByUs, Freed, Mode,
         NoRecord, Registering, GivenUp, Queued, LeftToDpc, LeftToCancel,
         DpcOwns, CleanupOwns, Gone, EventRecord, Record, Quiet, NotCalled,
         Cancellable, CancelWaits, CancelAnswers, DispatchAnswers, Registered
    <3> QED
      BY <3>1, <3>2
  <2>9. CASE RegLostToCancel(r)
    <3>1. CASE q # r
      BY <1>0, <2>9, <3>1, ModeFrame DEF Local, RegLostToCancel, ClearedByUs
    <3>2. CASE q = r
      BY <1>0, <2>9, <3>2 DEF RegLostToCancel, ClearedByUs, Mode, NoRecord,
         Registering, GivenUp, Queued, LeftToDpc, LeftToCancel, DpcOwns,
         CleanupOwns, Gone, EventRecord, Record, Quiet, NotCalled,
         Cancellable, CancelWaits, CancelAnswers, DispatchAnswers, Registered
    <3> QED
      BY <3>1, <3>2
  <2>10. CASE RegInsert(r)
    <3>1. CASE q # r
      BY <1>0, <2>10, <3>1, ModeFrame DEF Local, RegInsert
    <3>2. CASE q = r
      BY <1>0, <2>10, <3>2 DEF RegInsert, Mode, NoRecord, Registering,
         GivenUp, Queued, LeftToDpc, LeftToCancel, DpcOwns, CleanupOwns, Gone,
         EventRecord, Record, Quiet, NotCalled, Cancellable, CancelWaits,
         CancelAnswers, DispatchAnswers, Registered
    <3> QED
      BY <3>1, <3>2
  <2>11. CASE RegInsertEvent(r)
    <3>1. CASE q # r
      BY <1>0, <2>11, <3>1, ModeFrame DEF Local, RegInsertEvent, LockFree
    <3>2. CASE q = r
      BY <1>0, <2>11, <3>2 DEF RegInsertEvent, LockFree, Mode, NoRecord,
         Registering, GivenUp, Queued, LeftToDpc, LeftToCancel, DpcOwns,
         CleanupOwns, Gone, EventRecord, Record, Quiet, NotCalled,
         Cancellable, CancelWaits, CancelAnswers, DispatchAnswers, Registered
    <3> QED
      BY <3>1, <3>2
  <2>12. CASE RegArmEvent(r)
    <3>1. CASE q # r
      BY <1>0, <2>12, <3>1, ModeFrame DEF Local, RegArmEvent
    <3>2. CASE q = r
      BY <1>0, <2>12, <3>2 DEF RegArmEvent, Mode, NoRecord, Registering,
         GivenUp, Queued, LeftToDpc, LeftToCancel, DpcOwns, CleanupOwns, Gone,
         EventRecord, Record, Quiet, NotCalled, Cancellable, CancelWaits,
         CancelAnswers, DispatchAnswers, Registered
    <3> QED
      BY <3>1, <3>2
  <2>13. CASE CompleteDispatch(r)
    <3>1. CASE q # r
      BY <1>0, <2>13, <3>1, ModeFrame DEF Local, CompleteDispatch
    <3>2. CASE q = r
      BY <1>0, <2>13, <3>2 DEF CompleteDispatch, Mode, NoRecord, Registering,
         GivenUp, Queued, LeftToDpc, LeftToCancel, DpcOwns, CleanupOwns, Gone,
         EventRecord, Record, Quiet, NotCalled, Cancellable, CancelWaits,
         CancelAnswers, DispatchAnswers, Registered
    <3> QED
      BY <3>1, <3>2
  <2>14. CASE DispatchRelease(r)
    <3>1. CASE q # r
      BY <1>0, <2>14, <3>1, ModeFrame DEF Local, DispatchRelease,
         IoReleaseRemoveLock
    <3>2. CASE q = r
      BY <1>0, <2>14, <3>2 DEF DispatchRelease, IoReleaseRemoveLock, Mode,
         NoRecord, Registering, GivenUp, Queued, LeftToDpc, LeftToCancel,
         DpcOwns, CleanupOwns, Gone, EventRecord, Record, Quiet, NotCalled,
         Cancellable, CancelWaits, CancelAnswers, DispatchAnswers, Registered
    <3> QED
      BY <3>1, <3>2
  <2> QED
    BY <1>2, <2>1, <2>2, <2>3, <2>4, <2>5, <2>6, <2>7, <2>8, <2>9, <2>10,
       <2>11, <2>12, <2>13, <2>14 DEF Dispatch
<1>3. ASSUME NEW r \in Reqs, CancelStep(r)
      PROVE  Mode(q)'
  <2>1. CASE CallCancelRoutine(r)
    <3>1. CASE q # r
      BY <1>0, <2>1, <3>1, ModeFrame DEF Local, CallCancelRoutine,
         IoCallCancelRoutine
    <3>2. CASE q = r
      BY <1>0, <2>1, <3>2 DEF CallCancelRoutine, IoCallCancelRoutine, Mode,
         NoRecord, Registering, GivenUp, Queued, LeftToDpc, LeftToCancel,
         DpcOwns, CleanupOwns, Gone, EventRecord, Record, Quiet, NotCalled,
         Cancellable, CancelWaits, CancelAnswers, DispatchAnswers, Registered
    <3> QED
      BY <3>1, <3>2
  <2>2. CASE EventCancelRoutine(r)
    <3>1. CASE q # r
      BY <1>0, <2>2, <3>1, ModeFrame DEF Local, EventCancelRoutine,
         CancelFrees, TimerStoppable, Removed, Reinitialized, Freed, LockFree
    <3>2. CASE q = r
      BY <1>0, <2>2, <3>2 DEF EventCancelRoutine, CancelFrees, TimerStoppable,
         Removed, Reinitialized, Freed, LockFree, Mode, NoRecord, Registering,
         GivenUp, Queued, LeftToDpc, LeftToCancel, DpcOwns, CleanupOwns, Gone,
         EventRecord, Record, Quiet, NotCalled, Cancellable, CancelWaits,
         CancelAnswers, DispatchAnswers, Registered
    <3> QED
      BY <3>1, <3>2
  <2>3. CASE CancelComplete(r)
    <3>1. CASE q # r
      BY <1>0, <2>3, <3>1, ModeFrame DEF Local, CancelComplete
    <3>2. CASE q = r
      BY <1>0, <2>3, <3>2 DEF CancelComplete, Mode, NoRecord, Registering,
         GivenUp, Queued, LeftToDpc, LeftToCancel, DpcOwns, CleanupOwns, Gone,
         EventRecord, Record, Quiet, NotCalled, Cancellable, CancelWaits,
         CancelAnswers, DispatchAnswers, Registered
    <3> QED
      BY <3>1, <3>2
  <2> QED
    BY <1>3, <2>1, <2>2, <2>3 DEF CancelStep
<1>4. ASSUME NEW r \in Reqs, CustomTimerDPC(r)
      PROVE  Mode(q)'
  <2>1. CASE DpcTakeIrp(r)
    <3>1. CASE q # r
      BY <1>0, <2>1, <3>1, ModeFrame DEF Local, DpcTakeIrp, ClearedByUs,
         Removed, LockFree
    <3>2. CASE q = r
      BY <1>0, <2>1, <3>2 DEF DpcTakeIrp, ClearedByUs, Removed, LockFree,
         Mode, NoRecord, Registering, GivenUp, Queued, LeftToDpc,
         LeftToCancel, DpcOwns, CleanupOwns, Gone, EventRecord, Record, Quiet,
         NotCalled, Cancellable, CancelWaits, CancelAnswers, DispatchAnswers,
         Registered
    <3> QED
      BY <3>1, <3>2
  <2>2. CASE DpcLeaveToCancel(r)
    <3>1. CASE q # r
      BY <1>0, <2>2, <3>1, ModeFrame DEF Local, DpcLeaveToCancel, ClearedByUs,
         Removed, Reinitialized, LockFree
    <3>2. CASE q = r
      BY <1>0, <2>2, <3>2 DEF DpcLeaveToCancel, ClearedByUs, Removed,
         Reinitialized, LockFree, Mode, NoRecord, Registering, GivenUp,
         Queued, LeftToDpc, LeftToCancel, DpcOwns, CleanupOwns, Gone,
         EventRecord, Record, Quiet, NotCalled, Cancellable, CancelWaits,
         CancelAnswers, DispatchAnswers, Registered
    <3> QED
      BY <3>1, <3>2
  <2>3. CASE DpcAfterCancel(r)
    <3>1. CASE q # r
      BY <1>0, <2>3, <3>1, ModeFrame DEF Local, DpcAfterCancel, Removed
    <3>2. CASE q = r
      BY <1>0, <2>3, <3>2 DEF DpcAfterCancel, Removed, Mode, NoRecord,
         Registering, GivenUp, Queued, LeftToDpc, LeftToCancel, DpcOwns,
         CleanupOwns, Gone, EventRecord, Record, Quiet, NotCalled,
         Cancellable, CancelWaits, CancelAnswers, DispatchAnswers, Registered
    <3> QED
      BY <3>1, <3>2
  <2>4. CASE DpcSignalEvent(r)
    <3>1. CASE q # r
      BY <1>0, <2>4, <3>1, ModeFrame DEF Local, DpcSignalEvent, Removed
    <3>2. CASE q = r
      BY <1>0, <2>4, <3>2 DEF DpcSignalEvent, Removed, Mode, NoRecord,
         Registering, GivenUp, Queued, LeftToDpc, LeftToCancel, DpcOwns,
         CleanupOwns, Gone, EventRecord, Record, Quiet, NotCalled,
         Cancellable, CancelWaits, CancelAnswers, DispatchAnswers, Registered
    <3> QED
      BY <3>1, <3>2
  <2>5. CASE DpcComplete(r)
    <3>1. CASE q # r
      BY <1>0, <2>5, <3>1, ModeFrame DEF Local, DpcComplete
    <3>2. CASE q = r
      BY <1>0, <2>5, <3>2 DEF DpcComplete, Mode, NoRecord, Registering,
         GivenUp, Queued, LeftToDpc, LeftToCancel, DpcOwns, CleanupOwns, Gone,
         EventRecord, Record, Quiet, NotCalled, Cancellable, CancelWaits,
         CancelAnswers, DispatchAnswers, Registered
    <3> QED
      BY <3>1, <3>2
  <2>6. CASE DpcRelock(r)
    <3>1. CASE q # r
      BY <1>0, <2>6, <3>1, ModeFrame DEF Local, DpcRelock
    <3>2. CASE q = r
      BY <1>0, <2>6, <3>2 DEF DpcRelock, Mode, NoRecord, Registering, GivenUp,
         Queued, LeftToDpc, LeftToCancel, DpcOwns, CleanupOwns, Gone,
         EventRecord, Record, Quiet, NotCalled, Cancellable, CancelWaits,
         CancelAnswers, DispatchAnswers, Registered
    <3> QED
      BY <3>1, <3>2
  <2>7. CASE DpcFree(r)
    <3>1. CASE q # r
      BY <1>0, <2>7, <3>1, ModeFrame DEF Local, DpcFree, Freed
    <3>2. CASE q = r
      BY <1>0, <2>7, <3>2 DEF DpcFree, Freed, Mode, NoRecord, Registering,
         GivenUp, Queued, LeftToDpc, LeftToCancel, DpcOwns, CleanupOwns, Gone,
         EventRecord, Record, Quiet, NotCalled, Cancellable, CancelWaits,
         CancelAnswers, DispatchAnswers, Registered
    <3> QED
      BY <3>1, <3>2
  <2> QED
    BY <1>4, <2>1, <2>2, <2>3, <2>4, <2>5, <2>6, <2>7 DEF CustomTimerDPC
<1>5. ASSUME NEW r \in Reqs, Cancel(r)
      PROVE  Mode(q)'
  <2>1. CASE q # r
    BY <1>0, <1>5, <2>1, ModeFrame DEF Local, Cancel, IoCancelIrp, Outstanding
  <2>2. CASE q = r
    BY <1>0, <1>5, <2>2 DEF Cancel, IoCancelIrp, Outstanding, Mode, NoRecord,
       Registering, GivenUp, Queued, LeftToDpc, LeftToCancel, DpcOwns,
       CleanupOwns, Gone, EventRecord, Record, Quiet, NotCalled, Cancellable,
       CancelWaits, CancelAnswers, DispatchAnswers, Registered
  <2> QED
    BY <2>1, <2>2
<1>6. ASSUME NEW r \in Reqs, TimerExpire(r)
      PROVE  Mode(q)'
  <2>1. CASE q # r
    BY <1>0, <1>6, <2>1, ModeFrame DEF Local, TimerExpire
  <2>2. CASE q = r
    BY <1>0, <1>6, <2>2 DEF TimerExpire, Mode, NoRecord, Registering, GivenUp,
       Queued, LeftToDpc, LeftToCancel, DpcOwns, CleanupOwns, Gone,
       EventRecord, Record, Quiet, NotCalled, Cancellable, CancelWaits,
       CancelAnswers, DispatchAnswers, Registered
  <2> QED
    BY <2>1, <2>2
<1>7. ASSUME NEW r \in Reqs, CleanupComplete(r)
      PROVE  Mode(q)'
  <2>1. CASE q # r
    BY <1>0, <1>7, <2>1, ModeFrame DEF Local, CleanupComplete
  <2>2. CASE q = r
    BY <1>0, <1>7, <2>2 DEF CleanupComplete, Mode, NoRecord, Registering,
       GivenUp, Queued, LeftToDpc, LeftToCancel, DpcOwns, CleanupOwns, Gone,
       EventRecord, Record, Quiet, NotCalled, Cancellable, CancelWaits,
       CancelAnswers, DispatchAnswers, Registered
  <2> QED
    BY <2>1, <2>2
<1>8. ASSUME NEW f \in Files, CleanupWalk(f)
      PROVE  Mode(q)'
  <2>1. CASE q \notin Stopped(f)
    BY <1>0, <1>8, <2>1, ModeFrame DEF Local, CleanupWalk, Owned, Racing,
       Events
  <2>2. CASE q \in Stopped(f)
    <3> USE DEF Stopped, EventQueue, TimerStoppable, Owned, Racing, Events,
                ClearedByUs
    <3>1. CASE q \in Owned(f)
      BY <1>0, <1>8, <3>1 DEF CleanupWalk, Removed, Freed, Mode, NoRecord,
         Registering, GivenUp, Queued, LeftToDpc, LeftToCancel, DpcOwns,
         CleanupOwns, Gone, EventRecord, Record, Quiet, NotCalled,
         Cancellable, CancelWaits, CancelAnswers, DispatchAnswers, Registered
    <3>2. CASE q \in Racing(f)
      BY <1>0, <1>8, <3>2 DEF CleanupWalk, Removed, Freed, Mode, NoRecord,
         Registering, GivenUp, Queued, LeftToDpc, LeftToCancel, DpcOwns,
         CleanupOwns, Gone, EventRecord, Record, Quiet, NotCalled,
         Cancellable, CancelWaits, CancelAnswers, DispatchAnswers, Registered
    <3>3. CASE q \in Events(f)
      <4>1. EventRecord(q)
        BY <1>0, <3>3 DEF Mode, NoRecord, Registering, GivenUp, Queued,
           LeftToDpc, LeftToCancel, DpcOwns, CleanupOwns, Gone, Record
      <4>2. /\ pc[q] \notin {"insertEvent", "arm"} /\ timer[q] = "armed"
            /\ mem[q] = "live" /\ link[q] = "queue" /\ eventRef[q] = 1
        BY <4>1, <3>3, <2>2 DEF EventRecord, DispatchAnswers
      <4>3. /\ mem'[q] = "freed" /\ link'[q] = "stale" /\ eventRef'[q] = 0
            /\ timer'[q] = "stopped" /\ cancelRoutine'[q] = cancelRoutine[q]
            /\ q \notin Owned(f)
        BY <1>8, <3>3, <2>2, <4>2 DEF CleanupWalk, Removed, Freed
      <4>4. /\ q \in cleanupList' <=> q \in cleanupList
            /\ kind' = kind /\ canceller' = canceller /\ cancel' = cancel
            /\ pc' = pc /\ completions' = completions /\ status' = status
        BY <1>8, <4>3 DEF CleanupWalk, cancelVars, irpVars
      <4>5. EventRecord(q)'
        BY <4>1, <4>2, <4>3, <4>4 DEF EventRecord, Quiet, NotCalled,
           DispatchAnswers
      <4> QED
        BY <4>5 DEF Mode
    <3>4. kind[q] \in {"irp", "event"}
      BY <1>0, <2>2 DEF Mode, NoRecord, Registering, GivenUp, Queued,
         LeftToDpc, LeftToCancel, DpcOwns, CleanupOwns, Gone, EventRecord,
         Record, Quiet, NotCalled, Cancellable, CancelWaits, CancelAnswers,
         DispatchAnswers, Registered
    <3> QED
      BY <2>2, <3>1, <3>2, <3>3, <3>4
  <2> QED
    BY <2>1, <2>2
<1>9. ASSUME NEW f \in Files, Create(f)
      PROVE  Mode(q)'
  BY <1>0, <1>9, ModeFrame DEF Local, Create, IoCreateFile
<1>10. ASSUME NEW f \in Files, CleanupStart(f)
      PROVE  Mode(q)'
  BY <1>0, <1>10, ModeFrame DEF Local, CleanupStart, IoCloseHandle
<1>11. ASSUME NEW f \in Files, CleanupEnd(f)
      PROVE  Mode(q)'
  BY <1>0, <1>11, ModeFrame DEF Local, CleanupEnd
<1>12. ASSUME NEW f \in Files, Close(f)
      PROVE  Mode(q)'
  BY <1>0, <1>12, ModeFrame DEF Local, Close, IoCloseFile
<1>13. CASE EventUnload
  BY <1>0, <1>13, ModeFrame DEF Local, EventUnload
<1>14. CASE UNCHANGED vars
  BY <1>0, <1>14, ModeFrame DEF Local
<1> QED
  BY <1>1, <1>2, <1>3, <1>4, <1>5, <1>6, <1>7, <1>8, <1>9, <1>10, <1>11,
     <1>12, <1>13, <1>14 DEF Next, Cleanup, Terminated

(***************************************************************************)
(* The other parts of the invariant.                                       *)
(***************************************************************************)

\* QueueLock has one holder at a time.
LEMMA LockStep ==
  ASSUME TypeOK, LockHolder, [Next]_vars
  PROVE  LockHolder'
<1> USE DEF TypeOK, IoTypeOK, vars, ioVars, irpVars, cancelVars, recordVars,
            SetPC, Finish, SetCancelRoutine, IoCompleteRequest,
            LockHolder
<1>1. ASSUME NEW r \in Reqs, NEW f \in Files, Issue(r, f)
      PROVE  LockHolder'
  BY <1>1 DEF Issue, IssueIrp
<1>2. ASSUME NEW r \in Reqs, Dispatch(r)
      PROVE  LockHolder'
  <2>1. CASE DispatchEnter(r)
    BY <2>1 DEF DispatchEnter, IoAcquireRemoveLock
  <2>2. CASE DispatchRefused(r)
    BY <2>2 DEF DispatchRefused
  <2>3. CASE RegisterFails(r)
    BY <2>3 DEF RegisterFails
  <2>4. CASE AllocateIrpRecord(r)
    BY <2>4 DEF AllocateIrpRecord
  <2>5. CASE AllocateEventRecord(r)
    BY <2>5 DEF AllocateEventRecord
  <2>6. CASE RegSetCancelRoutine(r)
    BY <2>6 DEF RegSetCancelRoutine, LockFree
  <2>7. CASE RegCheckCancel(r)
    BY <2>7 DEF RegCheckCancel
  <2>8. CASE RegCancelled(r)
    BY <2>8 DEF RegCancelled, ClearedByUs, Freed
  <2>9. CASE RegLostToCancel(r)
    BY <2>9 DEF RegLostToCancel, ClearedByUs
  <2>10. CASE RegInsert(r)
    BY <2>10 DEF RegInsert
  <2>11. CASE RegInsertEvent(r)
    BY <2>11 DEF RegInsertEvent, LockFree
  <2>12. CASE RegArmEvent(r)
    BY <2>12 DEF RegArmEvent
  <2>13. CASE CompleteDispatch(r)
    BY <2>13 DEF CompleteDispatch
  <2>14. CASE DispatchRelease(r)
    BY <2>14 DEF DispatchRelease, IoReleaseRemoveLock
  <2> QED
    BY <1>2, <2>1, <2>2, <2>3, <2>4, <2>5, <2>6, <2>7, <2>8, <2>9, <2>10,
       <2>11, <2>12, <2>13, <2>14 DEF Dispatch
<1>3. ASSUME NEW r \in Reqs, CancelStep(r)
      PROVE  LockHolder'
  <2>1. CASE CallCancelRoutine(r)
    BY <2>1 DEF CallCancelRoutine, IoCallCancelRoutine
  <2>2. CASE EventCancelRoutine(r)
    BY <2>2 DEF EventCancelRoutine, CancelFrees, TimerStoppable, Removed,
       Reinitialized, Freed, LockFree
  <2>3. CASE CancelComplete(r)
    BY <2>3 DEF CancelComplete
  <2> QED
    BY <1>3, <2>1, <2>2, <2>3 DEF CancelStep
<1>4. ASSUME NEW r \in Reqs, CustomTimerDPC(r)
      PROVE  LockHolder'
  <2>1. CASE DpcTakeIrp(r)
    BY <2>1 DEF DpcTakeIrp, ClearedByUs, Removed, LockFree
  <2>2. CASE DpcLeaveToCancel(r)
    BY <2>2 DEF DpcLeaveToCancel, ClearedByUs, Removed, Reinitialized,
       LockFree
  <2>3. CASE DpcAfterCancel(r)
    BY <2>3 DEF DpcAfterCancel, Removed
  <2>4. CASE DpcSignalEvent(r)
    BY <2>4 DEF DpcSignalEvent, Removed
  <2>5. CASE DpcComplete(r)
    BY <2>5 DEF DpcComplete
  <2>6. CASE DpcRelock(r)
    BY <2>6 DEF DpcRelock
  <2>7. CASE DpcFree(r)
    BY <2>7 DEF DpcFree, Freed
  <2> QED
    BY <1>4, <2>1, <2>2, <2>3, <2>4, <2>5, <2>6, <2>7 DEF CustomTimerDPC
<1>5. ASSUME NEW r \in Reqs, Cancel(r)
      PROVE  LockHolder'
  BY <1>5 DEF Cancel, IoCancelIrp, Outstanding
<1>6. ASSUME NEW r \in Reqs, TimerExpire(r)
      PROVE  LockHolder'
  BY <1>6 DEF TimerExpire
<1>7. ASSUME NEW r \in Reqs, CleanupComplete(r)
      PROVE  LockHolder'
  BY <1>7 DEF CleanupComplete
<1>8. ASSUME NEW f \in Files, CleanupWalk(f)
      PROVE  LockHolder'
  BY <1>8 DEF CleanupWalk
<1>9. ASSUME NEW f \in Files, Create(f)
      PROVE  LockHolder'
  BY <1>9 DEF Create, IoCreateFile
<1>10. ASSUME NEW f \in Files, CleanupStart(f)
      PROVE  LockHolder'
  BY <1>10 DEF CleanupStart, IoCloseHandle
<1>11. ASSUME NEW f \in Files, CleanupEnd(f)
      PROVE  LockHolder'
  BY <1>11 DEF CleanupEnd
<1>12. ASSUME NEW f \in Files, Close(f)
      PROVE  LockHolder'
  BY <1>12 DEF Close, IoCloseFile
<1>13. CASE EventUnload
  BY <1>13 DEF EventUnload
<1>14. CASE UNCHANGED vars
  BY <1>14
<1> QED
  BY <1>1, <1>2, <1>3, <1>4, <1>5, <1>6, <1>7, <1>8, <1>9, <1>10, <1>11,
     <1>12, <1>13, <1>14 DEF Next, Cleanup, Terminated

\* A thread that dispatches on a handle keeps cleanup waiting.
LEMMA HandleStep ==
  ASSUME TypeOK, HandleInUse, FileContextAlive, [Next]_vars
  PROVE  HandleInUse' /\ FileContextAlive'
<1> USE DEF TypeOK, IoTypeOK, vars, ioVars, irpVars, cancelVars, recordVars,
            SetPC, Finish, SetCancelRoutine, IoCompleteRequest,
            HandleInUse, FileContextAlive
<1>1. ASSUME NEW r \in Reqs, NEW f \in Files, Issue(r, f)
      PROVE  HandleInUse' /\ FileContextAlive'
  BY <1>1 DEF Issue, IssueIrp
<1>2. ASSUME NEW r \in Reqs, Dispatch(r)
      PROVE  HandleInUse' /\ FileContextAlive'
  <2>1. CASE DispatchEnter(r)
    BY <2>1 DEF DispatchEnter, IoAcquireRemoveLock, LockRemoved, FileStates
  <2>2. CASE DispatchRefused(r)
    BY <2>2 DEF DispatchRefused
  <2>3. CASE RegisterFails(r)
    BY <2>3 DEF RegisterFails
  <2>4. CASE AllocateIrpRecord(r)
    BY <2>4 DEF AllocateIrpRecord
  <2>5. CASE AllocateEventRecord(r)
    BY <2>5 DEF AllocateEventRecord
  <2>6. CASE RegSetCancelRoutine(r)
    BY <2>6 DEF RegSetCancelRoutine, LockFree
  <2>7. CASE RegCheckCancel(r)
    BY <2>7 DEF RegCheckCancel
  <2>8. CASE RegCancelled(r)
    BY <2>8 DEF RegCancelled, ClearedByUs, Freed
  <2>9. CASE RegLostToCancel(r)
    BY <2>9 DEF RegLostToCancel, ClearedByUs
  <2>10. CASE RegInsert(r)
    BY <2>10 DEF RegInsert
  <2>11. CASE RegInsertEvent(r)
    BY <2>11 DEF RegInsertEvent, LockFree
  <2>12. CASE RegArmEvent(r)
    BY <2>12 DEF RegArmEvent
  <2>13. CASE CompleteDispatch(r)
    BY <2>13 DEF CompleteDispatch
  <2>14. CASE DispatchRelease(r)
    BY <2>14 DEF DispatchRelease, IoReleaseRemoveLock
  <2> QED
    BY <1>2, <2>1, <2>2, <2>3, <2>4, <2>5, <2>6, <2>7, <2>8, <2>9, <2>10,
       <2>11, <2>12, <2>13, <2>14 DEF Dispatch
<1>3. ASSUME NEW r \in Reqs, CancelStep(r)
      PROVE  HandleInUse' /\ FileContextAlive'
  <2>1. CASE CallCancelRoutine(r)
    BY <2>1 DEF CallCancelRoutine, IoCallCancelRoutine
  <2>2. CASE EventCancelRoutine(r)
    BY <2>2 DEF EventCancelRoutine, CancelFrees, TimerStoppable, Removed,
       Reinitialized, Freed, LockFree
  <2>3. CASE CancelComplete(r)
    BY <2>3 DEF CancelComplete
  <2> QED
    BY <1>3, <2>1, <2>2, <2>3 DEF CancelStep
<1>4. ASSUME NEW r \in Reqs, CustomTimerDPC(r)
      PROVE  HandleInUse' /\ FileContextAlive'
  <2>1. CASE DpcTakeIrp(r)
    BY <2>1 DEF DpcTakeIrp, ClearedByUs, Removed, LockFree
  <2>2. CASE DpcLeaveToCancel(r)
    BY <2>2 DEF DpcLeaveToCancel, ClearedByUs, Removed, Reinitialized,
       LockFree
  <2>3. CASE DpcAfterCancel(r)
    BY <2>3 DEF DpcAfterCancel, Removed
  <2>4. CASE DpcSignalEvent(r)
    BY <2>4 DEF DpcSignalEvent, Removed
  <2>5. CASE DpcComplete(r)
    BY <2>5 DEF DpcComplete
  <2>6. CASE DpcRelock(r)
    BY <2>6 DEF DpcRelock
  <2>7. CASE DpcFree(r)
    BY <2>7 DEF DpcFree, Freed
  <2> QED
    BY <1>4, <2>1, <2>2, <2>3, <2>4, <2>5, <2>6, <2>7 DEF CustomTimerDPC
<1>5. ASSUME NEW r \in Reqs, Cancel(r)
      PROVE  HandleInUse' /\ FileContextAlive'
  BY <1>5 DEF Cancel, IoCancelIrp, Outstanding
<1>6. ASSUME NEW r \in Reqs, TimerExpire(r)
      PROVE  HandleInUse' /\ FileContextAlive'
  BY <1>6 DEF TimerExpire
<1>7. ASSUME NEW r \in Reqs, CleanupComplete(r)
      PROVE  HandleInUse' /\ FileContextAlive'
  BY <1>7 DEF CleanupComplete
<1>8. ASSUME NEW f \in Files, CleanupWalk(f)
      PROVE  HandleInUse' /\ FileContextAlive'
  BY <1>8 DEF CleanupWalk, RundownOver, Owned, Stopped, EventQueue
<1>9. ASSUME NEW f \in Files, Create(f)
      PROVE  HandleInUse' /\ FileContextAlive'
  BY <1>9 DEF Create, IoCreateFile
<1>10. ASSUME NEW f \in Files, CleanupStart(f)
      PROVE  HandleInUse' /\ FileContextAlive'
  BY <1>10 DEF CleanupStart, IoCloseHandle
<1>11. ASSUME NEW f \in Files, CleanupEnd(f)
      PROVE  HandleInUse' /\ FileContextAlive'
  BY <1>11 DEF CleanupEnd
<1>12. ASSUME NEW f \in Files, Close(f)
      PROVE  HandleInUse' /\ FileContextAlive'
  BY <1>12 DEF Close, IoCloseFile
<1>13. CASE EventUnload
  BY <1>13 DEF EventUnload
<1>14. CASE UNCHANGED vars
  BY <1>14
<1> QED
  BY <1>1, <1>2, <1>3, <1>4, <1>5, <1>6, <1>7, <1>8, <1>9, <1>10, <1>11,
     <1>12, <1>13, <1>14 DEF Next, Cleanup, Terminated

\* What the walk leaves in the queue is about to leave it.
LEMMA CleanupStep ==
  ASSUME TypeOK, RecordLife, HandleInUse, FileContextAlive,
         CleanupLeavesOnlyFired, [Next]_vars
  PROVE  CleanupLeavesOnlyFired'
<1> USE DEF TypeOK, IoTypeOK, vars, ioVars, irpVars, cancelVars, recordVars,
            SetPC, Finish, SetCancelRoutine, IoCompleteRequest,
            CleanupLeavesOnlyFired
<1>1. ASSUME NEW r \in Reqs, NEW f \in Files, Issue(r, f)
      PROVE  CleanupLeavesOnlyFired'
  BY <1>1 DEF Issue, IssueIrp
<1>2. ASSUME NEW r \in Reqs, Dispatch(r)
      PROVE  CleanupLeavesOnlyFired'
  <2>1. CASE DispatchEnter(r)
    BY <2>1 DEF DispatchEnter, IoAcquireRemoveLock
  <2>2. CASE DispatchRefused(r)
    BY <2>2 DEF DispatchRefused
  <2>3. CASE RegisterFails(r)
    BY <2>3 DEF RegisterFails
  <2>4. CASE AllocateIrpRecord(r)
    BY <2>4 DEF AllocateIrpRecord
  <2>5. CASE AllocateEventRecord(r)
    BY <2>5 DEF AllocateEventRecord
  <2>6. CASE RegSetCancelRoutine(r)
    BY <2>6 DEF RegSetCancelRoutine, LockFree
  <2>7. CASE RegCheckCancel(r)
    BY <2>7 DEF RegCheckCancel
  <2>8. CASE RegCancelled(r)
    BY <2>8 DEF RegCancelled, ClearedByUs, Freed
  <2>9. CASE RegLostToCancel(r)
    BY <2>9 DEF RegLostToCancel, ClearedByUs
  <2>10. CASE RegInsert(r)
    BY <2>10 DEF RegInsert, HandleInUse, FileContextAlive
  <2>11. CASE RegInsertEvent(r)
    BY <2>11 DEF RegInsertEvent, LockFree, HandleInUse, FileContextAlive
  <2>12. CASE RegArmEvent(r)
    BY <2>12 DEF RegArmEvent, HandleInUse, FileContextAlive
  <2>13. CASE CompleteDispatch(r)
    BY <2>13 DEF CompleteDispatch
  <2>14. CASE DispatchRelease(r)
    BY <2>14 DEF DispatchRelease, IoReleaseRemoveLock
  <2> QED
    BY <1>2, <2>1, <2>2, <2>3, <2>4, <2>5, <2>6, <2>7, <2>8, <2>9, <2>10,
       <2>11, <2>12, <2>13, <2>14 DEF Dispatch
<1>3. ASSUME NEW r \in Reqs, CancelStep(r)
      PROVE  CleanupLeavesOnlyFired'
  <2>1. CASE CallCancelRoutine(r)
    BY <2>1 DEF CallCancelRoutine, IoCallCancelRoutine
  <2>2. CASE EventCancelRoutine(r)
    BY <2>2 DEF EventCancelRoutine, CancelFrees, TimerStoppable, Removed,
       Reinitialized, Freed, LockFree
  <2>3. CASE CancelComplete(r)
    BY <2>3 DEF CancelComplete
  <2> QED
    BY <1>3, <2>1, <2>2, <2>3 DEF CancelStep
<1>4. ASSUME NEW r \in Reqs, CustomTimerDPC(r)
      PROVE  CleanupLeavesOnlyFired'
  <2>1. CASE DpcTakeIrp(r)
    BY <2>1 DEF DpcTakeIrp, ClearedByUs, Removed, LockFree
  <2>2. CASE DpcLeaveToCancel(r)
    BY <2>2 DEF DpcLeaveToCancel, ClearedByUs, Removed, Reinitialized,
       LockFree
  <2>3. CASE DpcAfterCancel(r)
    BY <2>3 DEF DpcAfterCancel, Removed
  <2>4. CASE DpcSignalEvent(r)
    BY <2>4 DEF DpcSignalEvent, Removed
  <2>5. CASE DpcComplete(r)
    BY <2>5 DEF DpcComplete
  <2>6. CASE DpcRelock(r)
    BY <2>6 DEF DpcRelock
  <2>7. CASE DpcFree(r)
    BY <2>7 DEF DpcFree, Freed
  <2> QED
    BY <1>4, <2>1, <2>2, <2>3, <2>4, <2>5, <2>6, <2>7 DEF CustomTimerDPC
<1>5. ASSUME NEW r \in Reqs, Cancel(r)
      PROVE  CleanupLeavesOnlyFired'
  BY <1>5 DEF Cancel, IoCancelIrp, Outstanding
<1>6. ASSUME NEW r \in Reqs, TimerExpire(r)
      PROVE  CleanupLeavesOnlyFired'
  BY <1>6 DEF TimerExpire
<1>7. ASSUME NEW r \in Reqs, CleanupComplete(r)
      PROVE  CleanupLeavesOnlyFired'
  BY <1>7 DEF CleanupComplete
<1>8. ASSUME NEW f \in Files, CleanupWalk(f)
      PROVE  CleanupLeavesOnlyFired'
  BY <1>8 DEF CleanupWalk, HandleInUse, RecordLife, Mode, NoRecord,
     Registering, GivenUp, Queued, LeftToDpc, LeftToCancel, DpcOwns,
     CleanupOwns, Gone, EventRecord, Record, Quiet, NotCalled, Cancellable,
     CancelWaits, CancelAnswers, DispatchAnswers, Registered, RundownOver,
     Stopped, EventQueue, TimerStoppable, Racing, Removed
<1>9. ASSUME NEW f \in Files, Create(f)
      PROVE  CleanupLeavesOnlyFired'
  BY <1>9 DEF Create, IoCreateFile
<1>10. ASSUME NEW f \in Files, CleanupStart(f)
      PROVE  CleanupLeavesOnlyFired'
  BY <1>10 DEF CleanupStart, IoCloseHandle
<1>11. ASSUME NEW f \in Files, CleanupEnd(f)
      PROVE  CleanupLeavesOnlyFired'
  BY <1>11 DEF CleanupEnd
<1>12. ASSUME NEW f \in Files, Close(f)
      PROVE  CleanupLeavesOnlyFired'
  BY <1>12 DEF Close, IoCloseFile
<1>13. CASE EventUnload
  BY <1>13 DEF EventUnload
<1>14. CASE UNCHANGED vars
  BY <1>14
<1> QED
  BY <1>1, <1>2, <1>3, <1>4, <1>5, <1>6, <1>7, <1>8, <1>9, <1>10, <1>11,
     <1>12, <1>13, <1>14 DEF Next, Cleanup, Terminated

\* Statuses are given for what happened.
LEMMA StatusStep ==
  ASSUME TypeOK, RecordLife, HandleInUse, StatusHonest, [Next]_vars
  PROVE  StatusHonest'
<1> USE DEF TypeOK, IoTypeOK, vars, ioVars, irpVars, cancelVars, recordVars,
            SetPC, Finish, SetCancelRoutine, IoCompleteRequest,
            StatusHonest
<1>1. ASSUME NEW r \in Reqs, NEW f \in Files, Issue(r, f)
      PROVE  StatusHonest'
  BY <1>1 DEF Issue, IssueIrp, RecordLife, Mode, NoRecord, Registering,
     GivenUp, Queued, LeftToDpc, LeftToCancel, DpcOwns, CleanupOwns, Gone,
     EventRecord, Record, Quiet, NotCalled, Cancellable, CancelWaits,
     CancelAnswers, DispatchAnswers, Registered
<1>2. ASSUME NEW r \in Reqs, Dispatch(r)
      PROVE  StatusHonest'
  <2>1. CASE DispatchEnter(r)
    BY <2>1 DEF DispatchEnter, IoAcquireRemoveLock
  <2>2. CASE DispatchRefused(r)
    BY <2>2 DEF DispatchRefused
  <2>3. CASE RegisterFails(r)
    BY <2>3 DEF RegisterFails
  <2>4. CASE AllocateIrpRecord(r)
    BY <2>4 DEF AllocateIrpRecord, RecordLife, Mode, NoRecord, Registering,
       GivenUp, Queued, LeftToDpc, LeftToCancel, DpcOwns, CleanupOwns, Gone,
       EventRecord, Record, Quiet, NotCalled, Cancellable, CancelWaits,
       CancelAnswers, DispatchAnswers, Registered
  <2>5. CASE AllocateEventRecord(r)
    BY <2>5 DEF AllocateEventRecord
  <2>6. CASE RegSetCancelRoutine(r)
    BY <2>6 DEF RegSetCancelRoutine, LockFree
  <2>7. CASE RegCheckCancel(r)
    BY <2>7 DEF RegCheckCancel
  <2>8. CASE RegCancelled(r)
    BY <2>8 DEF RegCancelled, ClearedByUs, Freed
  <2>9. CASE RegLostToCancel(r)
    BY <2>9 DEF RegLostToCancel, ClearedByUs
  <2>10. CASE RegInsert(r)
    BY <2>10 DEF RegInsert, RecordLife, Mode, NoRecord, Registering,
       GivenUp, Queued, LeftToDpc, LeftToCancel, DpcOwns, CleanupOwns, Gone,
       EventRecord, Record, Quiet, NotCalled, Cancellable, CancelWaits,
       CancelAnswers, DispatchAnswers, Registered
  <2>11. CASE RegInsertEvent(r)
    BY <2>11 DEF RegInsertEvent, LockFree
  <2>12. CASE RegArmEvent(r)
    BY <2>12 DEF RegArmEvent, RecordLife, Mode, NoRecord, Registering,
       GivenUp, Queued, LeftToDpc, LeftToCancel, DpcOwns, CleanupOwns, Gone,
       EventRecord, Record, Quiet, NotCalled, Cancellable, CancelWaits,
       CancelAnswers, DispatchAnswers, Registered
  <2>13. CASE CompleteDispatch(r)
    BY <2>13 DEF CompleteDispatch, RecordLife, Mode, NoRecord, Registering,
       GivenUp, Queued, LeftToDpc, LeftToCancel, DpcOwns, CleanupOwns, Gone,
       EventRecord, Record, Quiet, NotCalled, Cancellable, CancelWaits,
       CancelAnswers, DispatchAnswers, Registered
  <2>14. CASE DispatchRelease(r)
    BY <2>14 DEF DispatchRelease, IoReleaseRemoveLock
  <2> QED
    BY <1>2, <2>1, <2>2, <2>3, <2>4, <2>5, <2>6, <2>7, <2>8, <2>9, <2>10,
       <2>11, <2>12, <2>13, <2>14 DEF Dispatch
<1>3. ASSUME NEW r \in Reqs, CancelStep(r)
      PROVE  StatusHonest'
  <2>1. CASE CallCancelRoutine(r)
    BY <2>1 DEF CallCancelRoutine, IoCallCancelRoutine
  <2>2. CASE EventCancelRoutine(r)
    BY <2>2 DEF EventCancelRoutine, CancelFrees, TimerStoppable, Removed,
       Reinitialized, Freed, LockFree
  <2>3. CASE CancelComplete(r)
    BY <2>3 DEF CancelComplete, RecordLife, Mode, NoRecord, Registering,
       GivenUp, Queued, LeftToDpc, LeftToCancel, DpcOwns, CleanupOwns, Gone,
       EventRecord, Record, Quiet, NotCalled, Cancellable, CancelWaits,
       CancelAnswers, DispatchAnswers, Registered
  <2> QED
    BY <1>3, <2>1, <2>2, <2>3 DEF CancelStep
<1>4. ASSUME NEW r \in Reqs, CustomTimerDPC(r)
      PROVE  StatusHonest'
  <2>1. CASE DpcTakeIrp(r)
    BY <2>1 DEF DpcTakeIrp, ClearedByUs, Removed, LockFree
  <2>2. CASE DpcLeaveToCancel(r)
    BY <2>2 DEF DpcLeaveToCancel, ClearedByUs, Removed, Reinitialized,
       LockFree
  <2>3. CASE DpcAfterCancel(r)
    BY <2>3 DEF DpcAfterCancel, Removed
  <2>4. CASE DpcSignalEvent(r)
    BY <2>4 DEF DpcSignalEvent, Removed
  <2>5. CASE DpcComplete(r)
    BY <2>5 DEF DpcComplete
  <2>6. CASE DpcRelock(r)
    BY <2>6 DEF DpcRelock
  <2>7. CASE DpcFree(r)
    BY <2>7 DEF DpcFree, Freed
  <2> QED
    BY <1>4, <2>1, <2>2, <2>3, <2>4, <2>5, <2>6, <2>7 DEF CustomTimerDPC
<1>5. ASSUME NEW r \in Reqs, Cancel(r)
      PROVE  StatusHonest'
  BY <1>5 DEF Cancel, IoCancelIrp, Outstanding
<1>6. ASSUME NEW r \in Reqs, TimerExpire(r)
      PROVE  StatusHonest'
  BY <1>6 DEF TimerExpire
<1>7. ASSUME NEW r \in Reqs, CleanupComplete(r)
      PROVE  StatusHonest'
  BY <1>7 DEF CleanupComplete, HandleInUse, RecordLife, Mode, NoRecord,
     Registering, GivenUp, Queued, LeftToDpc, LeftToCancel, DpcOwns,
     CleanupOwns, Gone, EventRecord, Record, Quiet, NotCalled, Cancellable,
     CancelWaits, CancelAnswers, DispatchAnswers, Registered
<1>8. ASSUME NEW f \in Files, CleanupWalk(f)
      PROVE  StatusHonest'
  BY <1>8 DEF CleanupWalk, RecordLife, Mode, NoRecord, Registering, GivenUp,
     Queued, LeftToDpc, LeftToCancel, DpcOwns, CleanupOwns, Gone,
     EventRecord, Record, Quiet, NotCalled, Cancellable, CancelWaits,
     CancelAnswers, DispatchAnswers, Registered, HandleInUse, Stopped,
     EventQueue, TimerStoppable
<1>9. ASSUME NEW f \in Files, Create(f)
      PROVE  StatusHonest'
  BY <1>9 DEF Create, IoCreateFile
<1>10. ASSUME NEW f \in Files, CleanupStart(f)
      PROVE  StatusHonest'
  BY <1>10 DEF CleanupStart, IoCloseHandle
<1>11. ASSUME NEW f \in Files, CleanupEnd(f)
      PROVE  StatusHonest'
  BY <1>11 DEF CleanupEnd
<1>12. ASSUME NEW f \in Files, Close(f)
      PROVE  StatusHonest'
  BY <1>12 DEF Close, IoCloseFile
<1>13. CASE EventUnload
  BY <1>13 DEF EventUnload
<1>14. CASE UNCHANGED vars
  BY <1>14
<1> QED
  BY <1>1, <1>2, <1>3, <1>4, <1>5, <1>6, <1>7, <1>8, <1>9, <1>10, <1>11,
     <1>12, <1>13, <1>14 DEF Next, Cleanup, Terminated

(***************************************************************************)
(* The theorems.                                                           *)
(***************************************************************************)

\* The life of a record, the use of the lock and of the handle, and what the
\* application is told, together, are an inductive invariant of event.c.
THEOREM InductiveInvariant == Spec => []IInv
<1>1. Init => IInv
  <2> USE DEF Init, IoInit
  <2> SUFFICES ASSUME Init
               PROVE  IInv
    OBVIOUS
  <2>1. TypeOK
    BY DEF TypeOK, IoTypeOK, PCs, Kinds, MemStates, LinkStates, TimerStates,
       Statuses, FileStates, CancellerStates
  <2>2. RecordLife
    BY DEF RecordLife, Mode, NoRecord, Record, Quiet, NotCalled
  <2>3. LockHolder /\ HandleInUse /\ FileContextAlive
    BY DEF LockHolder, HandleInUse, FileContextAlive
  <2>4. CleanupLeavesOnlyFired /\ StatusHonest
    BY DEF CleanupLeavesOnlyFired, StatusHonest
  <2> QED
    BY <2>1, <2>2, <2>3, <2>4 DEF IInv
<1>2. TypeOK' /\ IInv /\ [Next]_vars => IInv'
  <2> SUFFICES ASSUME TypeOK', IInv, [Next]_vars
               PROVE  IInv'
    OBVIOUS
  <2>1. RecordLife'
    BY ModeStep DEF IInv, RecordLife
  <2> QED
    BY <2>1, LockStep, HandleStep, CleanupStep, StatusStep DEF IInv
<1> QED
  BY <1>1, <1>2, TypeCorrect, PTL DEF Spec

\* What the invariant says of completions.
LEMMA CompletionInvariant == IInv => CompletedOnce
BY DEF IInv, CompletedOnce, RecordLife, Mode, NoRecord, Registering, GivenUp,
   Queued, LeftToDpc, LeftToCancel, DpcOwns, CleanupOwns, Gone, EventRecord,
   CancelAnswers, DispatchAnswers

\* An IRP is completed at most once: registration, DPC, cancel routine and
\* cleanup never both win it.
THEOREM Completion == Spec => []CompletedOnce
BY CompletionInvariant, InductiveInvariant, PTL


\* Whoever has an IRP to complete is the only one who can.
THEOREM Ownership == Spec => []OwnedIrpNotCancellable
<1>1. IInv => OwnedIrpNotCancellable
  BY DEF IInv, OwnedIrpNotCancellable, RecordLife, Mode, NoRecord, Registering,
     GivenUp, Queued, LeftToDpc, LeftToCancel, DpcOwns, CleanupOwns, Gone,
     EventRecord, Quiet, NotCalled, CancelAnswers, DispatchAnswers
<1> QED
  BY <1>1, InductiveInvariant, PTL

\* No activity touches a record after ExFreePoolWithTag, none frees it twice.
THEOREM MemorySafety == Spec => []NoUseAfterFree
<1>1. IInv => NoUseAfterFree
  BY DEF IInv, NoUseAfterFree, LockHolder, LockFree, RecordLife, Mode, NoRecord,
     Registering, GivenUp, Queued, LeftToDpc, LeftToCancel, DpcOwns,
     CleanupOwns, Gone, EventRecord, Record, Quiet, NotCalled, Cancellable,
     CancelWaits, CancelAnswers, DispatchAnswers
<1> QED
  BY <1>1, InductiveInvariant, PTL

\* RemoveEntryList never meets an entry that was removed before.
THEOREM ListSafety == Spec => []ListIntact
<1>1. IInv => ListIntact
  BY DEF IInv, ListIntact, RecordLife, Mode, NoRecord, Registering, GivenUp,
     Queued, LeftToDpc, LeftToCancel, DpcOwns, CleanupOwns, Gone, EventRecord,
     Record
<1> QED
  BY <1>1, InductiveInvariant, PTL

\* The ASSERTs of EventCancelRoutine and of CustomTimerDPC never fire.
THEOREM Assertions == Spec => []AssertsHold
<1>1. IInv => AssertsHold
  BY DEF IInv, AssertsHold, LockHolder, LockFree, RecordLife, Mode, NoRecord,
     Registering, GivenUp, Queued, LeftToDpc, LeftToCancel, DpcOwns,
     CleanupOwns, Gone, EventRecord, Record, Quiet, NotCalled, Cancellable,
     CancelWaits, CancelAnswers, DispatchAnswers
<1> QED
  BY <1>1, InductiveInvariant, PTL

\* Each record's reference on the application's event is given back once.
THEOREM EventReferences == Spec => []EventReferenceBalanced
<1>1. IInv => EventReferenceBalanced
  BY DEF IInv, EventReferenceBalanced, RecordLife, Mode, NoRecord, Registering,
     GivenUp, Queued, LeftToDpc, LeftToCancel, DpcOwns, CleanupOwns, Gone,
     EventRecord, Record
<1> QED
  BY <1>1, InductiveInvariant, PTL

\* What EventCleanup leaves in the queue, a DPC is about to take out.
THEOREM CleanupWorks == Spec => []CleanupLeavesOnlyFired
BY InductiveInvariant, PTL DEF IInv

\* IoReleaseRemoveLock comes after the IRP was completed, when nothing but the
\* lock itself keeps EventCleanup, and then IRP_MJ_CLOSE, from going on.
THEOREM HandleSafety == Spec => []FileContextAlive
BY InductiveInvariant, PTL DEF IInv

\* Applications are told what happened to their IRPs.
THEOREM StatusesAreHonest == Spec => []StatusHonest
BY InductiveInvariant, PTL DEF IInv
=============================================================================
