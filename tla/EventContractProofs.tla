------------------------- MODULE EventContractProofs -------------------------
(***************************************************************************)
(* The proof that event.c implements IrpContract: every step of EventNotify *)
(* is, seen through handle and phase, a step of the contract or none.      *)
(***************************************************************************)
EXTENDS EventNotifyProofs

LEMMA PhaseChange ==
  ASSUME NEW r \in Reqs, NEW to, PhaseOf(r)' = to,
         \A q \in Reqs : q # r => PhaseOf(q)' = PhaseOf(q)
  PROVE  phase' = [phase EXCEPT ![r] = to] /\ phase'[r] = to
BY DEF phase

LEMMA PhaseStutter ==
  ASSUME \A q \in Reqs : PhaseOf(q)' = PhaseOf(q)
  PROVE  phase' = phase
BY DEF phase

\* Every step of the driver is one of the contract's or none.
LEMMA ContractStep ==
  ASSUME IInv, IInv', [Next]_vars
  PROVE  [Contract!Next]_(Contract!vars)
<1> USE DEF TypeOK, IoTypeOK, vars, ioVars, irpVars, cancelVars, recordVars,
            SetPC, Finish, SetCancelRoutine, IoCompleteRequest, Contract!vars, Contract!Step
<1>0. TypeOK /\ RecordLife /\ HandleInUse /\ CleanupLeavesOnlyFired
      /\ FileContextAlive /\ CompletedOnce
  BY CompletionInvariant DEF IInv
<1>1. ASSUME NEW r \in Reqs, NEW f \in Files, Issue(r, f)
      PROVE  [Contract!Next]_(Contract!vars)
  <2>1. PhaseOf(r) = "none" /\ PhaseOf(r)' = "issued"
    BY <1>0, <1>1 DEF PhaseOf, RecordLife, Mode, NoRecord, Registering, GivenUp, Queued, LeftToDpc,
       LeftToCancel, DpcOwns, CleanupOwns, Gone, EventRecord, Registered,
       DispatchAnswers, Issue, IssueIrp
  <2>2. \A q \in Reqs : q # r => PhaseOf(q)' = PhaseOf(q)
    BY <1>1 DEF PhaseOf, Issue, IssueIrp
  <2>3. phase' = [phase EXCEPT ![r] = "issued"] /\ phase[r] = "none"
    BY <2>1, <2>2, PhaseChange DEF phase
  <2>4. handle[f] = "open" /\ handle' = handle
    BY <1>1 DEF Issue, IssueIrp, handle
  <2>5. device' = device /\ irpFile' = [irpFile EXCEPT ![r] = f]
    BY <1>1 DEF Issue, IssueIrp
  <2>6. Contract!Issue(r, f)
    BY <2>3, <2>4, <2>5 DEF Contract!Issue
  <2> QED
    BY <2>6 DEF Contract!Next
<1>2. ASSUME NEW r \in Reqs, Dispatch(r)
      PROVE  [Contract!Next]_(Contract!vars)
  <2>1. CASE DispatchEnter(r)
    <3>1. \A q \in Reqs : PhaseOf(q)' = PhaseOf(q)
      BY <1>0, <2>1 DEF PhaseOf, DispatchEnter, IoAcquireRemoveLock
    <3>2. handle' = handle /\ device' = device /\ irpFile' = irpFile
      BY <2>1 DEF handle, DispatchEnter, IoAcquireRemoveLock
    <3> QED
      BY <3>1, <3>2, PhaseStutter
  <2>2. CASE DispatchRefused(r)
    <3>1. PhaseOf(r) = "issued" /\ PhaseOf(r)' = "completed"
      BY <1>0, <2>2 DEF PhaseOf, RecordLife, Mode, NoRecord, Registering,
         GivenUp, Queued, LeftToDpc, LeftToCancel, DpcOwns, CleanupOwns,
         Gone, EventRecord, Record, Quiet, NotCalled, Cancellable,
         CancelWaits, CancelAnswers, DispatchAnswers, Registered,
         DispatchRefused
    <3>2. \A q \in Reqs : q # r => PhaseOf(q)' = PhaseOf(q)
      BY <1>0, <2>2 DEF PhaseOf, DispatchRefused
    <3>3. phase' = [phase EXCEPT ![r] = "completed"] /\ phase[r] = "issued"
      BY <3>1, <3>2, PhaseChange DEF phase
    <3>4. handle' = handle /\ device' = device /\ irpFile' = irpFile
      BY <2>2 DEF handle, DispatchRefused
    <3> QED
      BY <3>3, <3>4 DEF Contract!Next, Contract!Answer
  <2>3. CASE RegisterFails(r)
    <3>1. \A q \in Reqs : PhaseOf(q)' = PhaseOf(q)
      BY <1>0, <2>3 DEF PhaseOf, RegisterFails
    <3>2. handle' = handle /\ device' = device /\ irpFile' = irpFile
      BY <2>3 DEF handle, RegisterFails
    <3> QED
      BY <3>1, <3>2, PhaseStutter
  <2>4. CASE AllocateIrpRecord(r)
    <3>1. \A q \in Reqs : PhaseOf(q)' = PhaseOf(q)
      BY <1>0, <2>4 DEF PhaseOf, AllocateIrpRecord
    <3>2. handle' = handle /\ device' = device /\ irpFile' = irpFile
      BY <2>4 DEF handle, AllocateIrpRecord
    <3> QED
      BY <3>1, <3>2, PhaseStutter
  <2>5. CASE AllocateEventRecord(r)
    <3>1. \A q \in Reqs : PhaseOf(q)' = PhaseOf(q)
      BY <1>0, <2>5 DEF PhaseOf, AllocateEventRecord
    <3>2. handle' = handle /\ device' = device /\ irpFile' = irpFile
      BY <2>5 DEF handle, AllocateEventRecord
    <3> QED
      BY <3>1, <3>2, PhaseStutter
  <2>6. CASE RegSetCancelRoutine(r)
    <3>1. \A q \in Reqs : PhaseOf(q)' = PhaseOf(q)
      BY <1>0, <2>6 DEF PhaseOf, RegSetCancelRoutine, LockFree
    <3>2. handle' = handle /\ device' = device /\ irpFile' = irpFile
      BY <2>6 DEF handle, RegSetCancelRoutine, LockFree
    <3> QED
      BY <3>1, <3>2, PhaseStutter
  <2>7. CASE RegCheckCancel(r)
    <3>1. \A q \in Reqs : PhaseOf(q)' = PhaseOf(q)
      BY <1>0, <2>7 DEF PhaseOf, RegCheckCancel
    <3>2. handle' = handle /\ device' = device /\ irpFile' = irpFile
      BY <2>7 DEF handle, RegCheckCancel
    <3> QED
      BY <3>1, <3>2, PhaseStutter
  <2>8. CASE RegCancelled(r)
    <3>1. \A q \in Reqs : PhaseOf(q)' = PhaseOf(q)
      BY <1>0, <2>8 DEF PhaseOf, RegCancelled, ClearedByUs, Freed
    <3>2. handle' = handle /\ device' = device /\ irpFile' = irpFile
      BY <2>8 DEF handle, RegCancelled, ClearedByUs, Freed
    <3> QED
      BY <3>1, <3>2, PhaseStutter
  <2>9. CASE RegLostToCancel(r)
    <3>1. \A q \in Reqs : PhaseOf(q)' = PhaseOf(q)
      BY <1>0, <2>9 DEF PhaseOf, RegLostToCancel, ClearedByUs
    <3>2. handle' = handle /\ device' = device /\ irpFile' = irpFile
      BY <2>9 DEF handle, RegLostToCancel, ClearedByUs
    <3> QED
      BY <3>1, <3>2, PhaseStutter
  <2>10. CASE RegInsert(r)
    <3>1. CASE cancelRoutine[r]
      <4>1. PhaseOf(r) = "issued" /\ PhaseOf(r)' = "queued"
        BY <1>0, <2>10, <3>1 DEF PhaseOf, RecordLife, Mode, NoRecord,
           Registering, GivenUp, Queued, LeftToDpc, LeftToCancel, DpcOwns,
           CleanupOwns, Gone, EventRecord, Record, Quiet, NotCalled,
           Cancellable, CancelWaits, CancelAnswers, DispatchAnswers,
           Registered, RegInsert
      <4>2. \A q \in Reqs : q # r => PhaseOf(q)' = PhaseOf(q)
        BY <1>0, <2>10 DEF PhaseOf, RegInsert
      <4>3. phase' = [phase EXCEPT ![r] = "queued"] /\ phase[r] = "issued"
        BY <4>1, <4>2, PhaseChange DEF phase
      <4>4. handle' = handle /\ device' = device /\ irpFile' = irpFile
        BY <2>10 DEF handle, RegInsert
      <4>5. handle[irpFile[r]] \in {"open", "cleanup"}
        BY <1>0, <2>10 DEF handle, HandleInUse, FileContextAlive, RegInsert
      <4> QED
        BY <4>3, <4>4, <4>5 DEF Contract!Next, Contract!Queue
    <3>2. CASE ~ cancelRoutine[r]
      <4>1. PhaseOf(r) = "issued" /\ PhaseOf(r)' = "committed"
        BY <1>0, <2>10, <3>2 DEF PhaseOf, RecordLife, Mode, NoRecord,
           Registering, GivenUp, Queued, LeftToDpc, LeftToCancel, DpcOwns,
           CleanupOwns, Gone, EventRecord, Record, Quiet, NotCalled,
           Cancellable, CancelWaits, CancelAnswers, DispatchAnswers,
           Registered, RegInsert
      <4>2. \A q \in Reqs : q # r => PhaseOf(q)' = PhaseOf(q)
        BY <1>0, <2>10 DEF PhaseOf, RegInsert
      <4>3. phase' = [phase EXCEPT ![r] = "committed"] /\ phase[r] = "issued"
        BY <4>1, <4>2, PhaseChange DEF phase
      <4>4. handle' = handle /\ device' = device /\ irpFile' = irpFile
        BY <2>10 DEF handle, RegInsert
      <4>5. Contract!Commit({r})
        BY <4>3, <4>4 DEF Contract!Commit, phase
      <4> QED
        BY <4>5 DEF Contract!Next
    <3> QED
      BY <3>1, <3>2
  <2>11. CASE RegInsertEvent(r)
    <3>1. \A q \in Reqs : PhaseOf(q)' = PhaseOf(q)
      BY <1>0, <2>11 DEF PhaseOf, RegInsertEvent, LockFree
    <3>2. handle' = handle /\ device' = device /\ irpFile' = irpFile
      BY <2>11 DEF handle, RegInsertEvent, LockFree
    <3> QED
      BY <3>1, <3>2, PhaseStutter
  <2>12. CASE RegArmEvent(r)
    <3>1. \A q \in Reqs : PhaseOf(q)' = PhaseOf(q)
      BY <1>0, <2>12 DEF PhaseOf, RegArmEvent
    <3>2. handle' = handle /\ device' = device /\ irpFile' = irpFile
      BY <2>12 DEF handle, RegArmEvent
    <3> QED
      BY <3>1, <3>2, PhaseStutter
  <2>13. CASE CompleteDispatch(r)
    <3>1. PhaseOf(r) = "issued" /\ PhaseOf(r)' = "completed"
      BY <1>0, <2>13 DEF PhaseOf, RecordLife, Mode, NoRecord, Registering,
         GivenUp, Queued, LeftToDpc, LeftToCancel, DpcOwns, CleanupOwns,
         Gone, EventRecord, Record, Quiet, NotCalled, Cancellable,
         CancelWaits, CancelAnswers, DispatchAnswers, Registered,
         CompleteDispatch
    <3>2. \A q \in Reqs : q # r => PhaseOf(q)' = PhaseOf(q)
      BY <1>0, <2>13 DEF PhaseOf, CompleteDispatch
    <3>3. phase' = [phase EXCEPT ![r] = "completed"] /\ phase[r] = "issued"
      BY <3>1, <3>2, PhaseChange DEF phase
    <3>4. handle' = handle /\ device' = device /\ irpFile' = irpFile
      BY <2>13 DEF handle, CompleteDispatch
    <3> QED
      BY <3>3, <3>4 DEF Contract!Next, Contract!Answer
  <2>14. CASE DispatchRelease(r)
    <3>1. \A q \in Reqs : PhaseOf(q)' = PhaseOf(q)
      BY <1>0, <2>14 DEF PhaseOf, DispatchRelease, IoReleaseRemoveLock
    <3>2. handle' = handle /\ device' = device /\ irpFile' = irpFile
      BY <2>14 DEF handle, DispatchRelease, IoReleaseRemoveLock
    <3> QED
      BY <3>1, <3>2, PhaseStutter
  <2> QED
    BY <1>2, <2>1, <2>2, <2>3, <2>4, <2>5, <2>6, <2>7, <2>8, <2>9, <2>10,
       <2>11, <2>12, <2>13, <2>14 DEF Dispatch
<1>3. ASSUME NEW r \in Reqs, Cancel(r)
      PROVE  [Contract!Next]_(Contract!vars)
  <2>1. \A q \in Reqs : PhaseOf(q)' = PhaseOf(q)
    BY <1>0, <1>3 DEF PhaseOf, Cancel, IoCancelIrp, Outstanding
  <2>2. handle' = handle /\ device' = device /\ irpFile' = irpFile
    BY <1>3 DEF handle, Cancel, IoCancelIrp, Outstanding
  <2> QED
    BY <2>1, <2>2, PhaseStutter
<1>4. ASSUME NEW r \in Reqs, CancelStep(r)
      PROVE  [Contract!Next]_(Contract!vars)
  <2>1. CASE CallCancelRoutine(r)
    <3>1. CASE PhaseOf(r) = "queued"
      <4>1. PhaseOf(r) = "queued" /\ PhaseOf(r)' = "committed"
        BY <1>0, <2>1, <3>1 DEF PhaseOf, RecordLife, Mode, NoRecord,
           Registering, GivenUp, Queued, LeftToDpc, LeftToCancel, DpcOwns,
           CleanupOwns, Gone, EventRecord, Record, Quiet, NotCalled,
           Cancellable, CancelWaits, CancelAnswers, DispatchAnswers,
           Registered, CallCancelRoutine, IoCallCancelRoutine
      <4>2. \A q \in Reqs : q # r => PhaseOf(q)' = PhaseOf(q)
        BY <1>0, <2>1 DEF PhaseOf, CallCancelRoutine, IoCallCancelRoutine
      <4>3. phase' = [phase EXCEPT ![r] = "committed"] /\ phase[r] = "queued"
        BY <4>1, <4>2, PhaseChange DEF phase
      <4>4. handle' = handle /\ device' = device /\ irpFile' = irpFile
        BY <2>1 DEF handle, CallCancelRoutine, IoCallCancelRoutine
      <4>5. Contract!Commit({r})
        BY <4>3, <4>4 DEF Contract!Commit, phase
      <4> QED
        BY <4>5 DEF Contract!Next
    <3>2. CASE PhaseOf(r) # "queued"
      <4>1. \A q \in Reqs : PhaseOf(q)' = PhaseOf(q)
        BY <1>0, <2>1, <3>2 DEF PhaseOf, RecordLife, Mode, NoRecord,
           Registering, GivenUp, Queued, LeftToDpc, LeftToCancel, DpcOwns,
           CleanupOwns, Gone, EventRecord, Record, Quiet, NotCalled,
           Cancellable, CancelWaits, CancelAnswers, DispatchAnswers,
           Registered, CallCancelRoutine, IoCallCancelRoutine
      <4>2. handle' = handle /\ device' = device /\ irpFile' = irpFile
        BY <2>1 DEF handle, CallCancelRoutine, IoCallCancelRoutine
      <4> QED
        BY <4>1, <4>2, PhaseStutter
    <3> QED
      BY <3>1, <3>2
  <2>2. CASE EventCancelRoutine(r)
    <3>1. \A q \in Reqs : PhaseOf(q)' = PhaseOf(q)
      BY <1>0, <2>2 DEF PhaseOf, RecordLife, Mode, NoRecord, Registering,
         GivenUp, Queued, LeftToDpc, LeftToCancel, DpcOwns, CleanupOwns,
         Gone, EventRecord, Record, Quiet, NotCalled, Cancellable,
         CancelWaits, CancelAnswers, DispatchAnswers, Registered,
         EventCancelRoutine, CancelFrees, TimerStoppable, Removed,
         Reinitialized, Freed, LockFree
    <3>2. handle' = handle /\ device' = device /\ irpFile' = irpFile
      BY <2>2 DEF handle, EventCancelRoutine, CancelFrees, TimerStoppable,
         Removed, Reinitialized, Freed, LockFree
    <3> QED
      BY <3>1, <3>2, PhaseStutter
  <2>3. CASE CancelComplete(r)
    <3>1. PhaseOf(r) = "committed" /\ PhaseOf(r)' = "completed"
      BY <1>0, <2>3 DEF PhaseOf, RecordLife, Mode, NoRecord, Registering,
         GivenUp, Queued, LeftToDpc, LeftToCancel, DpcOwns, CleanupOwns,
         Gone, EventRecord, Record, Quiet, NotCalled, Cancellable,
         CancelWaits, CancelAnswers, DispatchAnswers, Registered,
         CancelComplete
    <3>2. \A q \in Reqs : q # r => PhaseOf(q)' = PhaseOf(q)
      BY <1>0, <2>3 DEF PhaseOf, CancelComplete
    <3>3. phase' = [phase EXCEPT ![r] = "completed"] /\ phase[r] = "committed"
      BY <3>1, <3>2, PhaseChange DEF phase
    <3>4. handle' = handle /\ device' = device /\ irpFile' = irpFile
      BY <2>3 DEF handle, CancelComplete
    <3> QED
      BY <3>3, <3>4 DEF Contract!Next, Contract!Complete
  <2> QED
    BY <1>4, <2>1, <2>2, <2>3 DEF CancelStep
<1>5. ASSUME NEW r \in Reqs, TimerExpire(r)
      PROVE  [Contract!Next]_(Contract!vars)
  <2>1. CASE PhaseOf(r) = "queued"
    <3>1. PhaseOf(r) = "queued" /\ PhaseOf(r)' = "committed"
      BY <1>0, <1>5, <2>1 DEF PhaseOf, RecordLife, Mode, NoRecord,
         Registering, GivenUp, Queued, LeftToDpc, LeftToCancel, DpcOwns,
         CleanupOwns, Gone, EventRecord, Record, Quiet, NotCalled,
         Cancellable, CancelWaits, CancelAnswers, DispatchAnswers,
         Registered, TimerExpire
    <3>2. \A q \in Reqs : q # r => PhaseOf(q)' = PhaseOf(q)
      BY <1>0, <1>5 DEF PhaseOf, TimerExpire
    <3>3. phase' = [phase EXCEPT ![r] = "committed"] /\ phase[r] = "queued"
      BY <3>1, <3>2, PhaseChange DEF phase
    <3>4. handle' = handle /\ device' = device /\ irpFile' = irpFile
      BY <1>5 DEF handle, TimerExpire
    <3>5. Contract!Commit({r})
      BY <3>3, <3>4 DEF Contract!Commit, phase
    <3> QED
      BY <3>5 DEF Contract!Next
  <2>2. CASE PhaseOf(r) # "queued"
    <3>1. \A q \in Reqs : PhaseOf(q)' = PhaseOf(q)
      BY <1>0, <1>5, <2>2 DEF PhaseOf, RecordLife, Mode, NoRecord,
         Registering, GivenUp, Queued, LeftToDpc, LeftToCancel, DpcOwns,
         CleanupOwns, Gone, EventRecord, Record, Quiet, NotCalled,
         Cancellable, CancelWaits, CancelAnswers, DispatchAnswers,
         Registered, TimerExpire
    <3>2. handle' = handle /\ device' = device /\ irpFile' = irpFile
      BY <1>5 DEF handle, TimerExpire
    <3> QED
      BY <3>1, <3>2, PhaseStutter
  <2> QED
    BY <2>1, <2>2
<1>6. ASSUME NEW r \in Reqs, CustomTimerDPC(r)
      PROVE  [Contract!Next]_(Contract!vars)
  <2>1. CASE DpcTakeIrp(r)
    <3>1. \A q \in Reqs : PhaseOf(q)' = PhaseOf(q)
      BY <1>0, <2>1 DEF PhaseOf, RecordLife, Mode, NoRecord, Registering,
         GivenUp, Queued, LeftToDpc, LeftToCancel, DpcOwns, CleanupOwns,
         Gone, EventRecord, Record, Quiet, NotCalled, Cancellable,
         CancelWaits, CancelAnswers, DispatchAnswers, Registered,
         DpcTakeIrp, ClearedByUs, Removed, LockFree
    <3>2. handle' = handle /\ device' = device /\ irpFile' = irpFile
      BY <2>1 DEF handle, DpcTakeIrp, ClearedByUs, Removed, LockFree
    <3> QED
      BY <3>1, <3>2, PhaseStutter
  <2>2. CASE DpcLeaveToCancel(r)
    <3>1. \A q \in Reqs : PhaseOf(q)' = PhaseOf(q)
      BY <1>0, <2>2 DEF PhaseOf, RecordLife, Mode, NoRecord, Registering,
         GivenUp, Queued, LeftToDpc, LeftToCancel, DpcOwns, CleanupOwns,
         Gone, EventRecord, Record, Quiet, NotCalled, Cancellable,
         CancelWaits, CancelAnswers, DispatchAnswers, Registered,
         DpcLeaveToCancel, ClearedByUs, Removed, Reinitialized, LockFree
    <3>2. handle' = handle /\ device' = device /\ irpFile' = irpFile
      BY <2>2 DEF handle, DpcLeaveToCancel, ClearedByUs, Removed,
         Reinitialized, LockFree
    <3> QED
      BY <3>1, <3>2, PhaseStutter
  <2>3. CASE DpcAfterCancel(r)
    <3>1. \A q \in Reqs : PhaseOf(q)' = PhaseOf(q)
      BY <1>0, <2>3 DEF PhaseOf, RecordLife, Mode, NoRecord, Registering,
         GivenUp, Queued, LeftToDpc, LeftToCancel, DpcOwns, CleanupOwns,
         Gone, EventRecord, Record, Quiet, NotCalled, Cancellable,
         CancelWaits, CancelAnswers, DispatchAnswers, Registered,
         DpcAfterCancel, Removed
    <3>2. handle' = handle /\ device' = device /\ irpFile' = irpFile
      BY <2>3 DEF handle, DpcAfterCancel, Removed
    <3> QED
      BY <3>1, <3>2, PhaseStutter
  <2>4. CASE DpcSignalEvent(r)
    <3>1. \A q \in Reqs : PhaseOf(q)' = PhaseOf(q)
      BY <1>0, <2>4 DEF PhaseOf, RecordLife, Mode, NoRecord, Registering,
         GivenUp, Queued, LeftToDpc, LeftToCancel, DpcOwns, CleanupOwns,
         Gone, EventRecord, Record, Quiet, NotCalled, Cancellable,
         CancelWaits, CancelAnswers, DispatchAnswers, Registered,
         DpcSignalEvent, Removed
    <3>2. handle' = handle /\ device' = device /\ irpFile' = irpFile
      BY <2>4 DEF handle, DpcSignalEvent, Removed
    <3> QED
      BY <3>1, <3>2, PhaseStutter
  <2>5. CASE DpcComplete(r)
    <3>1. PhaseOf(r) = "committed" /\ PhaseOf(r)' = "completed"
      BY <1>0, <2>5 DEF PhaseOf, RecordLife, Mode, NoRecord, Registering,
         GivenUp, Queued, LeftToDpc, LeftToCancel, DpcOwns, CleanupOwns,
         Gone, EventRecord, Record, Quiet, NotCalled, Cancellable,
         CancelWaits, CancelAnswers, DispatchAnswers, Registered,
         DpcComplete
    <3>2. \A q \in Reqs : q # r => PhaseOf(q)' = PhaseOf(q)
      BY <1>0, <2>5 DEF PhaseOf, DpcComplete
    <3>3. phase' = [phase EXCEPT ![r] = "completed"] /\ phase[r] = "committed"
      BY <3>1, <3>2, PhaseChange DEF phase
    <3>4. handle' = handle /\ device' = device /\ irpFile' = irpFile
      BY <2>5 DEF handle, DpcComplete
    <3> QED
      BY <3>3, <3>4 DEF Contract!Next, Contract!Complete
  <2>6. CASE DpcRelock(r)
    <3>1. \A q \in Reqs : PhaseOf(q)' = PhaseOf(q)
      BY <1>0, <2>6 DEF PhaseOf, RecordLife, Mode, NoRecord, Registering,
         GivenUp, Queued, LeftToDpc, LeftToCancel, DpcOwns, CleanupOwns,
         Gone, EventRecord, Record, Quiet, NotCalled, Cancellable,
         CancelWaits, CancelAnswers, DispatchAnswers, Registered, DpcRelock
    <3>2. handle' = handle /\ device' = device /\ irpFile' = irpFile
      BY <2>6 DEF handle, DpcRelock
    <3> QED
      BY <3>1, <3>2, PhaseStutter
  <2>7. CASE DpcFree(r)
    <3>1. \A q \in Reqs : PhaseOf(q)' = PhaseOf(q)
      BY <1>0, <2>7 DEF PhaseOf, RecordLife, Mode, NoRecord, Registering,
         GivenUp, Queued, LeftToDpc, LeftToCancel, DpcOwns, CleanupOwns,
         Gone, EventRecord, Record, Quiet, NotCalled, Cancellable,
         CancelWaits, CancelAnswers, DispatchAnswers, Registered, DpcFree,
         Freed
    <3>2. handle' = handle /\ device' = device /\ irpFile' = irpFile
      BY <2>7 DEF handle, DpcFree, Freed
    <3> QED
      BY <3>1, <3>2, PhaseStutter
  <2> QED
    BY <1>6, <2>1, <2>2, <2>3, <2>4, <2>5, <2>6, <2>7 DEF CustomTimerDPC
<1>7. ASSUME NEW r \in Reqs, CleanupComplete(r)
      PROVE  [Contract!Next]_(Contract!vars)
  <2>1. PhaseOf(r) = "committed" /\ PhaseOf(r)' = "completed"
    BY <1>0, <1>7 DEF PhaseOf, RecordLife, Mode, NoRecord, Registering,
       GivenUp, Queued, LeftToDpc, LeftToCancel, DpcOwns, CleanupOwns, Gone,
       EventRecord, Record, Quiet, NotCalled, Cancellable, CancelWaits,
       CancelAnswers, DispatchAnswers, Registered, CleanupComplete
  <2>2. \A q \in Reqs : q # r => PhaseOf(q)' = PhaseOf(q)
    BY <1>0, <1>7 DEF PhaseOf, CleanupComplete
  <2>3. phase' = [phase EXCEPT ![r] = "completed"] /\ phase[r] = "committed"
    BY <2>1, <2>2, PhaseChange DEF phase
  <2>4. handle' = handle /\ device' = device /\ irpFile' = irpFile
    BY <1>7 DEF handle, CleanupComplete
  <2> QED
    BY <2>3, <2>4 DEF Contract!Next, Contract!Complete
<1>8. ASSUME NEW f \in Files, CleanupWalk(f)
      PROVE  [Contract!Next]_(Contract!vars)
  <2>1. \A q \in Owned(f) : PhaseOf(q) = "queued" /\ PhaseOf(q)' = "committed"
    BY <1>0, <1>8 DEF PhaseOf, CleanupWalk, Owned, Stopped, EventQueue,
       TimerStoppable, ClearedByUs, RecordLife, Mode, NoRecord, Registering,
       GivenUp, Queued, LeftToDpc, LeftToCancel, DpcOwns, CleanupOwns, Gone,
       EventRecord, Record, Quiet, NotCalled, Cancellable, CancelWaits,
       CancelAnswers, DispatchAnswers, Registered
  <2>2. \A q \in Reqs : q \notin Owned(f) => PhaseOf(q)' = PhaseOf(q)
    BY <1>0, <1>8 DEF PhaseOf, CleanupWalk, Owned, Stopped, EventQueue,
       TimerStoppable, ClearedByUs, RecordLife, Mode, NoRecord, Registering,
       GivenUp, Queued, LeftToDpc, LeftToCancel, DpcOwns, CleanupOwns, Gone,
       EventRecord, Record, Quiet, NotCalled, Cancellable, CancelWaits,
       CancelAnswers, DispatchAnswers, Registered
  <2>3. Owned(f) \in SUBSET Reqs
    BY DEF Owned, Stopped, EventQueue
  <2>4. handle' = handle /\ device' = device /\ irpFile' = irpFile
    BY <1>8 DEF handle, CleanupWalk
  <2>5. Contract!Commit(Owned(f))
    BY <2>1, <2>2, <2>3, <2>4 DEF Contract!Commit, phase
  <2> QED
    BY <2>3, <2>5 DEF Contract!Next
<1>9. ASSUME NEW f \in Files, Create(f)
      PROVE  [Contract!Next]_(Contract!vars)
  <2>1. phase' = phase /\ irpFile' = irpFile /\ device' = device
    BY <1>9 DEF phase, PhaseOf, Create, IoCreateFile
  <2>2. handle[f] = "none" /\ handle' = [handle EXCEPT ![f] = "open"]
    BY <1>0, <1>9 DEF handle, Create, IoCreateFile
  <2>3. device = "live"
    BY <1>9 DEF Create, IoCreateFile
  <2> QED
    BY <2>1, <2>2, <2>3 DEF Contract!Next, Contract!Open
<1>10. ASSUME NEW f \in Files, CleanupStart(f)
      PROVE  [Contract!Next]_(Contract!vars)
  <2>1. phase' = phase /\ irpFile' = irpFile /\ device' = device
    BY <1>10 DEF phase, PhaseOf, CleanupStart, IoCloseHandle
  <2>2. handle[f] = "open" /\ handle' = [handle EXCEPT ![f] = "cleanup"]
    BY <1>0, <1>10 DEF handle, CleanupStart, IoCloseHandle
  <2> QED
    BY <2>1, <2>2 DEF Contract!Next, Contract!BeginCleanup
<1>11. ASSUME NEW f \in Files, CleanupEnd(f)
      PROVE  [Contract!Next]_(Contract!vars)
  <2>1. phase' = phase /\ irpFile' = irpFile /\ device' = device
    BY <1>11 DEF phase, PhaseOf, CleanupEnd
  <2>2. handle[f] = "cleanup" /\ handle' = [handle EXCEPT ![f] = "cleaned"]
    BY <1>0, <1>11 DEF handle, CleanupEnd
  <2>3. \A r \in Reqs : irpFile[r] = f => phase[r] # "queued"
    BY <1>0, <1>11 DEF phase, PhaseOf, CleanupLeavesOnlyFired, RecordLife,
       Mode, NoRecord, Registering, GivenUp, Queued, LeftToDpc,
       LeftToCancel, DpcOwns, CleanupOwns, Gone, EventRecord, Record, Quiet,
       NotCalled, Cancellable, CancelWaits, CancelAnswers, DispatchAnswers,
       Registered, CleanupEnd
  <2> QED
    BY <2>1, <2>2, <2>3 DEF Contract!Next, Contract!EndCleanup
<1>12. ASSUME NEW f \in Files, Close(f)
      PROVE  [Contract!Next]_(Contract!vars)
  <2>1. phase' = phase /\ irpFile' = irpFile /\ device' = device
    BY <1>12 DEF phase, PhaseOf, Close, IoCloseFile
  <2>2. handle[f] = "cleaned" /\ handle' = [handle EXCEPT ![f] = "closed"]
    BY <1>0, <1>12 DEF handle, Close, IoCloseFile
  <2>3. \A r \in Reqs : irpFile[r] = f => phase[r] = "completed"
    BY <1>0, <1>12 DEF phase, PhaseOf, CompletedOnce, Close, IoCloseFile
  <2> QED
    BY <2>1, <2>2, <2>3 DEF Contract!Next, Contract!Close
<1>13. CASE EventUnload
  <2>1. phase' = phase /\ irpFile' = irpFile /\ handle' = handle
    BY <1>13 DEF EventUnload, phase, PhaseOf, handle
  <2>2. \A f \in Files : handle[f] \in {"none", "closed"}
    BY <1>13 DEF EventUnload, NoOpenFiles, handle
  <2> QED
    BY <1>13, <2>1, <2>2 DEF EventUnload, Contract!Next, Contract!Unload
<1>14. CASE UNCHANGED vars
  BY <1>14 DEF phase, PhaseOf, handle
<1> QED
  BY <1>1, <1>2, <1>3, <1>4, <1>5, <1>6, <1>7, <1>8, <1>9, <1>10, <1>11,
     <1>12, <1>13, <1>14 DEF Next, Cleanup, Terminated

\* The driver keeps the contract of a driver that queues requests: one
\* completion for each, and none left idle in the queue by cleanup.
THEOREM ContractKept == Spec => KeepsContract
<1>1. Init => Contract!Init
  BY DEF Init, IoInit, Contract!Init, handle, phase, PhaseOf
<1>2. IInv /\ IInv' /\ [Next]_vars => [Contract!Next]_(Contract!vars)
  BY ContractStep
<1> QED
  BY <1>1, <1>2, InductiveInvariant, PTL DEF Spec, KeepsContract, Contract!Spec
=============================================================================
