---------------------------- MODULE StartIoProofs ----------------------------
(***************************************************************************)
(* Proofs about StartIo, for any set of handles and of IRPs.               *)
(***************************************************************************)
EXTENDS StartIo, IoCsqProofs

USE IoAssumption, CsqAssumption, StartIoAssumption

\* Every variable keeps its type: in particular INPUT_DATA.Data, an unsigned
\* number, is never counted down below zero.
LEMMA TypeStep == TypeOK /\ [Next]_vars => TypeOK'
<1> SUFFICES ASSUME TypeOK, [Next]_vars
             PROVE  TypeOK'
  OBVIOUS
<1> USE DEF TypeOK, IoTypeOK, CsqTypeOK, vars, ioVars, irpVars, cancelVars,
            csqVars, initiateVars, SetPC, SetIo, SetCancelRoutine,
            IoCompleteRequest, PCs, IoStates, FileStates, CancellerStates,
            Statuses, Contexts
<1>1. ASSUME NEW r \in Reqs, NEW f \in Files, Issue(r, f)
      PROVE  TypeOK'
  BY <1>1 DEF Issue, IssueIrp
<1>2. ASSUME NEW r \in Reqs, Read(r)
      PROVE  TypeOK'
  <2>1. CASE ReadEnter(r)
    <3>1. data' \in [Reqs -> 0 .. MaxData]
      BY <2>1 DEF ReadEnter
    <3>2. rundown' \in [Files -> SUBSET Reqs]
      BY <2>1 DEF ReadEnter, IoAcquireRemoveLock
    <3> QED
      BY <2>1, <3>1, <3>2 DEF ReadEnter
  <2>2. CASE ReadRefused(r)
    BY <2>2 DEF ReadRefused
  <2>3. CASE ReadTooSmall(r)
    BY <2>3 DEF ReadTooSmall
  <2>4. CASE ReadTooSmallComplete(r)
    BY <2>4 DEF ReadTooSmallComplete
  <2>5. CASE ReadStart(r)
    BY <2>5 DEF ReadStart, LockFree, DeviceIdle
  <2>6. CASE ReadInsert(r)
    BY <2>6 DEF ReadInsert, LockFree, DeviceIdle
  <2>7. CASE ReadInsertCancelled(r)
    <3>1. \E i \in DOMAIN queue : queue' = RemoveAt(queue, i)
      BY <2>7 DEF ReadInsertCancelled, InsertCancelled, CsqUnlink
    <3>2. queue' \in Seq(Reqs)
      BY <3>1, RemoveAtFacts
    <3> QED
      BY <2>7, <3>2 DEF ReadInsertCancelled, InsertCancelled, CsqUnlink
  <2>8. CASE ReadInserted(r)
    BY <2>8 DEF ReadInserted, InsertCancelled
  <2>9. CASE ReadCompleteCancelled(r)
    BY <2>9 DEF ReadCompleteCancelled
  <2>10. CASE ReadRelease(r)
    BY <2>10 DEF ReadRelease, IoReleaseRemoveLock
  <2> QED
    BY <1>2, <2>1, <2>2, <2>3, <2>4, <2>5, <2>6, <2>7, <2>8, <2>9, <2>10
       DEF Read
<1>3. ASSUME NEW a \in Contexts, CsampInitiateIo(a)
      PROVE  TypeOK'
  <2>1. CASE InitiateStart(a)
    BY <2>1 DEF InitiateStart
  <2>2. CASE InitiatePending(a)
    <3>1. data' \in [Reqs -> 0 .. MaxData]
      <4>1. data' = [q \in Reqs |-> IF q = irp[a] THEN data[q] - 1 ELSE data[q]]
        BY <2>2 DEF InitiatePending
      <4>2. \A q \in Reqs : q = irp[a] => data[q] > 0
        BY <2>2 DEF InitiatePending, NotReady
      <4> QED
        BY <4>1, <4>2
    <3> QED
      BY <2>2, <3>1 DEF InitiatePending, KeSetTimer
  <2>3. CASE InitiateComplete(a)
    <3>1. completions' \in [Reqs -> Nat]
      <4>1. completions' = [q \in Reqs |-> IF q = irp[a] THEN completions[q] + 1
                                                       ELSE completions[q]]
        BY <2>3 DEF InitiateComplete
      <4> QED
        BY <4>1
    <3>2. ioStatus' \in [Reqs -> Statuses]
      BY <2>3 DEF InitiateComplete
    <3> QED
      BY <2>3, <3>1, <3>2 DEF InitiateComplete
  <2>4. CASE InitiateNext(a)
    <3>1. \E i \in DOMAIN queue : queue' = RemoveAt(queue, i)
      BY <2>4 DEF InitiateNext, IsNext, TakesIrp, CsqTake, LockFree
    <3>2. queue' \in Seq(Reqs)
      BY <3>1, RemoveAtFacts
    <3>3. \A i \in DOMAIN queue : queue[i] \in Reqs
      OBVIOUS
    <3>4. currentIrp' \in Reqs
      BY <2>4, <3>3 DEF InitiateNext
    <3>5. irp' \in [Contexts -> Reqs \cup {NoReq}]
      BY <2>4, <3>3 DEF InitiateNext
    <3>6. cancelRoutine' \in [Reqs -> BOOLEAN]
      BY <2>4, <3>3 DEF InitiateNext, CsqTake
    <3> QED
      BY <2>4, <3>2, <3>4, <3>5, <3>6 DEF InitiateNext, CsqTake
  <2>5. CASE InitiateEnd(a)
    BY <2>5 DEF InitiateEnd, BecomesIdle, LockFree
  <2> QED
    BY <1>3, <2>1, <2>2, <2>3, <2>4, <2>5 DEF CsampInitiateIo
<1>4. ASSUME NEW r \in Reqs, CancelStep(r)
      PROVE  TypeOK'
  <2>1. CASE CallCancelRoutine(r)
    BY <2>1 DEF CallCancelRoutine, IoCallCancelRoutine
  <2>2. CASE CancelUnlink(r)
    <3>1. \E i \in DOMAIN queue : queue' = RemoveAt(queue, i)
      BY <2>2 DEF CancelUnlink, CsqCancelRoutine, CsqUnlink, LockFree
    <3>2. queue' \in Seq(Reqs)
      BY <3>1, RemoveAtFacts
    <3> QED
      BY <2>2, <3>2 DEF CancelUnlink, CsqCancelRoutine, CsqUnlink,
         LockFree
  <2>3. CASE CancelComplete(r)
    BY <2>3 DEF CancelComplete, CsqCompleteCanceledIrp
  <2> QED
    BY <1>4, <2>1, <2>2, <2>3 DEF CancelStep
<1>5. ASSUME NEW f \in Files, Cleanup(f)
      PROVE  TypeOK'
  <2>1. CASE CleanupDrain(f)
    BY <2>1 DEF CleanupDrain, RundownOver
  <2>2. CASE CleanupTake(f)
    <3>1. \E i \in DOMAIN queue : queue' = RemoveAt(queue, i)
      BY <2>2 DEF CleanupTake, IsNext, TakesIrp, CsqTake, LockFree
    <3>2. queue' \in Seq(Reqs)
      BY <3>1, RemoveAtFacts
    <3>3. \A i \in DOMAIN queue : queue[i] \in Reqs
      OBVIOUS
    <3> QED
      BY <2>2, <3>2, <3>3 DEF CleanupTake, IsNext, TakesIrp, CsqTake,
         LockFree
  <2>3. CASE CleanupComplete(f)
    BY <2>3 DEF CleanupComplete
  <2>4. CASE CleanupEnd(f)
    BY <2>4 DEF CleanupEnd, LockFree
  <2> QED
    BY <1>5, <2>1, <2>2, <2>3, <2>4 DEF Cleanup
<1>6. ASSUME NEW r \in Reqs, Cancel(r)
      PROVE  TypeOK'
  BY <1>6 DEF Cancel, IoCancelIrp, Outstanding
<1>7. ASSUME NEW f \in Files, Create(f)
      PROVE  TypeOK'
  BY <1>7 DEF Create, IoCreateFile
<1>8. ASSUME NEW f \in Files, CleanupStart(f)
      PROVE  TypeOK'
  BY <1>8 DEF CleanupStart, IoCloseHandle
<1>9. ASSUME NEW f \in Files, Close(f)
      PROVE  TypeOK'
  BY <1>9 DEF Close, IoCloseFile
<1>10. CASE TimerExpire
  BY <1>10 DEF TimerExpire
<1>11. CASE DpcStart
  BY <1>11 DEF DpcStart
<1>12. CASE Unload
  BY <1>12 DEF Unload, NoOpenFiles
<1>13. CASE UNCHANGED vars
  BY <1>13
<1> QED
  BY <1>1, <1>2, <1>3, <1>4, <1>5, <1>6, <1>7, <1>8, <1>9, <1>10, <1>11,
     <1>12, <1>13 DEF Next, Work, Terminated

\* Every variable keeps its type; in particular CurrentIrp is an IRP or NULL,
\* and the countdown of an IRP in the device stays within its bound.
THEOREM TypeCorrect == Spec => []TypeOK
<1>1. Init => TypeOK
  BY DEF TypeOK, IoTypeOK, CsqTypeOK, Init, IoInit, CsqInit, PCs, IoStates,
     FileStates, CancellerStates, Statuses, Contexts
<1> QED
  BY <1>1, TypeStep, PTL DEF Spec

(***************************************************************************)
(* The modes of one read.                                                  *)
(***************************************************************************)

\* What the mode of a read depends on, besides the queue, CurrentIrp and cleanup
Local(q) ==
  <<pc[q], irpFile[q], completions[q], cancelRoutine[q], canceller[q]>>

\* An activity on one read leaves the others in their modes.
LEMMA ModeFrame ==
  ASSUME NEW q \in Reqs, Mode(q), Local(q)' = Local(q),
         Waiting(q)' <=> Waiting(q), CleanedUp(q)' <=> CleanedUp(q),
         currentIrp' = q <=> currentIrp = q
  PROVE  Mode(q)'
BY DEF Local, Mode, Unissued, Dispatched, Queued, Answering, Taken,
   Completed, Private, Uncalled

\* Every activity takes the read it works on from one mode to another.
LEMMA ModeStep ==
  ASSUME TypeOK, NoDuplicates, ReadLife, LockHolder, CleanupsApart, OneInCharge,
         CurrentKnown, [Next]_vars,
         NEW q \in Reqs
  PROVE  Mode(q)'
<1> USE DEF TypeOK, IoTypeOK, CsqTypeOK, vars, ioVars, irpVars, cancelVars,
            csqVars, initiateVars, SetPC, SetIo, SetCancelRoutine,
            IoCompleteRequest, Contexts, Waiting, CleanedUp
<1>0. Mode(q)
  BY DEF ReadLife
<1>1. ASSUME NEW r \in Reqs, NEW f \in Files, Issue(r, f)
      PROVE  Mode(q)'
  <2>1. CASE q # r
    BY <1>0, <1>1, <2>1, ModeFrame DEF Local, Issue, IssueIrp
  <2>2. CASE q = r
    BY <1>0, <1>1, <2>2 DEF Issue, IssueIrp, Mode, Unissued, Dispatched,
       Queued, Answering, Taken, Completed, Private, Uncalled
  <2> QED
    BY <2>1, <2>2
<1>2. ASSUME NEW r \in Reqs, Read(r)
      PROVE  Mode(q)'
  <2>1. CASE ReadEnter(r)
    <3>1. CASE q # r
      BY <1>0, <2>1, <3>1, ModeFrame DEF Local, ReadEnter,
         IoAcquireRemoveLock
    <3>2. CASE q = r
      BY <1>0, <2>1, <3>2 DEF ReadEnter, IoAcquireRemoveLock, Mode,
         Unissued, Dispatched, Queued, Answering, Taken, Completed,
         Private, Uncalled
    <3> QED
      BY <3>1, <3>2
  <2>2. CASE ReadRefused(r)
    <3>1. CASE q # r
      BY <1>0, <2>2, <3>1, ModeFrame DEF Local, ReadRefused
    <3>2. CASE q = r
      BY <1>0, <2>2, <3>2 DEF ReadRefused, Mode, Unissued, Dispatched,
         Queued, Answering, Taken, Completed, Private, Uncalled
    <3> QED
      BY <3>1, <3>2
  <2>3. CASE ReadTooSmall(r)
    <3>1. CASE q # r
      BY <1>0, <2>3, <3>1, ModeFrame DEF Local, ReadTooSmall
    <3>2. CASE q = r
      BY <1>0, <2>3, <3>2 DEF ReadTooSmall, Mode, Unissued, Dispatched,
         Queued, Answering, Taken, Completed, Private, Uncalled
    <3> QED
      BY <3>1, <3>2
  <2>4. CASE ReadTooSmallComplete(r)
    <3>1. CASE q # r
      BY <1>0, <2>4, <3>1, ModeFrame DEF Local, ReadTooSmallComplete
    <3>2. CASE q = r
      BY <1>0, <2>4, <3>2 DEF ReadTooSmallComplete, Mode, Unissued,
         Dispatched, Queued, Answering, Taken, Completed, Private,
         Uncalled
    <3> QED
      BY <3>1, <3>2
  <2>5. CASE ReadStart(r)
    <3>1. CASE q # r
      BY <1>0, <2>5, <3>1, ModeFrame DEF Local, ReadStart, LockFree,
         DeviceIdle
    <3>2. CASE q = r
      BY <1>0, <2>5, <3>2 DEF ReadStart, LockFree, DeviceIdle, Mode,
         Unissued, Dispatched, Queued, Answering, Taken, Completed,
         Private, Uncalled
    <3> QED
      BY <3>1, <3>2
  <2>6. CASE ReadInsert(r)
    <3>1. ToSet(queue') = ToSet(queue) \cup {r}
      BY <2>6, InsertFacts DEF ReadInsert, LockFree, DeviceIdle
    <3>2. CASE q # r
      BY <1>0, <2>6, <3>1, <3>2, ModeFrame DEF Local, ReadInsert,
         LockFree, DeviceIdle
    <3>3. CASE q = r
      BY <1>0, <2>6, <3>1, <3>3 DEF ReadInsert, LockFree, DeviceIdle,
         Mode, Unissued, Dispatched, Queued, Answering, Taken,
         Completed, Private, Uncalled
    <3> QED
      BY <3>2, <3>3
  <2>7. CASE ReadInsertCancelled(r)
    <3>1. ToSet(queue') = ToSet(queue) \ {r}
      BY <2>7, UnlinkFacts DEF ReadInsertCancelled, InsertCancelled,
         CsqUnlink
    <3>2. CASE q # r
      BY <1>0, <2>7, <3>1, <3>2, ModeFrame DEF Local,
         ReadInsertCancelled, InsertCancelled
    <3>3. CASE q = r
      BY <1>0, <2>7, <3>1, <3>3 DEF ReadInsertCancelled,
         InsertCancelled, Mode, Unissued, Dispatched, Queued, Answering,
         Taken, Completed, Private, Uncalled
    <3> QED
      BY <3>2, <3>3
  <2>8. CASE ReadInserted(r)
    <3>1. CASE q # r
      BY <1>0, <2>8, <3>1, ModeFrame DEF Local, ReadInserted,
         InsertCancelled
    <3>2. CASE q = r
      BY <1>0, <2>8, <3>2 DEF ReadInserted, InsertCancelled, Mode,
         Unissued, Dispatched, Queued, Answering, Taken, Completed,
         Private, Uncalled
    <3> QED
      BY <3>1, <3>2
  <2>9. CASE ReadCompleteCancelled(r)
    <3>1. CASE q # r
      BY <1>0, <2>9, <3>1, ModeFrame DEF Local, ReadCompleteCancelled
    <3>2. CASE q = r
      BY <1>0, <2>9, <3>2 DEF ReadCompleteCancelled, Mode, Unissued,
         Dispatched, Queued, Answering, Taken, Completed, Private,
         Uncalled
    <3> QED
      BY <3>1, <3>2
  <2>10. CASE ReadRelease(r)
    <3>1. CASE q # r
      BY <1>0, <2>10, <3>1, ModeFrame DEF Local, ReadRelease,
         IoReleaseRemoveLock
    <3>2. CASE q = r
      BY <1>0, <2>10, <3>2 DEF ReadRelease, IoReleaseRemoveLock, Mode,
         Unissued, Dispatched, Queued, Answering, Taken, Completed,
         Private, Uncalled
    <3> QED
      BY <3>1, <3>2
  <2> QED
    BY <1>2, <2>1, <2>2, <2>3, <2>4, <2>5, <2>6, <2>7, <2>8, <2>9, <2>10
       DEF Read
<1>3. ASSUME NEW a \in Contexts, CsampInitiateIo(a)
      PROVE  Mode(q)'
  <2>1. CASE InitiateStart(a)
    BY <1>0, <2>1, ModeFrame DEF Local, InitiateStart
  <2>2. CASE InitiatePending(a)
    BY <1>0, <2>2, ModeFrame DEF Local, InitiatePending, NotReady,
       KeSetTimer
  <2>3. CASE InitiateComplete(a)
    <3>1. CASE q # currentIrp
      BY <1>0, <2>3, <3>1, ModeFrame DEF Local, InitiateComplete,
         CurrentKnown, NotReady
    <3>2. CASE q = currentIrp
      BY <1>0, <2>3, <3>2 DEF InitiateComplete, NotReady, CurrentKnown,
         OneInCharge, InCharge, Mode, Unissued, Dispatched, Queued,
         Answering, Taken, Completed, Private, Uncalled
    <3> QED
      BY <3>1, <3>2
  <2>4. CASE InitiateNext(a)
    <3>1. PICK i \in DOMAIN queue :
             /\ cancelRoutine[queue[i]]
             /\ queue' = RemoveAt(queue, i)
             /\ cancelRoutine' = [cancelRoutine EXCEPT ![queue[i]] = FALSE]
             /\ currentIrp' = queue[i]
      BY <2>4 DEF InitiateNext, IsNext, TakesIrp, CsqTake, LockFree
    <3>2. /\ queue[i] \in Reqs /\ queue[i] \in ToSet(queue)
          /\ ToSet(queue') = ToSet(queue) \ {queue[i]}
      BY <3>1, UnlinkFacts
    <3>3. Mode(queue[i])
      BY <3>2 DEF ReadLife
    <3>4. CASE q = currentIrp
      BY <1>0, <2>4, <3>1, <3>2, <3>3, <3>4 DEF InitiateNext,
         CurrentKnown, Mode, Unissued, Dispatched, Queued, Answering,
         Taken, Completed, Private, Uncalled
    <3>5. CASE q # currentIrp /\ q # queue[i]
      BY <1>0, <2>4, <3>1, <3>2, <3>5, ModeFrame DEF Local, InitiateNext
    <3>6. CASE q # currentIrp /\ q = queue[i]
      BY <1>0, <2>4, <3>1, <3>2, <3>6 DEF InitiateNext, LockHolder,
         CsqTake, LockFree, Mode, Unissued, Dispatched, Queued,
         Answering, Taken, Completed, Private, Uncalled
    <3> QED
      BY <3>4, <3>5, <3>6
  <2>5. CASE InitiateEnd(a)
    <3>1. CASE q # currentIrp
      BY <1>0, <2>5, <3>1, ModeFrame DEF Local, InitiateEnd,
         BecomesIdle, LockFree
    <3>2. CASE q = currentIrp
      BY <1>0, <2>5, <3>2 DEF InitiateEnd, BecomesIdle, LockFree,
         CurrentKnown, Mode, Unissued, Dispatched, Queued, Answering,
         Taken, Completed, Private, Uncalled
    <3> QED
      BY <3>1, <3>2
  <2> QED
    BY <1>3, <2>1, <2>2, <2>3, <2>4, <2>5 DEF CsampInitiateIo
<1>4. ASSUME NEW r \in Reqs, CancelStep(r)
      PROVE  Mode(q)'
  <2>1. CASE CallCancelRoutine(r)
    <3>1. CASE q # r
      BY <1>0, <2>1, <3>1, ModeFrame DEF Local, CallCancelRoutine,
         IoCallCancelRoutine
    <3>2. CASE q = r
      BY <1>0, <2>1, <3>2 DEF CallCancelRoutine, IoCallCancelRoutine,
         Mode, Unissued, Dispatched, Queued, Answering, Taken,
         Completed, Private, Uncalled
    <3> QED
      BY <3>1, <3>2
  <2>2. CASE CancelUnlink(r)
    <3>1. ToSet(queue') = ToSet(queue) \ {r}
      BY <2>2, UnlinkFacts DEF CancelUnlink, CsqCancelRoutine,
         CsqUnlink, LockFree
    <3>2. CASE q # r
      BY <1>0, <2>2, <3>1, <3>2, ModeFrame DEF Local, CancelUnlink,
         CsqCancelRoutine, LockFree
    <3>3. CASE q = r
      BY <1>0, <2>2, <3>1, <3>3 DEF CancelUnlink, CsqCancelRoutine,
         LockFree, Mode, Unissued, Dispatched, Queued, Answering, Taken,
         Completed, Private, Uncalled, LockHolder
    <3> QED
      BY <3>2, <3>3
  <2>3. CASE CancelComplete(r)
    <3>1. CASE q # r
      BY <1>0, <2>3, <3>1, ModeFrame DEF Local, CancelComplete,
         CsqCompleteCanceledIrp
    <3>2. CASE q = r
      BY <1>0, <2>3, <3>2 DEF CancelComplete, CsqCompleteCanceledIrp,
         Mode, Unissued, Dispatched, Queued, Answering, Taken,
         Completed, Private, Uncalled
    <3> QED
      BY <3>1, <3>2
  <2> QED
    BY <1>4, <2>1, <2>2, <2>3 DEF CancelStep
<1>5. ASSUME NEW f \in Files, Cleanup(f)
      PROVE  Mode(q)'
  <2>1. CASE CleanupDrain(f)
    BY <1>0, <2>1, ModeFrame DEF Local, CleanupDrain, RundownOver
  <2>2. CASE CleanupTake(f)
    <3>1. PICK i \in DOMAIN queue :
             /\ cancelRoutine[queue[i]]
             /\ queue' = RemoveAt(queue, i)
             /\ cancelRoutine' = [cancelRoutine EXCEPT ![queue[i]] = FALSE]
             /\ cleanupIrp' = [cleanupIrp EXCEPT ![f] = queue[i]]
      BY <2>2 DEF CleanupTake, IsNext, TakesIrp, CsqTake, LockFree
    <3>2. /\ queue[i] \in Reqs /\ queue[i] \in ToSet(queue)
          /\ ToSet(queue') = ToSet(queue) \ {queue[i]}
      BY <3>1, UnlinkFacts
    <3>3. Mode(queue[i])
      BY <3>2 DEF ReadLife
    <3>4. CASE q # queue[i]
      BY <1>0, <2>2, <3>1, <3>2, <3>4, ModeFrame DEF Local, CleanupTake
    <3>5. CASE q = queue[i]
      BY <1>0, <2>2, <3>1, <3>2, <3>5 DEF CleanupTake, LockHolder,
         CsqTake, LockFree, Mode, Unissued, Dispatched, Queued,
         Answering, Taken, Completed, Private, Uncalled
    <3> QED
      BY <3>4, <3>5
  <2>3. CASE CleanupComplete(f)
    <3>1. CASE q # cleanupIrp[f]
      BY <1>0, <2>3, <3>1, ModeFrame DEF Local, CleanupComplete
    <3>2. CASE q = cleanupIrp[f]
      BY <1>0, <2>3, <3>2 DEF CleanupComplete, CleanupsApart, Mode,
         Unissued, Dispatched, Queued, Answering, Taken, Completed,
         Private, Uncalled
    <3> QED
      BY <3>1, <3>2
  <2>4. CASE CleanupEnd(f)
    BY <1>0, <2>4, ModeFrame DEF Local, CleanupEnd, LockFree
  <2> QED
    BY <1>5, <2>1, <2>2, <2>3, <2>4 DEF Cleanup
<1>6. ASSUME NEW r \in Reqs, Cancel(r)
      PROVE  Mode(q)'
  <2>1. CASE q # r
    BY <1>0, <1>6, <2>1, ModeFrame DEF Local, Cancel, IoCancelIrp,
       Outstanding
  <2>2. CASE q = r
    BY <1>0, <1>6, <2>2 DEF Cancel, IoCancelIrp, Outstanding, Mode,
       Unissued, Dispatched, Queued, Answering, Taken, Completed, Private,
       Uncalled
  <2> QED
    BY <2>1, <2>2
<1>7. ASSUME NEW f \in Files, Create(f)
      PROVE  Mode(q)'
  BY <1>0, <1>7, ModeFrame DEF Local, Create, IoCreateFile
<1>8. ASSUME NEW f \in Files, CleanupStart(f)
      PROVE  Mode(q)'
  BY <1>0, <1>8, ModeFrame DEF Local, CleanupStart, IoCloseHandle
<1>9. ASSUME NEW f \in Files, Close(f)
      PROVE  Mode(q)'
  BY <1>0, <1>9, ModeFrame DEF Local, Close, IoCloseFile
<1>10. CASE TimerExpire
  BY <1>0, <1>10, ModeFrame DEF Local, TimerExpire
<1>11. CASE DpcStart
  BY <1>0, <1>11, ModeFrame DEF Local, DpcStart
<1>12. CASE Unload
  BY <1>0, <1>12, ModeFrame DEF Local, Unload, NoOpenFiles
<1>13. CASE UNCHANGED vars
  BY <1>0, <1>13, ModeFrame DEF Local
<1> QED
  BY <1>1, <1>2, <1>3, <1>4, <1>5, <1>6, <1>7, <1>8, <1>9, <1>10, <1>11,
     <1>12, <1>13 DEF Next, Work, Terminated

(***************************************************************************)
(* The other parts of the invariant.                                       *)
(***************************************************************************)

\* No IRP is linked twice.
LEMMA QueueStep ==
  ASSUME TypeOK, NoDuplicates, ReadLife, [Next]_vars
  PROVE  NoDuplicates'
<1> USE DEF TypeOK, IoTypeOK, CsqTypeOK, vars, ioVars, irpVars, cancelVars,
            csqVars, initiateVars, SetPC, SetIo, SetCancelRoutine,
            IoCompleteRequest
<1>1. ASSUME NEW r \in Reqs, NEW f \in Files, Issue(r, f)
      PROVE  NoDuplicates'
  BY <1>1 DEF NoDuplicates, Issue, IssueIrp
<1>2. ASSUME NEW r \in Reqs, Read(r)
      PROVE  NoDuplicates'
  <2>1. CASE ReadEnter(r)
    BY <2>1 DEF NoDuplicates, ReadEnter, IoAcquireRemoveLock
  <2>2. CASE ReadRefused(r)
    BY <2>2 DEF NoDuplicates, ReadRefused
  <2>3. CASE ReadTooSmall(r)
    BY <2>3 DEF NoDuplicates, ReadTooSmall
  <2>4. CASE ReadTooSmallComplete(r)
    BY <2>4 DEF NoDuplicates, ReadTooSmallComplete
  <2>5. CASE ReadStart(r)
    BY <2>5 DEF NoDuplicates, ReadStart, LockFree, DeviceIdle
  <2>6. CASE ReadInsert(r)
    <3>1. r \notin ToSet(queue)
      BY <2>6 DEF ReadInsert, ReadLife, Waiting, Mode, Unissued,
         Dispatched, Queued, Answering, Taken, Completed, Private,
         Uncalled
    <3> QED
      BY <2>6, <3>1, InsertFacts DEF ReadInsert
  <2>7. CASE ReadInsertCancelled(r)
    BY <2>7, UnlinkFacts DEF ReadInsertCancelled, InsertCancelled,
       CsqUnlink
  <2>8. CASE ReadInserted(r)
    BY <2>8 DEF NoDuplicates, ReadInserted, InsertCancelled
  <2>9. CASE ReadCompleteCancelled(r)
    BY <2>9 DEF NoDuplicates, ReadCompleteCancelled
  <2>10. CASE ReadRelease(r)
    BY <2>10 DEF NoDuplicates, ReadRelease, IoReleaseRemoveLock
  <2> QED
    BY <1>2, <2>1, <2>2, <2>3, <2>4, <2>5, <2>6, <2>7, <2>8, <2>9, <2>10
       DEF Read
<1>3. ASSUME NEW a \in Contexts, CsampInitiateIo(a)
      PROVE  NoDuplicates'
  <2>1. CASE InitiateStart(a)
    BY <2>1 DEF NoDuplicates, InitiateStart
  <2>2. CASE InitiatePending(a)
    BY <2>2 DEF NoDuplicates, InitiatePending, NotReady, KeSetTimer
  <2>3. CASE InitiateComplete(a)
    BY <2>3 DEF NoDuplicates, InitiateComplete, NotReady
  <2>4. CASE InitiateNext(a)
    BY <2>4, UnlinkFacts DEF InitiateNext, IsNext, TakesIrp, CsqTake,
       LockFree
  <2>5. CASE InitiateEnd(a)
    BY <2>5 DEF NoDuplicates, InitiateEnd, BecomesIdle, LockFree
  <2> QED
    BY <1>3, <2>1, <2>2, <2>3, <2>4, <2>5 DEF CsampInitiateIo
<1>4. ASSUME NEW r \in Reqs, CancelStep(r)
      PROVE  NoDuplicates'
  <2>1. CASE CallCancelRoutine(r)
    BY <2>1 DEF NoDuplicates, CallCancelRoutine, IoCallCancelRoutine
  <2>2. CASE CancelUnlink(r)
    BY <2>2, UnlinkFacts DEF CancelUnlink, CsqCancelRoutine, CsqUnlink,
       LockFree
  <2>3. CASE CancelComplete(r)
    BY <2>3 DEF NoDuplicates, CancelComplete, CsqCompleteCanceledIrp
  <2> QED
    BY <1>4, <2>1, <2>2, <2>3 DEF CancelStep
<1>5. ASSUME NEW f \in Files, Cleanup(f)
      PROVE  NoDuplicates'
  <2>1. CASE CleanupDrain(f)
    BY <2>1 DEF NoDuplicates, CleanupDrain, RundownOver
  <2>2. CASE CleanupTake(f)
    BY <2>2, UnlinkFacts DEF CleanupTake, IsNext, TakesIrp, CsqTake,
       LockFree
  <2>3. CASE CleanupComplete(f)
    BY <2>3 DEF NoDuplicates, CleanupComplete
  <2>4. CASE CleanupEnd(f)
    BY <2>4 DEF NoDuplicates, CleanupEnd, LockFree
  <2> QED
    BY <1>5, <2>1, <2>2, <2>3, <2>4 DEF Cleanup
<1>6. ASSUME NEW r \in Reqs, Cancel(r)
      PROVE  NoDuplicates'
  BY <1>6 DEF NoDuplicates, Cancel, IoCancelIrp, Outstanding
<1>7. ASSUME NEW f \in Files, Create(f)
      PROVE  NoDuplicates'
  BY <1>7 DEF NoDuplicates, Create, IoCreateFile
<1>8. ASSUME NEW f \in Files, CleanupStart(f)
      PROVE  NoDuplicates'
  BY <1>8 DEF NoDuplicates, CleanupStart, IoCloseHandle
<1>9. ASSUME NEW f \in Files, Close(f)
      PROVE  NoDuplicates'
  BY <1>9 DEF NoDuplicates, Close, IoCloseFile
<1>10. CASE TimerExpire
  BY <1>10 DEF NoDuplicates, TimerExpire
<1>11. CASE DpcStart
  BY <1>11 DEF NoDuplicates, DpcStart
<1>12. CASE Unload
  BY <1>12 DEF NoDuplicates, Unload, NoOpenFiles
<1>13. CASE UNCHANGED vars
  BY <1>13 DEF NoDuplicates
<1> QED
  BY <1>1, <1>2, <1>3, <1>4, <1>5, <1>6, <1>7, <1>8, <1>9, <1>10, <1>11,
     <1>12, <1>13 DEF Next, Work, Terminated

\* QueueLock has one holder at a time.
LEMMA LockStep ==
  ASSUME TypeOK, LockHolder, [Next]_vars
  PROVE  LockHolder'
<1> USE DEF TypeOK, IoTypeOK, CsqTypeOK, vars, ioVars, irpVars, cancelVars,
            csqVars, initiateVars, SetPC, SetIo, SetCancelRoutine,
            IoCompleteRequest, LockHolder
<1>1. ASSUME NEW r \in Reqs, NEW f \in Files, Issue(r, f)
      PROVE  LockHolder'
  BY <1>1 DEF Issue, IssueIrp
<1>2. ASSUME NEW r \in Reqs, Read(r)
      PROVE  LockHolder'
  <2>1. CASE ReadEnter(r)
    BY <2>1 DEF ReadEnter, IoAcquireRemoveLock
  <2>2. CASE ReadRefused(r)
    BY <2>2 DEF ReadRefused
  <2>3. CASE ReadTooSmall(r)
    BY <2>3 DEF ReadTooSmall
  <2>4. CASE ReadTooSmallComplete(r)
    BY <2>4 DEF ReadTooSmallComplete
  <2>5. CASE ReadStart(r)
    BY <2>5 DEF ReadStart, LockFree, DeviceIdle
  <2>6. CASE ReadInsert(r)
    BY <2>6 DEF ReadInsert, LockFree, DeviceIdle
  <2>7. CASE ReadInsertCancelled(r)
    BY <2>7 DEF ReadInsertCancelled, InsertCancelled, CsqUnlink
  <2>8. CASE ReadInserted(r)
    BY <2>8 DEF ReadInserted, InsertCancelled
  <2>9. CASE ReadCompleteCancelled(r)
    BY <2>9 DEF ReadCompleteCancelled
  <2>10. CASE ReadRelease(r)
    BY <2>10 DEF ReadRelease, IoReleaseRemoveLock
  <2> QED
    BY <1>2, <2>1, <2>2, <2>3, <2>4, <2>5, <2>6, <2>7, <2>8, <2>9, <2>10
       DEF Read
<1>3. ASSUME NEW a \in Contexts, CsampInitiateIo(a)
      PROVE  LockHolder'
  <2>1. CASE InitiateStart(a)
    BY <2>1 DEF InitiateStart
  <2>2. CASE InitiatePending(a)
    BY <2>2 DEF InitiatePending, NotReady, KeSetTimer
  <2>3. CASE InitiateComplete(a)
    BY <2>3 DEF InitiateComplete, NotReady
  <2>4. CASE InitiateNext(a)
    BY <2>4 DEF InitiateNext, IsNext, TakesIrp, CsqTake, LockFree
  <2>5. CASE InitiateEnd(a)
    BY <2>5 DEF InitiateEnd, BecomesIdle, LockFree
  <2> QED
    BY <1>3, <2>1, <2>2, <2>3, <2>4, <2>5 DEF CsampInitiateIo
<1>4. ASSUME NEW r \in Reqs, CancelStep(r)
      PROVE  LockHolder'
  <2>1. CASE CallCancelRoutine(r)
    BY <2>1 DEF CallCancelRoutine, IoCallCancelRoutine
  <2>2. CASE CancelUnlink(r)
    BY <2>2 DEF CancelUnlink, CsqCancelRoutine, CsqUnlink, LockFree
  <2>3. CASE CancelComplete(r)
    BY <2>3 DEF CancelComplete, CsqCompleteCanceledIrp
  <2> QED
    BY <1>4, <2>1, <2>2, <2>3 DEF CancelStep
<1>5. ASSUME NEW f \in Files, Cleanup(f)
      PROVE  LockHolder'
  <2>1. CASE CleanupDrain(f)
    BY <2>1 DEF CleanupDrain, RundownOver
  <2>2. CASE CleanupTake(f)
    BY <2>2 DEF CleanupTake, IsNext, TakesIrp, CsqTake, LockFree
  <2>3. CASE CleanupComplete(f)
    BY <2>3 DEF CleanupComplete
  <2>4. CASE CleanupEnd(f)
    BY <2>4 DEF CleanupEnd, LockFree
  <2> QED
    BY <1>5, <2>1, <2>2, <2>3, <2>4 DEF Cleanup
<1>6. ASSUME NEW r \in Reqs, Cancel(r)
      PROVE  LockHolder'
  BY <1>6 DEF Cancel, IoCancelIrp, Outstanding
<1>7. ASSUME NEW f \in Files, Create(f)
      PROVE  LockHolder'
  BY <1>7 DEF Create, IoCreateFile
<1>8. ASSUME NEW f \in Files, CleanupStart(f)
      PROVE  LockHolder'
  BY <1>8 DEF CleanupStart, IoCloseHandle
<1>9. ASSUME NEW f \in Files, Close(f)
      PROVE  LockHolder'
  BY <1>9 DEF Close, IoCloseFile
<1>10. CASE TimerExpire
  BY <1>10 DEF TimerExpire
<1>11. CASE DpcStart
  BY <1>11 DEF DpcStart
<1>12. CASE Unload
  BY <1>12 DEF Unload, NoOpenFiles
<1>13. CASE UNCHANGED vars
  BY <1>13
<1> QED
  BY <1>1, <1>2, <1>3, <1>4, <1>5, <1>6, <1>7, <1>8, <1>9, <1>10, <1>11,
     <1>12, <1>13 DEF Next, Work, Terminated

\* Two cleanups never have the same read to complete.
LEMMA CleanupStep ==
  ASSUME TypeOK, NoDuplicates, ReadLife, CleanupsApart, [Next]_vars
  PROVE  CleanupsApart'
<1> USE DEF TypeOK, IoTypeOK, CsqTypeOK, vars, ioVars, irpVars, cancelVars,
            csqVars, initiateVars, SetPC, SetIo, SetCancelRoutine,
            IoCompleteRequest, CleanupsApart
<1>1. ASSUME NEW r \in Reqs, NEW f \in Files, Issue(r, f)
      PROVE  CleanupsApart'
  BY <1>1 DEF Issue, IssueIrp
<1>2. ASSUME NEW r \in Reqs, Read(r)
      PROVE  CleanupsApart'
  <2>1. CASE ReadEnter(r)
    BY <2>1 DEF ReadEnter, IoAcquireRemoveLock
  <2>2. CASE ReadRefused(r)
    BY <2>2 DEF ReadRefused
  <2>3. CASE ReadTooSmall(r)
    BY <2>3 DEF ReadTooSmall
  <2>4. CASE ReadTooSmallComplete(r)
    BY <2>4 DEF ReadTooSmallComplete
  <2>5. CASE ReadStart(r)
    BY <2>5 DEF ReadStart, LockFree, DeviceIdle
  <2>6. CASE ReadInsert(r)
    BY <2>6 DEF ReadInsert, LockFree, DeviceIdle
  <2>7. CASE ReadInsertCancelled(r)
    BY <2>7 DEF ReadInsertCancelled, InsertCancelled, CsqUnlink
  <2>8. CASE ReadInserted(r)
    BY <2>8 DEF ReadInserted, InsertCancelled
  <2>9. CASE ReadCompleteCancelled(r)
    BY <2>9 DEF ReadCompleteCancelled
  <2>10. CASE ReadRelease(r)
    BY <2>10 DEF ReadRelease, IoReleaseRemoveLock
  <2> QED
    BY <1>2, <2>1, <2>2, <2>3, <2>4, <2>5, <2>6, <2>7, <2>8, <2>9, <2>10
       DEF Read
<1>3. ASSUME NEW a \in Contexts, CsampInitiateIo(a)
      PROVE  CleanupsApart'
  <2>1. CASE InitiateStart(a)
    BY <2>1 DEF InitiateStart
  <2>2. CASE InitiatePending(a)
    BY <2>2 DEF InitiatePending, NotReady, KeSetTimer
  <2>3. CASE InitiateComplete(a)
    BY <2>3 DEF InitiateComplete, NotReady
  <2>4. CASE InitiateNext(a)
    BY <2>4 DEF InitiateNext, IsNext, TakesIrp, CsqTake, LockFree
  <2>5. CASE InitiateEnd(a)
    BY <2>5 DEF InitiateEnd, BecomesIdle, LockFree
  <2> QED
    BY <1>3, <2>1, <2>2, <2>3, <2>4, <2>5 DEF CsampInitiateIo
<1>4. ASSUME NEW r \in Reqs, CancelStep(r)
      PROVE  CleanupsApart'
  <2>1. CASE CallCancelRoutine(r)
    BY <2>1 DEF CallCancelRoutine, IoCallCancelRoutine
  <2>2. CASE CancelUnlink(r)
    BY <2>2 DEF CancelUnlink, CsqCancelRoutine, CsqUnlink, LockFree
  <2>3. CASE CancelComplete(r)
    BY <2>3 DEF CancelComplete, CsqCompleteCanceledIrp
  <2> QED
    BY <1>4, <2>1, <2>2, <2>3 DEF CancelStep
<1>5. ASSUME NEW f \in Files, Cleanup(f)
      PROVE  CleanupsApart'
  <2>1. CASE CleanupDrain(f)
    BY <2>1 DEF CleanupDrain, RundownOver
  <2>2. CASE CleanupTake(f)
    <3>1. PICK i \in DOMAIN queue :
           /\ queue' = RemoveAt(queue, i)
           /\ cleanupIrp' = [cleanupIrp EXCEPT ![f] = queue[i]]
      BY <2>2 DEF CleanupTake, IsNext, TakesIrp, CsqTake, LockFree
    <3>2. queue[i] \in Reqs /\ queue[i] \in ToSet(queue)
      BY <3>1, UnlinkFacts
    <3>3. ~ CleanedUp(queue[i])
      BY <3>2 DEF ReadLife, Waiting, Mode, Unissued, Dispatched, Queued,
         Answering, Taken, Completed, Private, Uncalled
    <3> QED
      BY <3>1, <3>2, <3>3 DEF CleanedUp
  <2>3. CASE CleanupComplete(f)
    BY <2>3 DEF CleanupComplete
  <2>4. CASE CleanupEnd(f)
    BY <2>4 DEF CleanupEnd, LockFree
  <2> QED
    BY <1>5, <2>1, <2>2, <2>3, <2>4 DEF Cleanup
<1>6. ASSUME NEW r \in Reqs, Cancel(r)
      PROVE  CleanupsApart'
  BY <1>6 DEF Cancel, IoCancelIrp, Outstanding
<1>7. ASSUME NEW f \in Files, Create(f)
      PROVE  CleanupsApart'
  BY <1>7 DEF Create, IoCreateFile
<1>8. ASSUME NEW f \in Files, CleanupStart(f)
      PROVE  CleanupsApart'
  BY <1>8 DEF CleanupStart, IoCloseHandle
<1>9. ASSUME NEW f \in Files, Close(f)
      PROVE  CleanupsApart'
  BY <1>9 DEF Close, IoCloseFile
<1>10. CASE TimerExpire
  BY <1>10 DEF TimerExpire
<1>11. CASE DpcStart
  BY <1>11 DEF DpcStart
<1>12. CASE Unload
  BY <1>12 DEF Unload, NoOpenFiles
<1>13. CASE UNCHANGED vars
  BY <1>13
<1> QED
  BY <1>1, <1>2, <1>3, <1>4, <1>5, <1>6, <1>7, <1>8, <1>9, <1>10, <1>11,
     <1>12, <1>13 DEF Next, Work, Terminated

\* The context in charge goes on, and stays the only one.
LEMMA SoleContext ==
  ASSUME NEW a \in Contexts, io \in [Contexts -> IoStates], InCharge = {a},
         io' = [io EXCEPT ![a] = "poll"]
  PROVE  /\ InCharge' = {a}
         /\ \A b \in Contexts : io'[b] \in {"none", "poll"}
BY DEF InCharge

\* One context is in charge of the device, and it knows the current read.
LEMMA ChargeStep ==
  ASSUME TypeOK, NoDuplicates, ReadLife, OneInCharge, CurrentKnown,
         HandleInUse, [Next]_vars
  PROVE  OneInCharge' /\ CurrentKnown'
<1> USE DEF TypeOK, IoTypeOK, CsqTypeOK, vars, ioVars, irpVars, cancelVars,
            csqVars, initiateVars, SetPC, SetIo, SetCancelRoutine,
            IoCompleteRequest, Contexts, OneInCharge, InCharge, CurrentKnown
<1>1. ASSUME NEW r \in Reqs, NEW f \in Files, Issue(r, f)
      PROVE  OneInCharge' /\ CurrentKnown'
  BY <1>1 DEF Issue, IssueIrp
<1>2. ASSUME NEW r \in Reqs, Read(r)
      PROVE  OneInCharge' /\ CurrentKnown'
  <2>1. CASE ReadEnter(r)
    BY <2>1 DEF ReadEnter, IoAcquireRemoveLock
  <2>2. CASE ReadRefused(r)
    <3>1. r # currentIrp
      BY <2>2 DEF ReadRefused, ReadLife, Mode, Unissued, Dispatched,
         Queued, Answering, Taken, Completed, Private, Uncalled
    <3>2. currentIrp # NoReq =>
            completions'[currentIrp] = completions[currentIrp]
      BY <2>2, <3>1 DEF ReadRefused
    <3> QED
      BY <2>2, <3>1, <3>2 DEF ReadRefused
  <2>3. CASE ReadTooSmall(r)
    BY <2>3 DEF ReadTooSmall
  <2>4. CASE ReadTooSmallComplete(r)
    <3>1. r # currentIrp
      BY <2>4 DEF ReadTooSmallComplete, ReadLife, Mode, Unissued,
         Dispatched, Queued, Answering, Taken, Completed, Private,
         Uncalled
    <3>2. currentIrp # NoReq =>
            completions'[currentIrp] = completions[currentIrp]
      BY <2>4, <3>1 DEF ReadTooSmallComplete
    <3> QED
      BY <2>4, <3>1, <3>2 DEF ReadTooSmallComplete
  <2>5. CASE ReadStart(r)
    <3>1. completions[r] = 0 /\ io[r] = "none"
      BY <2>5 DEF ReadStart, LockFree, DeviceIdle, ReadLife, Mode,
         Unissued, Dispatched, Queued, Answering, Taken, Completed,
         Private, Uncalled
    <3>2. io' = [io EXCEPT ![r] = "start"] /\ r # NoReq
      BY <2>5 DEF ReadStart, LockFree, DeviceIdle
    <3> QED
      BY <2>5, <3>1, <3>2 DEF ReadStart, LockFree, DeviceIdle
  <2>6. CASE ReadInsert(r)
    BY <2>6 DEF ReadInsert, LockFree, DeviceIdle
  <2>7. CASE ReadInsertCancelled(r)
    BY <2>7 DEF ReadInsertCancelled, InsertCancelled, CsqUnlink
  <2>8. CASE ReadInserted(r)
    BY <2>8 DEF ReadInserted, InsertCancelled
  <2>9. CASE ReadCompleteCancelled(r)
    <3>1. r # currentIrp
      BY <2>9 DEF ReadCompleteCancelled, ReadLife, Mode, Unissued,
         Dispatched, Queued, Answering, Taken, Completed, Private,
         Uncalled
    <3>2. currentIrp # NoReq =>
            completions'[currentIrp] = completions[currentIrp]
      BY <2>9, <3>1 DEF ReadCompleteCancelled
    <3> QED
      BY <2>9, <3>1, <3>2 DEF ReadCompleteCancelled
  <2>10. CASE ReadRelease(r)
    BY <2>10 DEF ReadRelease, IoReleaseRemoveLock
  <2> QED
    BY <1>2, <2>1, <2>2, <2>3, <2>4, <2>5, <2>6, <2>7, <2>8, <2>9, <2>10
       DEF Read
<1>3. ASSUME NEW a \in Contexts, CsampInitiateIo(a)
      PROVE  OneInCharge' /\ CurrentKnown'
  <2>1. CASE InitiateStart(a)
    BY <2>1 DEF InitiateStart
  <2>2. CASE InitiatePending(a)
    BY <2>2 DEF InitiatePending, NotReady, KeSetTimer
  <2>3. CASE InitiateComplete(a)
    <3>1. currentIrp \in Reqs /\ completions[currentIrp] = 0
      BY <2>3 DEF InitiateComplete, NotReady, ReadLife, Mode, Unissued,
         Dispatched, Queued, Answering, Taken, Completed, Private,
         Uncalled
    <3>2. completions'[currentIrp] = 1
      BY <2>3, <3>1 DEF InitiateComplete, NotReady
    <3> QED
      BY <2>3, <3>1, <3>2 DEF InitiateComplete, NotReady
  <2>4. CASE InitiateNext(a)
    <3>1. PICK i \in DOMAIN queue :
             /\ queue' = RemoveAt(queue, i)
             /\ currentIrp' = queue[i]
             /\ irp' = [irp EXCEPT ![a] = queue[i]]
      BY <2>4 DEF InitiateNext, IsNext, TakesIrp, CsqTake, LockFree
    <3>2. queue[i] \in Reqs /\ queue[i] \in ToSet(queue)
      BY <3>1, UnlinkFacts
    <3>3. completions[queue[i]] = 0
      BY <3>2 DEF ReadLife, Waiting, Mode, Unissued, Dispatched, Queued,
         Answering, Taken, Completed, Private, Uncalled
    <3>4. InCharge = {a}
      BY <2>4 DEF InitiateNext
    <3>5. /\ InCharge' = {a}
          /\ \A b \in Contexts : io'[b] \in {"none", "poll"}
      BY <2>4, <3>4, SoleContext DEF InitiateNext
    <3>6. /\ currentIrp' = queue[i] /\ queue[i] # NoReq
          /\ irp'[a] = queue[i] /\ timer' = timer
      BY <2>4, <3>1, <3>2 DEF InitiateNext
    <3>7. OneInCharge'
      BY <3>4, <3>5, <3>6 DEF OneInCharge
    <3>8. CurrentKnown'
      <4>1. completions' = completions /\ pc' = pc
        BY <2>4 DEF InitiateNext
      <4>2. \A b \in Contexts : io'[b] # "none" => b = a /\ io'[b] = "poll"
        BY <3>5 DEF InCharge
      <4>3. \A q \in Reqs : io'[q] # "none" => pc'[q] = "release"
        BY <3>4, <4>1, <4>2
      <4>4. completions'[currentIrp'] = 0
        BY <3>3, <3>6, <4>1
      <4>5. \A b \in Contexts : io'[b] = "poll" => irp'[b] = currentIrp'
        BY <3>6, <4>2
      <4>6. ~ \E b \in Contexts : io'[b] = "next"
        BY <4>2
      <4> QED
        BY <4>3, <4>4, <4>5, <4>6
    <3> QED
      BY <3>7, <3>8
  <2>5. CASE InitiateEnd(a)
    BY <2>5 DEF InitiateEnd, BecomesIdle, LockFree
  <2> QED
    BY <1>3, <2>1, <2>2, <2>3, <2>4, <2>5 DEF CsampInitiateIo
<1>4. ASSUME NEW r \in Reqs, CancelStep(r)
      PROVE  OneInCharge' /\ CurrentKnown'
  <2>1. CASE CallCancelRoutine(r)
    BY <2>1 DEF CallCancelRoutine, IoCallCancelRoutine
  <2>2. CASE CancelUnlink(r)
    BY <2>2 DEF CancelUnlink, CsqCancelRoutine, CsqUnlink, LockFree
  <2>3. CASE CancelComplete(r)
    <3>1. r # currentIrp
      BY <2>3 DEF CancelComplete, CsqCompleteCanceledIrp, ReadLife,
         Mode, Unissued, Dispatched, Queued, Answering, Taken,
         Completed, Private, Uncalled
    <3>2. currentIrp # NoReq =>
            completions'[currentIrp] = completions[currentIrp]
      BY <2>3, <3>1 DEF CancelComplete, CsqCompleteCanceledIrp
    <3> QED
      BY <2>3, <3>1, <3>2 DEF CancelComplete, CsqCompleteCanceledIrp
  <2> QED
    BY <1>4, <2>1, <2>2, <2>3 DEF CancelStep
<1>5. ASSUME NEW f \in Files, Cleanup(f)
      PROVE  OneInCharge' /\ CurrentKnown'
  <2>1. CASE CleanupDrain(f)
    BY <2>1 DEF CleanupDrain, RundownOver
  <2>2. CASE CleanupTake(f)
    BY <2>2 DEF CleanupTake, IsNext, TakesIrp, CsqTake, LockFree
  <2>3. CASE CleanupComplete(f)
    <3>1. cleanupIrp[f] # currentIrp
      <4>1. cleanupIrp[f] \in Reqs /\ CleanedUp(cleanupIrp[f])
        BY <2>3 DEF CleanupComplete, CleanedUp
      <4> QED
        BY <4>1 DEF ReadLife, Mode, Unissued, Dispatched, Queued,
           Answering, Taken, Completed, Private, Uncalled
    <3>2. currentIrp # NoReq =>
            completions'[currentIrp] = completions[currentIrp]
      BY <2>3, <3>1 DEF CleanupComplete
    <3> QED
      BY <2>3, <3>1, <3>2 DEF CleanupComplete
  <2>4. CASE CleanupEnd(f)
    BY <2>4 DEF CleanupEnd, LockFree
  <2> QED
    BY <1>5, <2>1, <2>2, <2>3, <2>4 DEF Cleanup
<1>6. ASSUME NEW r \in Reqs, Cancel(r)
      PROVE  OneInCharge' /\ CurrentKnown'
  BY <1>6 DEF Cancel, IoCancelIrp, Outstanding
<1>7. ASSUME NEW f \in Files, Create(f)
      PROVE  OneInCharge' /\ CurrentKnown'
  BY <1>7 DEF Create, IoCreateFile
<1>8. ASSUME NEW f \in Files, CleanupStart(f)
      PROVE  OneInCharge' /\ CurrentKnown'
  BY <1>8 DEF CleanupStart, IoCloseHandle
<1>9. ASSUME NEW f \in Files, Close(f)
      PROVE  OneInCharge' /\ CurrentKnown'
  BY <1>9 DEF Close, IoCloseFile
<1>10. CASE TimerExpire
  BY <1>10 DEF TimerExpire
<1>11. CASE DpcStart
  BY <1>11 DEF DpcStart
<1>12. CASE Unload
  <2>1. timer # "set"
    <3>1. SUFFICES ASSUME timer = "set"
                   PROVE  FALSE
      OBVIOUS
    <3>2. /\ currentIrp \in Reqs
          /\ completions[currentIrp] = 0
          /\ irpFile[currentIrp] # NoFile
      BY <3>1 DEF ReadLife, Mode, Unissued, Dispatched, Queued,
         Answering, Taken, Completed, Private, Uncalled
    <3> QED
      BY <1>12, <3>2 DEF Unload, NoOpenFiles, HandleInUse, Outstanding
  <2> QED
    BY <1>12, <2>1 DEF Unload
<1>13. CASE UNCHANGED vars
  BY <1>13
<1> QED
  BY <1>1, <1>2, <1>3, <1>4, <1>5, <1>6, <1>7, <1>8, <1>9, <1>10, <1>11,
     <1>12, <1>13 DEF Next, Work, Terminated

\* No read waits for an idle device.
LEMMA ServedStep ==
  ASSUME TypeOK, NoDuplicates, QueueServed, [Next]_vars
  PROVE  QueueServed'
<1> USE DEF TypeOK, IoTypeOK, CsqTypeOK, vars, ioVars, irpVars, cancelVars,
            csqVars, initiateVars, SetPC, SetIo, SetCancelRoutine,
            IoCompleteRequest, QueueServed
<1>1. ASSUME NEW r \in Reqs, NEW f \in Files, Issue(r, f)
      PROVE  QueueServed'
  BY <1>1 DEF Issue, IssueIrp
<1>2. ASSUME NEW r \in Reqs, Read(r)
      PROVE  QueueServed'
  <2>1. CASE ReadEnter(r)
    BY <2>1 DEF ReadEnter, IoAcquireRemoveLock
  <2>2. CASE ReadRefused(r)
    BY <2>2 DEF ReadRefused
  <2>3. CASE ReadTooSmall(r)
    BY <2>3 DEF ReadTooSmall
  <2>4. CASE ReadTooSmallComplete(r)
    BY <2>4 DEF ReadTooSmallComplete
  <2>5. CASE ReadStart(r)
    BY <2>5 DEF ReadStart, LockFree, DeviceIdle
  <2>6. CASE ReadInsert(r)
    BY <2>6 DEF ReadInsert, LockFree, DeviceIdle
  <2>7. CASE ReadInsertCancelled(r)
    BY <2>7, UnlinkFacts DEF ReadInsertCancelled, InsertCancelled,
       CsqUnlink
  <2>8. CASE ReadInserted(r)
    BY <2>8 DEF ReadInserted, InsertCancelled
  <2>9. CASE ReadCompleteCancelled(r)
    BY <2>9 DEF ReadCompleteCancelled
  <2>10. CASE ReadRelease(r)
    BY <2>10 DEF ReadRelease, IoReleaseRemoveLock
  <2> QED
    BY <1>2, <2>1, <2>2, <2>3, <2>4, <2>5, <2>6, <2>7, <2>8, <2>9, <2>10
       DEF Read
<1>3. ASSUME NEW a \in Contexts, CsampInitiateIo(a)
      PROVE  QueueServed'
  <2>1. CASE InitiateStart(a)
    BY <2>1 DEF InitiateStart
  <2>2. CASE InitiatePending(a)
    BY <2>2 DEF InitiatePending, NotReady, KeSetTimer
  <2>3. CASE InitiateComplete(a)
    BY <2>3 DEF InitiateComplete, NotReady
  <2>4. CASE InitiateNext(a)
    BY <2>4, UnlinkFacts DEF InitiateNext, IsNext, TakesIrp, CsqTake,
       LockFree
  <2>5. CASE InitiateEnd(a)
    BY <2>5, PeekFacts DEF InitiateEnd, BecomesIdle, LockFree
  <2> QED
    BY <1>3, <2>1, <2>2, <2>3, <2>4, <2>5 DEF CsampInitiateIo
<1>4. ASSUME NEW r \in Reqs, CancelStep(r)
      PROVE  QueueServed'
  <2>1. CASE CallCancelRoutine(r)
    BY <2>1 DEF CallCancelRoutine, IoCallCancelRoutine
  <2>2. CASE CancelUnlink(r)
    BY <2>2, UnlinkFacts DEF CancelUnlink, CsqCancelRoutine, CsqUnlink,
       LockFree
  <2>3. CASE CancelComplete(r)
    BY <2>3 DEF CancelComplete, CsqCompleteCanceledIrp
  <2> QED
    BY <1>4, <2>1, <2>2, <2>3 DEF CancelStep
<1>5. ASSUME NEW f \in Files, Cleanup(f)
      PROVE  QueueServed'
  <2>1. CASE CleanupDrain(f)
    BY <2>1 DEF CleanupDrain, RundownOver
  <2>2. CASE CleanupTake(f)
    BY <2>2, UnlinkFacts DEF CleanupTake, IsNext, TakesIrp, CsqTake,
       LockFree
  <2>3. CASE CleanupComplete(f)
    BY <2>3 DEF CleanupComplete
  <2>4. CASE CleanupEnd(f)
    BY <2>4 DEF CleanupEnd, LockFree
  <2> QED
    BY <1>5, <2>1, <2>2, <2>3, <2>4 DEF Cleanup
<1>6. ASSUME NEW r \in Reqs, Cancel(r)
      PROVE  QueueServed'
  BY <1>6 DEF Cancel, IoCancelIrp, Outstanding
<1>7. ASSUME NEW f \in Files, Create(f)
      PROVE  QueueServed'
  BY <1>7 DEF Create, IoCreateFile
<1>8. ASSUME NEW f \in Files, CleanupStart(f)
      PROVE  QueueServed'
  BY <1>8 DEF CleanupStart, IoCloseHandle
<1>9. ASSUME NEW f \in Files, Close(f)
      PROVE  QueueServed'
  BY <1>9 DEF Close, IoCloseFile
<1>10. CASE TimerExpire
  BY <1>10 DEF TimerExpire
<1>11. CASE DpcStart
  BY <1>11 DEF DpcStart
<1>12. CASE Unload
  BY <1>12 DEF Unload, NoOpenFiles
<1>13. CASE UNCHANGED vars
  BY <1>13
<1> QED
  BY <1>1, <1>2, <1>3, <1>4, <1>5, <1>6, <1>7, <1>8, <1>9, <1>10, <1>11,
     <1>12, <1>13 DEF Next, Work, Terminated

\* A handle lasts longer than its reads, and its context than their dispatch.
LEMMA HandleStep ==
  ASSUME TypeOK, ReadLife, HandleInUse, FileContextAlive, [Next]_vars
  PROVE  HandleInUse' /\ FileContextAlive'
<1> USE DEF TypeOK, IoTypeOK, CsqTypeOK, vars, ioVars, irpVars, cancelVars,
            csqVars, initiateVars, SetPC, SetIo, SetCancelRoutine,
            IoCompleteRequest, HandleInUse, FileContextAlive, Outstanding
<1>1. ASSUME NEW r \in Reqs, NEW f \in Files, Issue(r, f)
      PROVE  HandleInUse' /\ FileContextAlive'
  BY <1>1 DEF Issue, IssueIrp
<1>2. ASSUME NEW r \in Reqs, Read(r)
      PROVE  HandleInUse' /\ FileContextAlive'
  <2>1. CASE ReadEnter(r)
    <3>1. irpFile[r] \in Files /\ completions[r] = 0
      BY <2>1 DEF ReadEnter, ReadLife, Mode, Unissued, Dispatched,
         Queued, Answering, Taken, Completed, Private, Uncalled
    <3>2. file[irpFile[r]] \in FileStates \ {"none", "closed"}
      BY <3>1
    <3>3. file[irpFile[r]] = "open"
      BY <2>1, <3>2 DEF ReadEnter, LockRemoved, IoAcquireRemoveLock
    <3>4. rundown' = [rundown EXCEPT ![irpFile[r]] = @ \cup {r}]
      BY <2>1 DEF ReadEnter, IoAcquireRemoveLock
    <3> QED
      BY <2>1, <3>1, <3>3, <3>4 DEF ReadEnter
  <2>2. CASE ReadRefused(r)
    BY <2>2 DEF ReadRefused
  <2>3. CASE ReadTooSmall(r)
    BY <2>3 DEF ReadTooSmall
  <2>4. CASE ReadTooSmallComplete(r)
    BY <2>4 DEF ReadTooSmallComplete
  <2>5. CASE ReadStart(r)
    BY <2>5 DEF ReadStart, LockFree, DeviceIdle
  <2>6. CASE ReadInsert(r)
    BY <2>6 DEF ReadInsert, LockFree, DeviceIdle
  <2>7. CASE ReadInsertCancelled(r)
    BY <2>7 DEF ReadInsertCancelled, InsertCancelled, CsqUnlink
  <2>8. CASE ReadInserted(r)
    BY <2>8 DEF ReadInserted, InsertCancelled
  <2>9. CASE ReadCompleteCancelled(r)
    BY <2>9 DEF ReadCompleteCancelled
  <2>10. CASE ReadRelease(r)
    BY <2>10 DEF ReadRelease, IoReleaseRemoveLock
  <2> QED
    BY <1>2, <2>1, <2>2, <2>3, <2>4, <2>5, <2>6, <2>7, <2>8, <2>9, <2>10
       DEF Read
<1>3. ASSUME NEW a \in Contexts, CsampInitiateIo(a)
      PROVE  HandleInUse' /\ FileContextAlive'
  <2>1. CASE InitiateStart(a)
    BY <2>1 DEF InitiateStart
  <2>2. CASE InitiatePending(a)
    BY <2>2 DEF InitiatePending, NotReady, KeSetTimer
  <2>3. CASE InitiateComplete(a)
    BY <2>3 DEF InitiateComplete, NotReady
  <2>4. CASE InitiateNext(a)
    BY <2>4 DEF InitiateNext, IsNext, TakesIrp, CsqTake, LockFree
  <2>5. CASE InitiateEnd(a)
    BY <2>5 DEF InitiateEnd, BecomesIdle, LockFree
  <2> QED
    BY <1>3, <2>1, <2>2, <2>3, <2>4, <2>5 DEF CsampInitiateIo
<1>4. ASSUME NEW r \in Reqs, CancelStep(r)
      PROVE  HandleInUse' /\ FileContextAlive'
  <2>1. CASE CallCancelRoutine(r)
    BY <2>1 DEF CallCancelRoutine, IoCallCancelRoutine
  <2>2. CASE CancelUnlink(r)
    BY <2>2 DEF CancelUnlink, CsqCancelRoutine, CsqUnlink, LockFree
  <2>3. CASE CancelComplete(r)
    BY <2>3 DEF CancelComplete, CsqCompleteCanceledIrp
  <2> QED
    BY <1>4, <2>1, <2>2, <2>3 DEF CancelStep
<1>5. ASSUME NEW f \in Files, Cleanup(f)
      PROVE  HandleInUse' /\ FileContextAlive'
  <2>1. CASE CleanupDrain(f)
    BY <2>1 DEF CleanupDrain, RundownOver
  <2>2. CASE CleanupTake(f)
    BY <2>2 DEF CleanupTake, IsNext, TakesIrp, CsqTake, LockFree
  <2>3. CASE CleanupComplete(f)
    BY <2>3 DEF CleanupComplete
  <2>4. CASE CleanupEnd(f)
    BY <2>4 DEF CleanupEnd, LockFree
  <2> QED
    BY <1>5, <2>1, <2>2, <2>3, <2>4 DEF Cleanup
<1>6. ASSUME NEW r \in Reqs, Cancel(r)
      PROVE  HandleInUse' /\ FileContextAlive'
  BY <1>6 DEF Cancel, IoCancelIrp, Outstanding
<1>7. ASSUME NEW f \in Files, Create(f)
      PROVE  HandleInUse' /\ FileContextAlive'
  BY <1>7 DEF Create, IoCreateFile
<1>8. ASSUME NEW f \in Files, CleanupStart(f)
      PROVE  HandleInUse' /\ FileContextAlive'
  BY <1>8 DEF CleanupStart, IoCloseHandle
<1>9. ASSUME NEW f \in Files, Close(f)
      PROVE  HandleInUse' /\ FileContextAlive'
  BY <1>9 DEF Close, IoCloseFile
<1>10. CASE TimerExpire
  BY <1>10 DEF TimerExpire
<1>11. CASE DpcStart
  BY <1>11 DEF DpcStart
<1>12. CASE Unload
  BY <1>12 DEF Unload, NoOpenFiles
<1>13. CASE UNCHANGED vars
  BY <1>13
<1> QED
  BY <1>1, <1>2, <1>3, <1>4, <1>5, <1>6, <1>7, <1>8, <1>9, <1>10, <1>11,
     <1>12, <1>13 DEF Next, Work, Terminated

\* Cleanup does not overlook a read.
LEMMA CleanupOverStep ==
  ASSUME TypeOK, NoDuplicates, ReadLife, HandleInUse, FileContextAlive,
         CleanupLeavesOnlyCalled, [Next]_vars
  PROVE  CleanupLeavesOnlyCalled'
<1> USE DEF TypeOK, IoTypeOK, CsqTypeOK, vars, ioVars, irpVars, cancelVars,
            csqVars, initiateVars, SetPC, SetIo, SetCancelRoutine,
            IoCompleteRequest, CleanupLeavesOnlyCalled, Waiting
<1>1. ASSUME NEW r \in Reqs, NEW f \in Files, Issue(r, f)
      PROVE  CleanupLeavesOnlyCalled'
  BY <1>1 DEF Issue, ReadLife, IssueIrp, Mode, Unissued, Dispatched, Queued,
     Answering, Taken, Completed, Private, Uncalled
<1>2. ASSUME NEW r \in Reqs, Read(r)
      PROVE  CleanupLeavesOnlyCalled'
  <2>1. CASE ReadEnter(r)
    BY <2>1 DEF ReadEnter, IoAcquireRemoveLock
  <2>2. CASE ReadRefused(r)
    BY <2>2 DEF ReadRefused
  <2>3. CASE ReadTooSmall(r)
    BY <2>3 DEF ReadTooSmall
  <2>4. CASE ReadTooSmallComplete(r)
    BY <2>4 DEF ReadTooSmallComplete
  <2>5. CASE ReadStart(r)
    BY <2>5 DEF ReadStart, LockFree, DeviceIdle
  <2>6. CASE ReadInsert(r)
    BY <2>6, InsertFacts DEF ReadInsert, HandleInUse, FileContextAlive,
       LockFree, DeviceIdle
  <2>7. CASE ReadInsertCancelled(r)
    BY <2>7, UnlinkFacts DEF ReadInsertCancelled, InsertCancelled,
       CsqUnlink
  <2>8. CASE ReadInserted(r)
    BY <2>8 DEF ReadInserted, InsertCancelled
  <2>9. CASE ReadCompleteCancelled(r)
    BY <2>9 DEF ReadCompleteCancelled
  <2>10. CASE ReadRelease(r)
    BY <2>10 DEF ReadRelease, IoReleaseRemoveLock
  <2> QED
    BY <1>2, <2>1, <2>2, <2>3, <2>4, <2>5, <2>6, <2>7, <2>8, <2>9, <2>10
       DEF Read
<1>3. ASSUME NEW a \in Contexts, CsampInitiateIo(a)
      PROVE  CleanupLeavesOnlyCalled'
  <2>1. CASE InitiateStart(a)
    BY <2>1 DEF InitiateStart
  <2>2. CASE InitiatePending(a)
    BY <2>2 DEF InitiatePending, NotReady, KeSetTimer
  <2>3. CASE InitiateComplete(a)
    BY <2>3 DEF InitiateComplete, NotReady
  <2>4. CASE InitiateNext(a)
    BY <2>4, UnlinkFacts DEF InitiateNext, IsNext, TakesIrp, CsqTake,
       LockFree
  <2>5. CASE InitiateEnd(a)
    BY <2>5 DEF InitiateEnd, BecomesIdle, LockFree
  <2> QED
    BY <1>3, <2>1, <2>2, <2>3, <2>4, <2>5 DEF CsampInitiateIo
<1>4. ASSUME NEW r \in Reqs, CancelStep(r)
      PROVE  CleanupLeavesOnlyCalled'
  <2>1. CASE CallCancelRoutine(r)
    BY <2>1 DEF CallCancelRoutine, IoCallCancelRoutine
  <2>2. CASE CancelUnlink(r)
    BY <2>2, UnlinkFacts DEF CancelUnlink, CsqCancelRoutine, CsqUnlink,
       LockFree
  <2>3. CASE CancelComplete(r)
    BY <2>3 DEF CancelComplete, CsqCompleteCanceledIrp
  <2> QED
    BY <1>4, <2>1, <2>2, <2>3 DEF CancelStep
<1>5. ASSUME NEW f \in Files, Cleanup(f)
      PROVE  CleanupLeavesOnlyCalled'
  <2>1. CASE CleanupDrain(f)
    BY <2>1 DEF CleanupDrain, RundownOver
  <2>2. CASE CleanupTake(f)
    BY <2>2, UnlinkFacts DEF CleanupTake, IsNext, TakesIrp, CsqTake,
       LockFree
  <2>3. CASE CleanupComplete(f)
    BY <2>3 DEF CleanupComplete
  <2>4. CASE CleanupEnd(f)
    BY <2>4 DEF CleanupEnd, CleanupNone, NoneLeft, CleanupScope, OfFile,
       TakesIrp, ToSet, LockFree
  <2> QED
    BY <1>5, <2>1, <2>2, <2>3, <2>4 DEF Cleanup
<1>6. ASSUME NEW r \in Reqs, Cancel(r)
      PROVE  CleanupLeavesOnlyCalled'
  BY <1>6 DEF Cancel, IoCancelIrp, Outstanding
<1>7. ASSUME NEW f \in Files, Create(f)
      PROVE  CleanupLeavesOnlyCalled'
  BY <1>7 DEF Create, IoCreateFile
<1>8. ASSUME NEW f \in Files, CleanupStart(f)
      PROVE  CleanupLeavesOnlyCalled'
  BY <1>8 DEF CleanupStart, IoCloseHandle
<1>9. ASSUME NEW f \in Files, Close(f)
      PROVE  CleanupLeavesOnlyCalled'
  BY <1>9 DEF Close, IoCloseFile
<1>10. CASE TimerExpire
  BY <1>10 DEF TimerExpire
<1>11. CASE DpcStart
  BY <1>11 DEF DpcStart
<1>12. CASE Unload
  BY <1>12 DEF Unload, NoOpenFiles
<1>13. CASE UNCHANGED vars
  BY <1>13
<1> QED
  BY <1>1, <1>2, <1>3, <1>4, <1>5, <1>6, <1>7, <1>8, <1>9, <1>10, <1>11,
     <1>12, <1>13 DEF Next, Work, Terminated

(***************************************************************************)
(* The theorems about safety.                                              *)
(***************************************************************************)

\* The life of a read, who is in charge of the device, and the use of the lock
\* and of the handle, together, are an inductive invariant of cancel.c.
THEOREM InductiveInvariant == Spec => []IInv
<1>1. Init => IInv
  <2> USE DEF Init, IoInit, CsqInit
  <2> SUFFICES ASSUME Init
               PROVE  IInv
    OBVIOUS
  <2>1. TypeOK
    BY DEF TypeOK, IoTypeOK, CsqTypeOK, PCs, IoStates, FileStates,
       CancellerStates, Statuses, Contexts
  <2>2. NoDuplicates /\ QueueServed /\ ToSet(queue) = {}
    BY DEF NoDuplicates, QueueServed, ToSet
  <2>3. ReadLife
    BY <2>2 DEF ReadLife, Mode, Unissued, Private, Uncalled, Waiting, CleanedUp
  <2>4. LockHolder /\ CleanupsApart /\ OneInCharge /\ CurrentKnown
    BY DEF LockHolder, CleanupsApart, OneInCharge, InCharge, CurrentKnown,
       Contexts
  <2>5. HandleInUse /\ FileContextAlive /\ CleanupLeavesOnlyCalled
    BY DEF HandleInUse, Outstanding, FileContextAlive, CleanupLeavesOnlyCalled
  <2> QED
    BY <2>1, <2>2, <2>3, <2>4, <2>5 DEF IInv
<1>2. IInv /\ [Next]_vars => IInv'
  <2> SUFFICES ASSUME IInv, [Next]_vars
               PROVE  IInv'
    OBVIOUS
  <2> USE DEF IInv
  <2>1. ReadLife'
    BY ModeStep DEF ReadLife
  <2> QED
    BY <2>1, TypeStep, QueueStep, LockStep, CleanupStep, ChargeStep,
       ServedStep, HandleStep, CleanupOverStep
<1> QED
  BY <1>1, <1>2, PTL DEF Spec

\* CurrentIrp is read without QueueLock, but never by two contexts at a time:
\* the readers, the timer and its DPC pass the device on to each other.
THEOREM ChargeOfDevice == Spec => []OneInCharge
BY InductiveInvariant, PTL DEF IInv

\* CsampPeekNextIrp leaves CurrentIrp NULL only if no read can be taken.
THEOREM ReadsServed == Spec => []QueueServed
BY InductiveInvariant, PTL DEF IInv

LEMMA CompletionInvariant == IInv => CompletedOnce
BY DEF IInv, CompletedOnce, ReadLife, Mode, Unissued, Dispatched, Queued,
   Answering, Taken, Completed

\* An IRP is completed at most once: by its reader, by whoever is in charge of
\* the device, by its cancel routine or by cleanup.
THEOREM Completion == Spec => []CompletedOnce
BY CompletionInvariant, InductiveInvariant, PTL

\* The FileRundownLock that a reader releases is still there, also after the
\* reader served the reads of other handles.
THEOREM HandleSafety == Spec => []FileContextAlive
BY InductiveInvariant, PTL DEF IInv

(***************************************************************************)
(* The contract: every step of StartIo is, seen through handle and phase,  *)
(* a step of IrpContract or none.                                          *)
(***************************************************************************)

LEMMA PhaseChange ==
  ASSUME NEW r \in Reqs, NEW to, PhaseOf(r)' = to,
         \A q \in Reqs : q # r => PhaseOf(q)' = PhaseOf(q)
  PROVE  phase' = [phase EXCEPT ![r] = to] /\ phase'[r] = to
BY DEF phase

LEMMA PhaseStutter ==
  ASSUME \A q \in Reqs : PhaseOf(q)' = PhaseOf(q)
  PROVE  phase' = phase
BY DEF phase

\* A read whose completion is now under way
LEMMA PhaseCommit ==
  ASSUME NEW r \in Reqs, phase[r] \in {"issued", "queued"},
         phase' = [phase EXCEPT ![r] = "committed"],
         handle' = handle, device' = device, irpFile' = irpFile
  PROVE  Contract!Next
<1>1. phase' = [q \in Reqs |-> IF q \in {r} THEN "committed" ELSE phase[q]]
  BY DEF phase
<1>2. Contract!Commit({r})
  BY <1>1 DEF Contract!Commit
<1>3. {r} \in SUBSET Reqs
  OBVIOUS
<1> QED
  BY <1>2, <1>3 DEF Contract!Next

\* Every step of the driver is one of the contract's or none.
LEMMA ContractStep ==
  ASSUME IInv, [Next]_vars
  PROVE  [Contract!Next]_(Contract!vars)
<1> USE DEF TypeOK, IoTypeOK, CsqTypeOK, vars, ioVars, irpVars, cancelVars,
            csqVars, initiateVars, SetPC, SetIo, SetCancelRoutine,
            IoCompleteRequest, Contract!vars, Contract!Step
<1>0. /\ TypeOK /\ NoDuplicates /\ ReadLife /\ LockHolder /\ CurrentKnown
      /\ OneInCharge /\ HandleInUse /\ FileContextAlive
      /\ CleanupLeavesOnlyCalled /\ CompletedOnce
  BY CompletionInvariant DEF IInv
<1>1. ASSUME NEW r \in Reqs, NEW f \in Files, Issue(r, f)
      PROVE  [Contract!Next]_(Contract!vars)
  <2>1. PhaseOf(r) = "none" /\ PhaseOf(r)' = "issued"
    BY <1>0, <1>1 DEF PhaseOf, ReadLife, Mode, Unissued, Dispatched,
       Queued, Answering, Taken, Completed, Private, Uncalled, Issue,
       IssueIrp
  <2>2. \A q \in Reqs : q # r => PhaseOf(q)' = PhaseOf(q)
    BY <1>0, <1>1 DEF PhaseOf, Issue, IssueIrp
  <2>3. phase' = [phase EXCEPT ![r] = "issued"] /\ phase[r] = "none"
    BY <2>1, <2>2, PhaseChange DEF phase
  <2>4. handle[f] = "open" /\ handle' = handle
    BY <1>1 DEF handle, Issue, IssueIrp
  <2>5. device' = device /\ irpFile' = [irpFile EXCEPT ![r] = f]
    BY <1>1 DEF Issue, IssueIrp
  <2> QED
    BY <2>3, <2>4, <2>5 DEF Contract!Next, Contract!Issue
<1>2. ASSUME NEW r \in Reqs, Read(r)
      PROVE  [Contract!Next]_(Contract!vars)
  <2>1. CASE ReadEnter(r)
    <3>1. \A q \in Reqs : PhaseOf(q)' = PhaseOf(q)
      BY <1>0, <2>1 DEF PhaseOf, ReadLife, Mode, Unissued, Dispatched,
         Queued, Answering, Taken, Completed, Private, Uncalled,
         ReadEnter, IoAcquireRemoveLock
    <3>2. handle' = handle /\ device' = device /\ irpFile' = irpFile
      BY <1>0, <2>1 DEF handle, ReadEnter, IoAcquireRemoveLock
    <3> QED
      BY <3>1, <3>2, PhaseStutter
  <2>2. CASE ReadRefused(r)
    <3>1. completions[r] = 0 /\ pc[r] \notin {"idle", "release", "done"}
      BY <1>0, <2>2 DEF ReadRefused, ReadLife, Mode, Unissued,
         Dispatched, Queued, Answering, Taken, Completed, Private,
         Uncalled
    <3>2. PhaseOf(r) = "issued" /\ PhaseOf(r)' = "completed"
      BY <1>0, <2>2, <3>1 DEF PhaseOf, ReadRefused
    <3>3. \A q \in Reqs : q # r => PhaseOf(q)' = PhaseOf(q)
      BY <1>0, <2>2 DEF PhaseOf, ReadRefused
    <3>4. phase' = [phase EXCEPT ![r] = "completed"] /\ phase[r] = "issued"
      BY <3>2, <3>3, PhaseChange DEF phase
    <3>5. handle' = handle /\ device' = device /\ irpFile' = irpFile
      BY <2>2 DEF handle, ReadRefused
    <3> QED
      BY <3>4, <3>5 DEF Contract!Next, Contract!Answer
  <2>3. CASE ReadTooSmall(r)
    <3>1. \A q \in Reqs : PhaseOf(q)' = PhaseOf(q)
      BY <1>0, <2>3 DEF PhaseOf, ReadTooSmall
    <3>2. handle' = handle /\ device' = device /\ irpFile' = irpFile
      BY <1>0, <2>3 DEF handle, ReadTooSmall
    <3> QED
      BY <3>1, <3>2, PhaseStutter
  <2>4. CASE ReadTooSmallComplete(r)
    <3>1. completions[r] = 0 /\ pc[r] \notin {"idle", "release", "done"}
      BY <1>0, <2>4 DEF ReadTooSmallComplete, ReadLife, Mode, Unissued,
         Dispatched, Queued, Answering, Taken, Completed, Private,
         Uncalled
    <3>2. PhaseOf(r) = "issued" /\ PhaseOf(r)' = "completed"
      BY <1>0, <2>4, <3>1 DEF PhaseOf, ReadTooSmallComplete
    <3>3. \A q \in Reqs : q # r => PhaseOf(q)' = PhaseOf(q)
      BY <1>0, <2>4 DEF PhaseOf, ReadTooSmallComplete
    <3>4. phase' = [phase EXCEPT ![r] = "completed"] /\ phase[r] = "issued"
      BY <3>2, <3>3, PhaseChange DEF phase
    <3>5. handle' = handle /\ device' = device /\ irpFile' = irpFile
      BY <2>4 DEF handle, ReadTooSmallComplete
    <3> QED
      BY <3>4, <3>5 DEF Contract!Next, Contract!Answer
  <2>5. CASE ReadStart(r)
    <3>1. /\ completions[r] = 0
          /\ pc[r] \notin {"idle", "release", "done"}
          /\ ~ cancelRoutine[r]
      BY <1>0, <2>5 DEF ReadStart, LockFree, DeviceIdle, ReadLife, Mode,
         Unissued, Dispatched, Queued, Answering, Taken, Completed,
         Private, Uncalled
    <3>2. PhaseOf(r) = "issued" /\ PhaseOf(r)' = "committed"
      BY <1>0, <2>5, <3>1 DEF PhaseOf, ReadStart, LockFree, DeviceIdle
    <3>3. \A q \in Reqs : q # r => PhaseOf(q)' = PhaseOf(q)
      BY <1>0, <2>5 DEF PhaseOf, ReadStart, LockFree, DeviceIdle
    <3>4. phase' = [phase EXCEPT ![r] = "committed"] /\ phase[r] = "issued"
      BY <3>2, <3>3, PhaseChange DEF phase
    <3>5. handle' = handle /\ device' = device /\ irpFile' = irpFile
      BY <2>5 DEF handle, ReadStart, LockFree, DeviceIdle
    <3> QED
      BY <3>4, <3>5, PhaseCommit
  <2>6. CASE ReadInsert(r)
    <3>1. \A q \in Reqs : PhaseOf(q)' = PhaseOf(q)
      BY <1>0, <2>6 DEF PhaseOf, ReadLife, Mode, Unissued, Dispatched,
         Queued, Answering, Taken, Completed, Private, Uncalled,
         ReadInsert, LockFree, DeviceIdle
    <3>2. handle' = handle /\ device' = device /\ irpFile' = irpFile
      BY <1>0, <2>6 DEF handle, ReadInsert, LockFree, DeviceIdle
    <3> QED
      BY <3>1, <3>2, PhaseStutter
  <2>7. CASE ReadInsertCancelled(r)
    <3>1. \A q \in Reqs : PhaseOf(q)' = PhaseOf(q)
      BY <1>0, <2>7 DEF PhaseOf, ReadLife, Mode, Unissued, Dispatched,
         Queued, Answering, Taken, Completed, Private, Uncalled,
         ReadInsertCancelled, InsertCancelled, CsqUnlink
    <3>2. handle' = handle /\ device' = device /\ irpFile' = irpFile
      BY <1>0, <2>7 DEF handle, ReadInsertCancelled, InsertCancelled,
         CsqUnlink
    <3> QED
      BY <3>1, <3>2, PhaseStutter
  <2>8. CASE ReadInserted(r)
    <3>1. CASE cancelRoutine[r]
      <4>1. completions[r] = 0 /\ pc[r] \notin {"idle", "release", "done"}
        BY <1>0, <2>8, <3>1 DEF ReadInserted, InsertCancelled,
           ReadLife, Mode, Unissued, Dispatched, Queued, Answering,
           Taken, Completed, Private, Uncalled
      <4>2. PhaseOf(r) = "issued" /\ PhaseOf(r)' = "queued"
        BY <1>0, <2>8, <3>1, <4>1 DEF PhaseOf, ReadInserted,
           InsertCancelled
      <4>3. \A q \in Reqs : q # r => PhaseOf(q)' = PhaseOf(q)
        BY <1>0, <2>8, <3>1 DEF PhaseOf, ReadInserted, InsertCancelled
      <4>4. phase' = [phase EXCEPT ![r] = "queued"] /\ phase[r] = "issued"
        BY <4>2, <4>3, PhaseChange DEF phase
      <4>5. handle' = handle /\ device' = device /\ irpFile' = irpFile
        BY <2>8 DEF handle, ReadInserted, InsertCancelled
      <4>6. handle[irpFile[r]] \in {"open", "cleanup"}
        BY <1>0, <2>8 DEF handle, HandleInUse, FileContextAlive,
           ReadLife, Mode, Unissued, Dispatched, Queued, Answering,
           Taken, Completed, Private, Uncalled, ReadInserted
      <4> QED
        BY <4>4, <4>5, <4>6 DEF Contract!Next, Contract!Queue
    <3>2. CASE ~ cancelRoutine[r]
      <4>1. /\ completions[r] = 0
            /\ pc[r] \notin {"idle", "release", "done"}
            /\ ~ cancelRoutine[r]
        BY <1>0, <2>8, <3>2 DEF ReadInserted, InsertCancelled,
           ReadLife, Mode, Unissued, Dispatched, Queued, Answering,
           Taken, Completed, Private, Uncalled
      <4>2. PhaseOf(r) = "issued" /\ PhaseOf(r)' = "committed"
        BY <1>0, <2>8, <3>2, <4>1 DEF PhaseOf, ReadInserted,
           InsertCancelled
      <4>3. \A q \in Reqs : q # r => PhaseOf(q)' = PhaseOf(q)
        BY <1>0, <2>8, <3>2 DEF PhaseOf, ReadInserted, InsertCancelled
      <4>4. phase' = [phase EXCEPT ![r] = "committed"] /\ phase[r] = "issued"
        BY <4>2, <4>3, PhaseChange DEF phase
      <4>5. handle' = handle /\ device' = device /\ irpFile' = irpFile
        BY <2>8 DEF handle, ReadInserted, InsertCancelled
      <4> QED
        BY <4>4, <4>5, PhaseCommit
    <3> QED
      BY <3>1, <3>2
  <2>9. CASE ReadCompleteCancelled(r)
    <3>1. completions[r] = 0 /\ pc[r] \notin {"idle", "release", "done"}
      BY <1>0, <2>9 DEF ReadCompleteCancelled, ReadLife, Mode, Unissued,
         Dispatched, Queued, Answering, Taken, Completed, Private,
         Uncalled
    <3>2. PhaseOf(r) = "issued" /\ PhaseOf(r)' = "completed"
      BY <1>0, <2>9, <3>1 DEF PhaseOf, ReadCompleteCancelled
    <3>3. \A q \in Reqs : q # r => PhaseOf(q)' = PhaseOf(q)
      BY <1>0, <2>9 DEF PhaseOf, ReadCompleteCancelled
    <3>4. phase' = [phase EXCEPT ![r] = "completed"] /\ phase[r] = "issued"
      BY <3>2, <3>3, PhaseChange DEF phase
    <3>5. handle' = handle /\ device' = device /\ irpFile' = irpFile
      BY <2>9 DEF handle, ReadCompleteCancelled
    <3> QED
      BY <3>4, <3>5 DEF Contract!Next, Contract!Answer
  <2>10. CASE ReadRelease(r)
    <3>1. \A q \in Reqs : PhaseOf(q)' = PhaseOf(q)
      BY <1>0, <2>10 DEF PhaseOf, ReadLife, Mode, Unissued, Dispatched,
         Queued, Answering, Taken, Completed, Private, Uncalled,
         ReadRelease, IoReleaseRemoveLock
    <3>2. handle' = handle /\ device' = device /\ irpFile' = irpFile
      BY <1>0, <2>10 DEF handle, ReadRelease, IoReleaseRemoveLock
    <3> QED
      BY <3>1, <3>2, PhaseStutter
  <2> QED
    BY <1>2, <2>1, <2>2, <2>3, <2>4, <2>5, <2>6, <2>7, <2>8, <2>9, <2>10
       DEF Read
<1>3. ASSUME NEW a \in Contexts, CsampInitiateIo(a)
      PROVE  [Contract!Next]_(Contract!vars)
  <2>1. CASE InitiateStart(a)
    <3>1. \A q \in Reqs : PhaseOf(q)' = PhaseOf(q)
      BY <1>0, <2>1 DEF PhaseOf, InitiateStart
    <3>2. handle' = handle /\ device' = device /\ irpFile' = irpFile
      BY <1>0, <2>1 DEF handle, InitiateStart
    <3> QED
      BY <3>1, <3>2, PhaseStutter
  <2>2. CASE InitiatePending(a)
    <3>1. \A q \in Reqs : PhaseOf(q)' = PhaseOf(q)
      BY <1>0, <2>2 DEF PhaseOf, InitiatePending, NotReady, KeSetTimer
    <3>2. handle' = handle /\ device' = device /\ irpFile' = irpFile
      BY <1>0, <2>2 DEF handle, InitiatePending, NotReady, KeSetTimer
    <3> QED
      BY <3>1, <3>2, PhaseStutter
  <2>3. CASE InitiateComplete(a)
    <3>1. PICK t \in Reqs : t = currentIrp /\ t = irp[a]
      BY <1>0, <2>3 DEF InitiateComplete, NotReady, CurrentKnown,
         OneInCharge, InCharge, Contexts
    <3>2. \A b \in Contexts : io[b] # "next"
      <4>1. io[a] = "poll" /\ a \in InCharge
        BY <2>3 DEF InitiateComplete, InCharge
      <4>2. \A b \in InCharge : b = a
        BY <1>0, <4>1 DEF OneInCharge
      <4> QED
        BY <4>1, <4>2 DEF InCharge
    <3>3. completions[t] # 1
      BY <1>0, <3>1, <3>2 DEF CurrentKnown
    <3> QED
      <4>1. /\ completions[t] = 0
            /\ pc[t] \in {"release", "done"}
            /\ ~ cancelRoutine[t]
        BY <1>0, <2>3, <3>1, <3>3 DEF InitiateComplete, ReadLife,
           Mode, Unissued, Dispatched, Queued, Answering, Taken,
           Completed, Private, Uncalled
      <4>2. PhaseOf(t) = "committed" /\ PhaseOf(t)' = "completed"
        BY <1>0, <2>3, <3>1, <3>3, <4>1 DEF PhaseOf, InitiateComplete
      <4>3. \A q \in Reqs : q # t => PhaseOf(q)' = PhaseOf(q)
        BY <1>0, <2>3, <3>1, <3>3 DEF PhaseOf, InitiateComplete
      <4>4. /\ phase' = [phase EXCEPT ![t] = "completed"]
            /\ phase[t] = "committed"
        BY <4>2, <4>3, PhaseChange DEF phase
      <4>5. handle' = handle /\ device' = device /\ irpFile' = irpFile
        BY <2>3 DEF handle, InitiateComplete, NotReady
      <4> QED
        BY <4>4, <4>5 DEF Contract!Next, Contract!Complete
  <2>4. CASE InitiateNext(a)
    <3>1. PICK i \in DOMAIN queue :
             /\ cancelRoutine[queue[i]]
             /\ queueLock = NoReq
             /\ queue' = RemoveAt(queue, i)
             /\ cancelRoutine' = [cancelRoutine EXCEPT ![queue[i]] = FALSE]
      BY <2>4 DEF InitiateNext, IsNext, TakesIrp, CsqTake, LockFree
    <3>2. PICK t \in Reqs :
             /\ t \in ToSet(queue)
             /\ cancelRoutine[t]
             /\ cancelRoutine' = [cancelRoutine EXCEPT ![t] = FALSE]
      BY <1>0, <3>1, UnlinkFacts
    <3>3. completions' = completions /\ pc' = pc /\ queueLock = NoReq
      BY <2>4, <3>1 DEF InitiateNext
    <3> QED
      <4>1. /\ completions[t] = 0
            /\ pc[t] \in {"release", "done"}
            /\ cancelRoutine[t]
        BY <1>0, <3>2, <3>3 DEF ReadLife, Mode, Unissued,
           Dispatched, Queued, Answering, Taken, Completed, Private,
           Uncalled, Waiting, LockHolder
      <4>2. PhaseOf(t) = "queued" /\ PhaseOf(t)' = "committed"
        BY <1>0, <3>2, <3>3, <4>1 DEF PhaseOf
      <4>3. \A q \in Reqs : q # t => PhaseOf(q)' = PhaseOf(q)
        BY <1>0, <3>2, <3>3 DEF PhaseOf
      <4>4. phase' = [phase EXCEPT ![t] = "committed"] /\ phase[t] = "queued"
        BY <4>2, <4>3, PhaseChange DEF phase
      <4>5. handle' = handle /\ device' = device /\ irpFile' = irpFile
        BY <2>4 DEF handle, InitiateNext, CsqTake,
           LockFree
      <4> QED
        BY <4>4, <4>5, PhaseCommit
  <2>5. CASE InitiateEnd(a)
    <3>1. \A q \in Reqs : PhaseOf(q)' = PhaseOf(q)
      BY <1>0, <2>5 DEF PhaseOf, InitiateEnd, BecomesIdle, LockFree
    <3>2. handle' = handle /\ device' = device /\ irpFile' = irpFile
      BY <1>0, <2>5 DEF handle, InitiateEnd, BecomesIdle, LockFree
    <3> QED
      BY <3>1, <3>2, PhaseStutter
  <2> QED
    BY <1>3, <2>1, <2>2, <2>3, <2>4, <2>5 DEF CsampInitiateIo
<1>4. ASSUME NEW r \in Reqs, CancelStep(r)
      PROVE  [Contract!Next]_(Contract!vars)
  <2>1. CASE CallCancelRoutine(r)
    <3>1. CASE cancelRoutine[r] /\ pc[r] # "check"
      <4>1. /\ completions[r] = 0
            /\ pc[r] \in {"release", "done"}
            /\ cancelRoutine[r]
        BY <1>0, <2>1, <3>1 DEF CallCancelRoutine,
           IoCallCancelRoutine, ReadLife, Mode, Unissued, Dispatched,
           Queued, Answering, Taken, Completed, Private, Uncalled
      <4>2. PhaseOf(r) = "queued" /\ PhaseOf(r)' = "committed"
        BY <1>0, <2>1, <3>1, <4>1 DEF PhaseOf, CallCancelRoutine,
           IoCallCancelRoutine
      <4>3. \A q \in Reqs : q # r => PhaseOf(q)' = PhaseOf(q)
        BY <1>0, <2>1, <3>1 DEF PhaseOf, CallCancelRoutine,
           IoCallCancelRoutine
      <4>4. phase' = [phase EXCEPT ![r] = "committed"] /\ phase[r] = "queued"
        BY <4>2, <4>3, PhaseChange DEF phase
      <4>5. handle' = handle /\ device' = device /\ irpFile' = irpFile
        BY <2>1 DEF handle, CallCancelRoutine, IoCallCancelRoutine
      <4> QED
        BY <4>4, <4>5, PhaseCommit
    <3>2. CASE ~ (cancelRoutine[r] /\ pc[r] # "check")
      <4>1. \A q \in Reqs : PhaseOf(q)' = PhaseOf(q)
        BY <1>0, <2>1, <3>2 DEF PhaseOf, ReadLife, Mode, Unissued,
           Dispatched, Queued, Answering, Taken, Completed, Private,
           Uncalled, CallCancelRoutine, IoCallCancelRoutine
      <4>2. handle' = handle /\ device' = device /\ irpFile' = irpFile
        BY <2>1 DEF handle, CallCancelRoutine, IoCallCancelRoutine
      <4> QED
        BY <4>1, <4>2, PhaseStutter
    <3> QED
      BY <3>1, <3>2
  <2>2. CASE CancelUnlink(r)
    <3>1. \A q \in Reqs : PhaseOf(q)' = PhaseOf(q)
      BY <1>0, <2>2 DEF PhaseOf, ReadLife, Mode, Unissued, Dispatched,
         Queued, Answering, Taken, Completed, Private, Uncalled,
         CancelUnlink, CsqCancelRoutine, CsqUnlink, LockFree
    <3>2. handle' = handle /\ device' = device /\ irpFile' = irpFile
      BY <1>0, <2>2 DEF handle, CancelUnlink, CsqCancelRoutine,
         CsqUnlink, LockFree
    <3> QED
      BY <3>1, <3>2, PhaseStutter
  <2>3. CASE CancelComplete(r)
    <3>1. /\ completions[r] = 0
          /\ pc[r] \in {"release", "done"}
          /\ ~ cancelRoutine[r]
      BY <1>0, <2>3 DEF CancelComplete, CsqCompleteCanceledIrp,
         ReadLife, Mode, Unissued, Dispatched, Queued, Answering, Taken,
         Completed, Private, Uncalled
    <3>2. PhaseOf(r) = "committed" /\ PhaseOf(r)' = "completed"
      BY <1>0, <2>3, <3>1 DEF PhaseOf, CancelComplete,
         CsqCompleteCanceledIrp
    <3>3. \A q \in Reqs : q # r => PhaseOf(q)' = PhaseOf(q)
      BY <1>0, <2>3 DEF PhaseOf, CancelComplete, CsqCompleteCanceledIrp
    <3>4. phase' = [phase EXCEPT ![r] = "completed"] /\ phase[r] = "committed"
      BY <3>2, <3>3, PhaseChange DEF phase
    <3>5. handle' = handle /\ device' = device /\ irpFile' = irpFile
      BY <2>3 DEF handle, CancelComplete, CsqCompleteCanceledIrp
    <3> QED
      BY <3>4, <3>5 DEF Contract!Next, Contract!Complete
  <2> QED
    BY <1>4, <2>1, <2>2, <2>3 DEF CancelStep
<1>5. ASSUME NEW f \in Files, Cleanup(f)
      PROVE  [Contract!Next]_(Contract!vars)
  <2>1. CASE CleanupDrain(f)
    <3>1. \A q \in Reqs : PhaseOf(q)' = PhaseOf(q)
      BY <1>0, <2>1 DEF PhaseOf, CleanupDrain, RundownOver
    <3>2. handle' = handle /\ device' = device /\ irpFile' = irpFile
      BY <1>0, <2>1 DEF handle, CleanupDrain, RundownOver
    <3> QED
      BY <3>1, <3>2, PhaseStutter
  <2>2. CASE CleanupTake(f)
    <3>1. PICK i \in DOMAIN queue :
             /\ cancelRoutine[queue[i]]
             /\ queueLock = NoReq
             /\ queue' = RemoveAt(queue, i)
             /\ cancelRoutine' = [cancelRoutine EXCEPT ![queue[i]] = FALSE]
      BY <2>2 DEF CleanupTake, IsNext, TakesIrp, CsqTake, LockFree
    <3>2. PICK t \in Reqs :
             /\ t \in ToSet(queue)
             /\ cancelRoutine[t]
             /\ cancelRoutine' = [cancelRoutine EXCEPT ![t] = FALSE]
      BY <1>0, <3>1, UnlinkFacts
    <3>3. completions' = completions /\ pc' = pc /\ queueLock = NoReq
      BY <2>2, <3>1 DEF CleanupTake
    <3> QED
      <4>1. /\ completions[t] = 0
            /\ pc[t] \in {"release", "done"}
            /\ cancelRoutine[t]
        BY <1>0, <3>2, <3>3 DEF ReadLife, Mode, Unissued,
           Dispatched, Queued, Answering, Taken, Completed, Private,
           Uncalled, Waiting, LockHolder
      <4>2. PhaseOf(t) = "queued" /\ PhaseOf(t)' = "committed"
        BY <1>0, <3>2, <3>3, <4>1 DEF PhaseOf
      <4>3. \A q \in Reqs : q # t => PhaseOf(q)' = PhaseOf(q)
        BY <1>0, <3>2, <3>3 DEF PhaseOf
      <4>4. phase' = [phase EXCEPT ![t] = "committed"] /\ phase[t] = "queued"
        BY <4>2, <4>3, PhaseChange DEF phase
      <4>5. handle' = handle /\ device' = device /\ irpFile' = irpFile
        BY <2>2 DEF handle, CleanupTake, CsqTake,
           LockFree
      <4> QED
        BY <4>4, <4>5, PhaseCommit
  <2>3. CASE CleanupComplete(f)
    <3>1. PICK t \in Reqs : t = cleanupIrp[f] /\ CleanedUp(t)
      BY <1>0, <2>3 DEF CleanupComplete, CleanedUp
    <3> QED
      <4>1. /\ completions[t] = 0
            /\ pc[t] \in {"release", "done"}
            /\ ~ cancelRoutine[t]
        BY <1>0, <2>3, <3>1 DEF CleanupComplete, ReadLife, Mode,
           Unissued, Dispatched, Queued, Answering, Taken, Completed,
           Private, Uncalled
      <4>2. PhaseOf(t) = "committed" /\ PhaseOf(t)' = "completed"
        BY <1>0, <2>3, <3>1, <4>1 DEF PhaseOf, CleanupComplete
      <4>3. \A q \in Reqs : q # t => PhaseOf(q)' = PhaseOf(q)
        BY <1>0, <2>3, <3>1 DEF PhaseOf, CleanupComplete
      <4>4. /\ phase' = [phase EXCEPT ![t] = "completed"]
            /\ phase[t] = "committed"
        BY <4>2, <4>3, PhaseChange DEF phase
      <4>5. handle' = handle /\ device' = device /\ irpFile' = irpFile
        BY <2>3 DEF handle, CleanupComplete
      <4> QED
        BY <4>4, <4>5 DEF Contract!Next, Contract!Complete
  <2>4. CASE CleanupEnd(f)
    <3>1. phase' = phase /\ irpFile' = irpFile /\ device' = device
      BY <2>4 DEF phase, PhaseOf, CleanupEnd, LockFree
    <3>2. handle[f] = "cleanup" /\ handle' = [handle EXCEPT ![f] = "cleaned"]
      BY <1>0, <2>4 DEF handle, CleanupEnd, LockFree
    <3>3. \A r \in Reqs : irpFile[r] = f /\ r \in ToSet(queue) =>
            ~ cancelRoutine[r]
      BY <1>0, <2>4 DEF CleanupNone, NoneLeft, CleanupScope, OfFile,
         TakesIrp, ToSet, CleanupEnd
    <3>4. \A r \in Reqs : irpFile[r] = f => phase[r] # "queued"
      BY <1>0, <3>3 DEF phase, PhaseOf, Waiting, ReadLife, Mode,
         Unissued, Dispatched, Queued, Answering, Taken, Completed,
         Private, Uncalled
    <3> QED
      BY <3>1, <3>2, <3>4 DEF Contract!Next, Contract!EndCleanup
  <2> QED
    BY <1>5, <2>1, <2>2, <2>3, <2>4 DEF Cleanup
<1>6. ASSUME NEW r \in Reqs, Cancel(r)
      PROVE  [Contract!Next]_(Contract!vars)
  <2>1. \A q \in Reqs : PhaseOf(q)' = PhaseOf(q)
    BY <1>0, <1>6 DEF PhaseOf, Cancel, IoCancelIrp, Outstanding
  <2>2. handle' = handle /\ device' = device /\ irpFile' = irpFile
    BY <1>0, <1>6 DEF handle, Cancel, IoCancelIrp, Outstanding
  <2> QED
    BY <2>1, <2>2, PhaseStutter
<1>7. ASSUME NEW f \in Files, Create(f)
      PROVE  [Contract!Next]_(Contract!vars)
  <2>1. phase' = phase /\ irpFile' = irpFile /\ device' = device
    BY <1>7 DEF phase, PhaseOf, Create, IoCreateFile
  <2>2. handle[f] = "none" /\ handle' = [handle EXCEPT ![f] = "open"]
    BY <1>0, <1>7 DEF handle, Create, IoCreateFile
  <2>3. device = "live"
    BY <1>7 DEF Create, IoCreateFile
  <2> QED
    BY <2>1, <2>2, <2>3 DEF Contract!Next, Contract!Open
<1>8. ASSUME NEW f \in Files, CleanupStart(f)
      PROVE  [Contract!Next]_(Contract!vars)
  <2>1. phase' = phase /\ irpFile' = irpFile /\ device' = device
    BY <1>8 DEF phase, PhaseOf, CleanupStart, IoCloseHandle
  <2>2. handle[f] = "open" /\ handle' = [handle EXCEPT ![f] = "cleanup"]
    BY <1>0, <1>8 DEF handle, CleanupStart, IoCloseHandle
  <2> QED
    BY <2>1, <2>2 DEF Contract!Next, Contract!BeginCleanup
<1>9. ASSUME NEW f \in Files, Close(f)
      PROVE  [Contract!Next]_(Contract!vars)
  <2>1. phase' = phase /\ irpFile' = irpFile /\ device' = device
    BY <1>9 DEF phase, PhaseOf, Close, IoCloseFile
  <2>2. handle[f] = "cleaned" /\ handle' = [handle EXCEPT ![f] = "closed"]
    BY <1>0, <1>9 DEF handle, Close, IoCloseFile
  <2>3. \A r \in Reqs : irpFile[r] = f => phase[r] = "completed"
    BY <1>0, <1>9 DEF phase, PhaseOf, CompletedOnce, Close, IoCloseFile
  <2> QED
    BY <2>1, <2>2, <2>3 DEF Contract!Next, Contract!Close
<1>10. CASE TimerExpire
  <2>1. \A q \in Reqs : PhaseOf(q)' = PhaseOf(q)
    BY <1>0, <1>10 DEF PhaseOf, TimerExpire
  <2>2. handle' = handle /\ device' = device /\ irpFile' = irpFile
    BY <1>0, <1>10 DEF handle, TimerExpire
  <2> QED
    BY <2>1, <2>2, PhaseStutter
<1>11. CASE DpcStart
  <2>1. \A q \in Reqs : PhaseOf(q)' = PhaseOf(q)
    BY <1>0, <1>11 DEF PhaseOf, DpcStart
  <2>2. handle' = handle /\ device' = device /\ irpFile' = irpFile
    BY <1>0, <1>11 DEF handle, DpcStart
  <2> QED
    BY <2>1, <2>2, PhaseStutter
<1>12. CASE Unload
  <2>1. phase' = phase /\ irpFile' = irpFile /\ handle' = handle
    BY <1>12 DEF phase, PhaseOf, handle, Unload, NoOpenFiles
  <2>2. \A f \in Files : handle[f] \in {"none", "closed"}
    BY <1>12 DEF handle, Unload, NoOpenFiles
  <2> QED
    BY <1>12, <2>1, <2>2 DEF Unload, Contract!Next, Contract!Unload
<1>13. CASE UNCHANGED vars
  BY <1>13 DEF phase, PhaseOf, handle
<1> QED
  BY <1>1, <1>2, <1>3, <1>4, <1>5, <1>6, <1>7, <1>8, <1>9, <1>10, <1>11,
     <1>12, <1>13 DEF Next, Work, Terminated

\* The driver keeps the contract of a driver that queues requests: one
\* completion for each, and none left idle in the queue by cleanup.
THEOREM ContractKept == Spec => KeepsContract
<1>1. Init => Contract!Init
  BY DEF Init, IoInit, Contract!Init, handle, phase, PhaseOf
<1>2. IInv /\ [Next]_vars => [Contract!Next]_(Contract!vars)
  BY ContractStep
<1> QED
  BY <1>1, <1>2, InductiveInvariant, PTL DEF Spec, KeepsContract, Contract!Spec
==============================================================================
