--------------------------- MODULE CancelSafeProofs --------------------------
(***************************************************************************)
(* Proofs about CancelSafe, for any set of handles and any finite set of   *)
(* IRPs.                                                                   *)
(***************************************************************************)
EXTENDS CancelSafe, IoCsqProofs, FiniteSetTheorems

USE IoAssumption, CsqAssumption, CancelSafeAssumption

LEMMA TypeStep == TypeOK /\ [Next]_vars => TypeOK'
<1> SUFFICES ASSUME TypeOK, [Next]_vars
             PROVE  TypeOK'
  OBVIOUS
<1> USE DEF TypeOK, IoTypeOK, CsqTypeOK, vars, ioVars, irpVars, cancelVars,
            csqVars, threadVars, SetPC, SetCancelRoutine, IoCompleteRequest,
            PCs, ThreadStates, FileStates, CancellerStates, Statuses
<1>1. ASSUME NEW r \in Reqs, NEW f \in Files, Issue(r, f)
      PROVE  TypeOK'
  BY <1>1 DEF Issue, IssueIrp
<1>2. ASSUME NEW r \in Reqs, Read(r)
      PROVE  TypeOK'
  <2>1. CASE ReadEnter(r)
    <3>1. data' \in [Reqs -> 0 .. MaxData]
      BY <2>1 DEF ReadEnter
    <3>2. rundown' \in [Files -> SUBSET Reqs]
      BY <2>1 DEF ReadEnter, IoAcquireRemoveLock
    <3> QED
      BY <2>1, <3>1, <3>2 DEF ReadEnter
  <2>2. CASE ReadRefused(r)
    BY <2>2 DEF ReadRefused
  <2>3. CASE ReadTooSmall(r)
    BY <2>3 DEF ReadTooSmall
  <2>4. CASE ReadTooSmallComplete(r)
    BY <2>4 DEF ReadTooSmallComplete
  <2>5. CASE ReadInsert(r)
    BY <2>5 DEF ReadInsert, LockFree
  <2>6. CASE ReadInsertCancelled(r)
    <3>1. \E i \in DOMAIN queue : queue' = RemoveAt(queue, i)
      BY <2>6 DEF ReadInsertCancelled, InsertCancelled, CsqUnlink
    <3>2. queue' \in Seq(Reqs)
      BY <3>1, RemoveAtFacts
    <3> QED
      BY <2>6, <3>2 DEF ReadInsertCancelled, InsertCancelled, CsqUnlink
  <2>7. CASE ReadInserted(r)
    BY <2>7 DEF ReadInserted, InsertCancelled
  <2>8. CASE ReadCompleteCancelled(r)
    BY <2>8 DEF ReadCompleteCancelled
  <2>9. CASE ReadSignal(r)
    BY <2>9 DEF ReadSignal, Signal
  <2>10. CASE ReadRelease(r)
    BY <2>10 DEF ReadRelease, IoReleaseRemoveLock
  <2> QED
    BY <1>2, <2>1, <2>2, <2>3, <2>4, <2>5, <2>6, <2>7, <2>8, <2>9, <2>10
       DEF Read
<1>3. CASE CsampPollingThread
  <2>1. CASE ThreadWake
    BY <2>1 DEF ThreadWake
  <2>2. CASE ThreadCheckStop
    BY <2>2 DEF ThreadCheckStop
  <2>3. CASE ThreadTake
    <3>1. \E i \in DOMAIN queue : queue' = RemoveAt(queue, i)
      BY <2>3 DEF ThreadTake, IsNext, TakesIrp, CsqTake, LockFree
    <3>2. queue' \in Seq(Reqs)
      BY <3>1, RemoveAtFacts
    <3>3. \A i \in DOMAIN queue : queue[i] \in Reqs
      OBVIOUS
    <3>4. current' \in Reqs
      BY <2>3, <3>3 DEF ThreadTake
    <3>5. cancelRoutine' \in [Reqs -> BOOLEAN]
      BY <2>3, <3>3 DEF ThreadTake, CsqTake
    <3> QED
      BY <2>3, <3>2, <3>4, <3>5 DEF ThreadTake, CsqTake
  <2>4. CASE ThreadFindsNone
    BY <2>4 DEF ThreadFindsNone, LockFree
  <2>5. CASE ThreadPoll
    <3>1. data' = [q \in Reqs |-> IF q = current THEN data[q] - 1 ELSE data[q]]
      BY <2>5 DEF ThreadPoll
    <3>2. \A q \in Reqs : q = current => data[q] > 0
      BY <2>5 DEF ThreadPoll, NotReady
    <3>3. data' \in [Reqs -> 0 .. MaxData]
      BY <3>1, <3>2
    <3> QED
      BY <2>5, <3>3 DEF ThreadPoll
  <2>6. CASE ThreadComplete
    <3>1. completions' = [q \in Reqs |-> IF q = current THEN completions[q] + 1
                                                     ELSE completions[q]]
      BY <2>6 DEF ThreadComplete
    <3>2. completions' \in [Reqs -> Nat]
      BY <3>1
    <3>3. ioStatus' \in [Reqs -> Statuses]
      BY <2>6 DEF ThreadComplete
    <3> QED
      BY <2>6, <3>2, <3>3 DEF ThreadComplete
  <2> QED
    BY <1>3, <2>1, <2>2, <2>3, <2>4, <2>5, <2>6 DEF CsampPollingThread
<1>4. ASSUME NEW r \in Reqs, CancelStep(r)
      PROVE  TypeOK'
  <2>1. CASE CallCancelRoutine(r)
    BY <2>1 DEF CallCancelRoutine, IoCallCancelRoutine
  <2>2. CASE CancelUnlink(r)
    <3>1. \E i \in DOMAIN queue : queue' = RemoveAt(queue, i)
      BY <2>2 DEF CancelUnlink, CsqCancelRoutine, CsqUnlink, LockFree
    <3>2. queue' \in Seq(Reqs)
      BY <3>1, RemoveAtFacts
    <3> QED
      BY <2>2, <3>2 DEF CancelUnlink, CsqCancelRoutine, CsqUnlink,
         LockFree
  <2>3. CASE CancelComplete(r)
    BY <2>3 DEF CancelComplete, CsqCompleteCanceledIrp
  <2> QED
    BY <1>4, <2>1, <2>2, <2>3 DEF CancelStep
<1>5. ASSUME NEW f \in Files, Cleanup(f)
      PROVE  TypeOK'
  <2>1. CASE CleanupDrain(f)
    BY <2>1 DEF CleanupDrain, RundownOver
  <2>2. CASE CleanupTake(f)
    <3>1. \E i \in DOMAIN queue : queue' = RemoveAt(queue, i)
      BY <2>2 DEF CleanupTake, IsNext, TakesIrp, CsqTake, LockFree
    <3>2. queue' \in Seq(Reqs)
      BY <3>1, RemoveAtFacts
    <3>3. \A i \in DOMAIN queue : queue[i] \in Reqs
      OBVIOUS
    <3> QED
      BY <2>2, <3>2, <3>3 DEF CleanupTake, IsNext, TakesIrp, CsqTake,
         LockFree
  <2>3. CASE CleanupComplete(f)
    BY <2>3 DEF CleanupComplete
  <2>4. CASE CleanupEnd(f)
    BY <2>4 DEF CleanupEnd, LockFree
  <2> QED
    BY <1>5, <2>1, <2>2, <2>3, <2>4 DEF Cleanup
<1>6. ASSUME NEW r \in Reqs, Cancel(r)
      PROVE  TypeOK'
  BY <1>6 DEF Cancel, IoCancelIrp, Outstanding
<1>7. ASSUME NEW f \in Files, Create(f)
      PROVE  TypeOK'
  BY <1>7 DEF Create, IoCreateFile
<1>8. ASSUME NEW f \in Files, CleanupStart(f)
      PROVE  TypeOK'
  BY <1>8 DEF CleanupStart, IoCloseHandle
<1>9. ASSUME NEW f \in Files, Close(f)
      PROVE  TypeOK'
  BY <1>9 DEF Close, IoCloseFile
<1>10. CASE UnloadStop
  BY <1>10 DEF UnloadStop, NoOpenFiles, Signal
<1>11. CASE UnloadDelete
  BY <1>11 DEF UnloadDelete, ThreadJoined
<1>12. CASE UNCHANGED vars
  BY <1>12
<1> QED
  BY <1>1, <1>2, <1>3, <1>4, <1>5, <1>6, <1>7, <1>8, <1>9, <1>10, <1>11,
     <1>12 DEF Next, Terminated

LEMMA InitType == Init => TypeOK
<1> SUFFICES ASSUME Init
             PROVE  TypeOK
  OBVIOUS
<1>1. IoTypeOK
  BY DEF Init, IoInit, IoTypeOK, FileStates, CancellerStates, Statuses
<1>2. CsqTypeOK
  BY DEF Init, CsqInit, CsqTypeOK
<1>3. stop \in BOOLEAN
  BY Zenon DEF Init
<1> QED
  BY <1>1, <1>2, <1>3 DEF Init, TypeOK, PCs, ThreadStates

\* Every variable keeps its type: in particular INPUT_DATA.Data, an unsigned
\* number, is never counted down below zero by CsampPollDevice.
THEOREM TypeCorrect == Spec => []TypeOK
BY InitType, TypeStep, PTL DEF Spec

(***************************************************************************)
(* The modes of one read.                                                  *)
(***************************************************************************)

\* What the mode of a read depends on, besides the queue, the polling thread
\* and cleanup
Local(q) ==
  <<pc[q], irpFile[q], completions[q], cancelRoutine[q], canceller[q]>>

\* An activity on one read leaves the others in their modes.
LEMMA ModeFrame ==
  ASSUME NEW q \in Reqs, Mode(q), Local(q)' = Local(q),
         Waiting(q)' <=> Waiting(q), CleanedUp(q)' <=> CleanedUp(q),
         current' = q <=> current = q
  PROVE  Mode(q)'
BY DEF Local, Mode, Unissued, Dispatched, Queued, Answering, Taken,
   Completed, Private, Uncalled

\* Every activity takes the read it works on from one mode to another.
LEMMA ModeStep ==
  ASSUME TypeOK, NoDuplicates, ReadLife, LockHolder, CleanupsApart, ThreadPolls,
         [Next]_vars,
         NEW q \in Reqs
  PROVE  Mode(q)'
<1> USE DEF TypeOK, IoTypeOK, CsqTypeOK, vars, ioVars, irpVars, cancelVars,
            csqVars, threadVars, SetPC, SetCancelRoutine, IoCompleteRequest,
            Waiting, CleanedUp
<1>0. Mode(q)
  BY DEF ReadLife
<1>1. ASSUME NEW r \in Reqs, NEW f \in Files, Issue(r, f)
      PROVE  Mode(q)'
  <2>1. CASE q # r
    BY <1>0, <1>1, <2>1, ModeFrame DEF Local, Issue, IssueIrp
  <2>2. CASE q = r
    BY <1>0, <1>1, <2>2 DEF Issue, IssueIrp, Mode, Unissued, Dispatched,
       Queued, Answering, Taken, Completed, Private, Uncalled
  <2> QED
    BY <2>1, <2>2
<1>2. ASSUME NEW r \in Reqs, Read(r)
      PROVE  Mode(q)'
  <2>1. CASE ReadEnter(r)
    <3>1. CASE q # r
      BY <1>0, <2>1, <3>1, ModeFrame DEF Local, ReadEnter,
         IoAcquireRemoveLock
    <3>2. CASE q = r
      BY <1>0, <2>1, <3>2 DEF ReadEnter, IoAcquireRemoveLock, Mode,
         Unissued, Dispatched, Queued, Answering, Taken, Completed,
         Private, Uncalled
    <3> QED
      BY <3>1, <3>2
  <2>2. CASE ReadRefused(r)
    <3>1. CASE q # r
      BY <1>0, <2>2, <3>1, ModeFrame DEF Local, ReadRefused
    <3>2. CASE q = r
      BY <1>0, <2>2, <3>2 DEF ReadRefused, Mode, Unissued, Dispatched,
         Queued, Answering, Taken, Completed, Private, Uncalled
    <3> QED
      BY <3>1, <3>2
  <2>3. CASE ReadTooSmall(r)
    <3>1. CASE q # r
      BY <1>0, <2>3, <3>1, ModeFrame DEF Local, ReadTooSmall
    <3>2. CASE q = r
      BY <1>0, <2>3, <3>2 DEF ReadTooSmall, Mode, Unissued, Dispatched,
         Queued, Answering, Taken, Completed, Private, Uncalled
    <3> QED
      BY <3>1, <3>2
  <2>4. CASE ReadTooSmallComplete(r)
    <3>1. CASE q # r
      BY <1>0, <2>4, <3>1, ModeFrame DEF Local, ReadTooSmallComplete
    <3>2. CASE q = r
      BY <1>0, <2>4, <3>2 DEF ReadTooSmallComplete, Mode, Unissued,
         Dispatched, Queued, Answering, Taken, Completed, Private,
         Uncalled
    <3> QED
      BY <3>1, <3>2
  <2>5. CASE ReadInsert(r)
    <3>1. ToSet(queue') = ToSet(queue) \cup {r}
      BY <2>5, InsertFacts DEF ReadInsert, LockFree
    <3>2. CASE q # r
      BY <1>0, <2>5, <3>1, <3>2, ModeFrame DEF Local, ReadInsert,
         LockFree
    <3>3. CASE q = r
      BY <1>0, <2>5, <3>1, <3>3 DEF ReadInsert, LockFree, Mode,
         Unissued, Dispatched, Queued, Answering, Taken, Completed,
         Private, Uncalled
    <3> QED
      BY <3>2, <3>3
  <2>6. CASE ReadInsertCancelled(r)
    <3>1. ToSet(queue') = ToSet(queue) \ {r}
      BY <2>6, UnlinkFacts DEF ReadInsertCancelled, InsertCancelled,
         CsqUnlink
    <3>2. CASE q # r
      BY <1>0, <2>6, <3>1, <3>2, ModeFrame DEF Local,
         ReadInsertCancelled, InsertCancelled
    <3>3. CASE q = r
      BY <1>0, <2>6, <3>1, <3>3 DEF ReadInsertCancelled,
         InsertCancelled, Mode, Unissued, Dispatched, Queued, Answering,
         Taken, Completed, Private, Uncalled
    <3> QED
      BY <3>2, <3>3
  <2>7. CASE ReadInserted(r)
    <3>1. CASE q # r
      BY <1>0, <2>7, <3>1, ModeFrame DEF Local, ReadInserted,
         InsertCancelled
    <3>2. CASE q = r
      BY <1>0, <2>7, <3>2 DEF ReadInserted, InsertCancelled, Mode,
         Unissued, Dispatched, Queued, Answering, Taken, Completed,
         Private, Uncalled
    <3> QED
      BY <3>1, <3>2
  <2>8. CASE ReadCompleteCancelled(r)
    <3>1. CASE q # r
      BY <1>0, <2>8, <3>1, ModeFrame DEF Local, ReadCompleteCancelled
    <3>2. CASE q = r
      BY <1>0, <2>8, <3>2 DEF ReadCompleteCancelled, Mode, Unissued,
         Dispatched, Queued, Answering, Taken, Completed, Private,
         Uncalled
    <3> QED
      BY <3>1, <3>2
  <2>9. CASE ReadSignal(r)
    <3>1. CASE q # r
      BY <1>0, <2>9, <3>1, ModeFrame DEF Local, ReadSignal, Signal
    <3>2. CASE q = r
      BY <1>0, <2>9, <3>2 DEF ReadSignal, Signal, Mode, Unissued,
         Dispatched, Queued, Answering, Taken, Completed, Private,
         Uncalled
    <3> QED
      BY <3>1, <3>2
  <2>10. CASE ReadRelease(r)
    <3>1. CASE q # r
      BY <1>0, <2>10, <3>1, ModeFrame DEF Local, ReadRelease,
         IoReleaseRemoveLock
    <3>2. CASE q = r
      BY <1>0, <2>10, <3>2 DEF ReadRelease, IoReleaseRemoveLock, Mode,
         Unissued, Dispatched, Queued, Answering, Taken, Completed,
         Private, Uncalled
    <3> QED
      BY <3>1, <3>2
  <2> QED
    BY <1>2, <2>1, <2>2, <2>3, <2>4, <2>5, <2>6, <2>7, <2>8, <2>9, <2>10
       DEF Read
<1>3. CASE CsampPollingThread
  <2>1. CASE ThreadWake
    BY <1>0, <2>1, ModeFrame DEF Local, ThreadWake
  <2>2. CASE ThreadCheckStop
    BY <1>0, <2>2, ModeFrame DEF Local, ThreadCheckStop
  <2>3. CASE ThreadTake
    <3>1. PICK i \in DOMAIN queue :
             /\ cancelRoutine[queue[i]]
             /\ queue' = RemoveAt(queue, i)
             /\ cancelRoutine' = [cancelRoutine EXCEPT ![queue[i]] = FALSE]
             /\ current' = queue[i]
      BY <2>3 DEF ThreadTake, IsNext, TakesIrp, CsqTake, LockFree
    <3>2. /\ queue[i] \in Reqs /\ queue[i] \in ToSet(queue)
          /\ ToSet(queue') = ToSet(queue) \ {queue[i]}
      BY <3>1, UnlinkFacts
    <3>3. Mode(queue[i])
      BY <3>2 DEF ReadLife
    <3>4. CASE q # queue[i]
      BY <1>0, <2>3, <3>1, <3>2, <3>4, ModeFrame DEF Local, ThreadTake,
         ThreadPolls
    <3>5. CASE q = queue[i]
      BY <1>0, <2>3, <3>1, <3>2, <3>5 DEF ThreadTake, LockHolder,
         ThreadPolls, CsqTake, LockFree, Mode, Unissued, Dispatched,
         Queued, Answering, Taken, Completed, Private, Uncalled
    <3> QED
      BY <3>4, <3>5
  <2>4. CASE ThreadFindsNone
    BY <1>0, <2>4, ModeFrame DEF Local, ThreadFindsNone, LockFree
  <2>5. CASE ThreadPoll
    BY <1>0, <2>5, ModeFrame DEF Local, ThreadPoll, NotReady
  <2>6. CASE ThreadComplete
    <3>1. CASE q # current
      BY <1>0, <2>6, <3>1, ModeFrame DEF Local, ThreadComplete,
         ThreadPolls, NotReady
    <3>2. CASE q = current
      BY <1>0, <2>6, <3>2 DEF ThreadComplete, NotReady, ThreadPolls,
         Mode, Unissued, Dispatched, Queued, Answering, Taken,
         Completed, Private, Uncalled
    <3> QED
      BY <3>1, <3>2
  <2> QED
    BY <1>3, <2>1, <2>2, <2>3, <2>4, <2>5, <2>6 DEF CsampPollingThread
<1>4. ASSUME NEW r \in Reqs, CancelStep(r)
      PROVE  Mode(q)'
  <2>1. CASE CallCancelRoutine(r)
    <3>1. CASE q # r
      BY <1>0, <2>1, <3>1, ModeFrame DEF Local, CallCancelRoutine,
         IoCallCancelRoutine
    <3>2. CASE q = r
      BY <1>0, <2>1, <3>2 DEF CallCancelRoutine, IoCallCancelRoutine,
         Mode, Unissued, Dispatched, Queued, Answering, Taken,
         Completed, Private, Uncalled
    <3> QED
      BY <3>1, <3>2
  <2>2. CASE CancelUnlink(r)
    <3>1. ToSet(queue') = ToSet(queue) \ {r}
      BY <2>2, UnlinkFacts DEF CancelUnlink, CsqCancelRoutine,
         CsqUnlink, LockFree
    <3>2. CASE q # r
      BY <1>0, <2>2, <3>1, <3>2, ModeFrame DEF Local, CancelUnlink,
         CsqCancelRoutine, LockFree
    <3>3. CASE q = r
      BY <1>0, <2>2, <3>1, <3>3 DEF CancelUnlink, CsqCancelRoutine,
         LockFree, Mode, Unissued, Dispatched, Queued, Answering, Taken,
         Completed, Private, Uncalled, LockHolder
    <3> QED
      BY <3>2, <3>3
  <2>3. CASE CancelComplete(r)
    <3>1. CASE q # r
      BY <1>0, <2>3, <3>1, ModeFrame DEF Local, CancelComplete,
         CsqCompleteCanceledIrp
    <3>2. CASE q = r
      BY <1>0, <2>3, <3>2 DEF CancelComplete, CsqCompleteCanceledIrp,
         Mode, Unissued, Dispatched, Queued, Answering, Taken,
         Completed, Private, Uncalled
    <3> QED
      BY <3>1, <3>2
  <2> QED
    BY <1>4, <2>1, <2>2, <2>3 DEF CancelStep
<1>5. ASSUME NEW f \in Files, Cleanup(f)
      PROVE  Mode(q)'
  <2>1. CASE CleanupDrain(f)
    BY <1>0, <2>1, ModeFrame DEF Local, CleanupDrain, RundownOver
  <2>2. CASE CleanupTake(f)
    <3>1. PICK i \in DOMAIN queue :
             /\ cancelRoutine[queue[i]]
             /\ queue' = RemoveAt(queue, i)
             /\ cancelRoutine' = [cancelRoutine EXCEPT ![queue[i]] = FALSE]
             /\ cleanupIrp' = [cleanupIrp EXCEPT ![f] = queue[i]]
      BY <2>2 DEF CleanupTake, IsNext, TakesIrp, CsqTake, LockFree
    <3>2. /\ queue[i] \in Reqs /\ queue[i] \in ToSet(queue)
          /\ ToSet(queue') = ToSet(queue) \ {queue[i]}
      BY <3>1, UnlinkFacts
    <3>3. Mode(queue[i])
      BY <3>2 DEF ReadLife
    <3>4. CASE q # queue[i]
      BY <1>0, <2>2, <3>1, <3>2, <3>4, ModeFrame DEF Local, CleanupTake
    <3>5. CASE q = queue[i]
      BY <1>0, <2>2, <3>1, <3>2, <3>5 DEF CleanupTake, LockHolder,
         CsqTake, LockFree, Mode, Unissued, Dispatched, Queued,
         Answering, Taken, Completed, Private, Uncalled
    <3> QED
      BY <3>4, <3>5
  <2>3. CASE CleanupComplete(f)
    <3>1. CASE q # cleanupIrp[f]
      BY <1>0, <2>3, <3>1, ModeFrame DEF Local, CleanupComplete
    <3>2. CASE q = cleanupIrp[f]
      BY <1>0, <2>3, <3>2 DEF CleanupComplete, CleanupsApart, Mode,
         Unissued, Dispatched, Queued, Answering, Taken, Completed,
         Private, Uncalled
    <3> QED
      BY <3>1, <3>2
  <2>4. CASE CleanupEnd(f)
    BY <1>0, <2>4, ModeFrame DEF Local, CleanupEnd, LockFree
  <2> QED
    BY <1>5, <2>1, <2>2, <2>3, <2>4 DEF Cleanup
<1>6. ASSUME NEW r \in Reqs, Cancel(r)
      PROVE  Mode(q)'
  <2>1. CASE q # r
    BY <1>0, <1>6, <2>1, ModeFrame DEF Local, Cancel, IoCancelIrp,
       Outstanding
  <2>2. CASE q = r
    BY <1>0, <1>6, <2>2 DEF Cancel, IoCancelIrp, Outstanding, Mode,
       Unissued, Dispatched, Queued, Answering, Taken, Completed, Private,
       Uncalled
  <2> QED
    BY <2>1, <2>2
<1>7. ASSUME NEW f \in Files, Create(f)
      PROVE  Mode(q)'
  BY <1>0, <1>7, ModeFrame DEF Local, Create, IoCreateFile
<1>8. ASSUME NEW f \in Files, CleanupStart(f)
      PROVE  Mode(q)'
  BY <1>0, <1>8, ModeFrame DEF Local, CleanupStart, IoCloseHandle
<1>9. ASSUME NEW f \in Files, Close(f)
      PROVE  Mode(q)'
  BY <1>0, <1>9, ModeFrame DEF Local, Close, IoCloseFile
<1>10. CASE UnloadStop
  BY <1>0, <1>10, ModeFrame DEF Local, UnloadStop, NoOpenFiles, Signal
<1>11. CASE UnloadDelete
  BY <1>0, <1>11, ModeFrame DEF Local, UnloadDelete, ThreadJoined
<1>12. CASE UNCHANGED vars
  BY <1>0, <1>12, ModeFrame DEF Local
<1> QED
  BY <1>1, <1>2, <1>3, <1>4, <1>5, <1>6, <1>7, <1>8, <1>9, <1>10, <1>11,
     <1>12 DEF Next, Terminated

(***************************************************************************)
(* The other parts of the invariant.                                       *)
(***************************************************************************)

\* No IRP is linked twice.
LEMMA QueueStep ==
  ASSUME TypeOK, NoDuplicates, ReadLife, [Next]_vars
  PROVE  NoDuplicates'
<1> USE DEF TypeOK, IoTypeOK, CsqTypeOK, vars, ioVars, irpVars, cancelVars,
            csqVars, threadVars, SetPC, SetCancelRoutine, IoCompleteRequest
<1>1. ASSUME NEW r \in Reqs, NEW f \in Files, Issue(r, f)
      PROVE  NoDuplicates'
  BY <1>1 DEF NoDuplicates, Issue, IssueIrp
<1>2. ASSUME NEW r \in Reqs, Read(r)
      PROVE  NoDuplicates'
  <2>1. CASE ReadEnter(r)
    BY <2>1 DEF NoDuplicates, ReadEnter, IoAcquireRemoveLock
  <2>2. CASE ReadRefused(r)
    BY <2>2 DEF NoDuplicates, ReadRefused
  <2>3. CASE ReadTooSmall(r)
    BY <2>3 DEF NoDuplicates, ReadTooSmall
  <2>4. CASE ReadTooSmallComplete(r)
    BY <2>4 DEF NoDuplicates, ReadTooSmallComplete
  <2>5. CASE ReadInsert(r)
    <3>1. r \notin ToSet(queue)
      BY <2>5 DEF ReadInsert, ReadLife, Waiting, Mode, Unissued,
         Dispatched, Queued, Answering, Taken, Completed, Private,
         Uncalled
    <3> QED
      BY <2>5, <3>1, InsertFacts DEF ReadInsert
  <2>6. CASE ReadInsertCancelled(r)
    BY <2>6, UnlinkFacts DEF ReadInsertCancelled, InsertCancelled,
       CsqUnlink
  <2>7. CASE ReadInserted(r)
    BY <2>7 DEF NoDuplicates, ReadInserted, InsertCancelled
  <2>8. CASE ReadCompleteCancelled(r)
    BY <2>8 DEF NoDuplicates, ReadCompleteCancelled
  <2>9. CASE ReadSignal(r)
    BY <2>9 DEF NoDuplicates, ReadSignal, Signal
  <2>10. CASE ReadRelease(r)
    BY <2>10 DEF NoDuplicates, ReadRelease, IoReleaseRemoveLock
  <2> QED
    BY <1>2, <2>1, <2>2, <2>3, <2>4, <2>5, <2>6, <2>7, <2>8, <2>9, <2>10
       DEF Read
<1>3. CASE CsampPollingThread
  <2>1. CASE ThreadWake
    BY <2>1 DEF NoDuplicates, ThreadWake
  <2>2. CASE ThreadCheckStop
    BY <2>2 DEF NoDuplicates, ThreadCheckStop
  <2>3. CASE ThreadTake
    BY <2>3, UnlinkFacts DEF ThreadTake, IsNext, TakesIrp, CsqTake,
       LockFree
  <2>4. CASE ThreadFindsNone
    BY <2>4 DEF NoDuplicates, ThreadFindsNone, LockFree
  <2>5. CASE ThreadPoll
    BY <2>5 DEF NoDuplicates, ThreadPoll, NotReady
  <2>6. CASE ThreadComplete
    BY <2>6 DEF NoDuplicates, ThreadComplete, NotReady
  <2> QED
    BY <1>3, <2>1, <2>2, <2>3, <2>4, <2>5, <2>6 DEF CsampPollingThread
<1>4. ASSUME NEW r \in Reqs, CancelStep(r)
      PROVE  NoDuplicates'
  <2>1. CASE CallCancelRoutine(r)
    BY <2>1 DEF NoDuplicates, CallCancelRoutine, IoCallCancelRoutine
  <2>2. CASE CancelUnlink(r)
    BY <2>2, UnlinkFacts DEF CancelUnlink, CsqCancelRoutine, CsqUnlink,
       LockFree
  <2>3. CASE CancelComplete(r)
    BY <2>3 DEF NoDuplicates, CancelComplete, CsqCompleteCanceledIrp
  <2> QED
    BY <1>4, <2>1, <2>2, <2>3 DEF CancelStep
<1>5. ASSUME NEW f \in Files, Cleanup(f)
      PROVE  NoDuplicates'
  <2>1. CASE CleanupDrain(f)
    BY <2>1 DEF NoDuplicates, CleanupDrain, RundownOver
  <2>2. CASE CleanupTake(f)
    BY <2>2, UnlinkFacts DEF CleanupTake, IsNext, TakesIrp, CsqTake,
       LockFree
  <2>3. CASE CleanupComplete(f)
    BY <2>3 DEF NoDuplicates, CleanupComplete
  <2>4. CASE CleanupEnd(f)
    BY <2>4 DEF NoDuplicates, CleanupEnd, LockFree
  <2> QED
    BY <1>5, <2>1, <2>2, <2>3, <2>4 DEF Cleanup
<1>6. ASSUME NEW r \in Reqs, Cancel(r)
      PROVE  NoDuplicates'
  BY <1>6 DEF NoDuplicates, Cancel, IoCancelIrp, Outstanding
<1>7. ASSUME NEW f \in Files, Create(f)
      PROVE  NoDuplicates'
  BY <1>7 DEF NoDuplicates, Create, IoCreateFile
<1>8. ASSUME NEW f \in Files, CleanupStart(f)
      PROVE  NoDuplicates'
  BY <1>8 DEF NoDuplicates, CleanupStart, IoCloseHandle
<1>9. ASSUME NEW f \in Files, Close(f)
      PROVE  NoDuplicates'
  BY <1>9 DEF NoDuplicates, Close, IoCloseFile
<1>10. CASE UnloadStop
  BY <1>10 DEF NoDuplicates, UnloadStop, NoOpenFiles, Signal
<1>11. CASE UnloadDelete
  BY <1>11 DEF NoDuplicates, UnloadDelete, ThreadJoined
<1>12. CASE UNCHANGED vars
  BY <1>12 DEF NoDuplicates
<1> QED
  BY <1>1, <1>2, <1>3, <1>4, <1>5, <1>6, <1>7, <1>8, <1>9, <1>10, <1>11,
     <1>12 DEF Next, Terminated

\* QueueLock has one holder at a time.
LEMMA LockStep ==
  ASSUME TypeOK, LockHolder, [Next]_vars
  PROVE  LockHolder'
<1> USE DEF TypeOK, IoTypeOK, CsqTypeOK, vars, ioVars, irpVars, cancelVars,
            csqVars, threadVars, SetPC, SetCancelRoutine, IoCompleteRequest,
            LockHolder
<1>1. ASSUME NEW r \in Reqs, NEW f \in Files, Issue(r, f)
      PROVE  LockHolder'
  BY <1>1 DEF Issue, IssueIrp
<1>2. ASSUME NEW r \in Reqs, Read(r)
      PROVE  LockHolder'
  <2>1. CASE ReadEnter(r)
    BY <2>1 DEF ReadEnter, IoAcquireRemoveLock
  <2>2. CASE ReadRefused(r)
    BY <2>2 DEF ReadRefused
  <2>3. CASE ReadTooSmall(r)
    BY <2>3 DEF ReadTooSmall
  <2>4. CASE ReadTooSmallComplete(r)
    BY <2>4 DEF ReadTooSmallComplete
  <2>5. CASE ReadInsert(r)
    BY <2>5 DEF ReadInsert, LockFree
  <2>6. CASE ReadInsertCancelled(r)
    BY <2>6 DEF ReadInsertCancelled, InsertCancelled, CsqUnlink
  <2>7. CASE ReadInserted(r)
    BY <2>7 DEF ReadInserted, InsertCancelled
  <2>8. CASE ReadCompleteCancelled(r)
    BY <2>8 DEF ReadCompleteCancelled
  <2>9. CASE ReadSignal(r)
    BY <2>9 DEF ReadSignal, Signal
  <2>10. CASE ReadRelease(r)
    BY <2>10 DEF ReadRelease, IoReleaseRemoveLock
  <2> QED
    BY <1>2, <2>1, <2>2, <2>3, <2>4, <2>5, <2>6, <2>7, <2>8, <2>9, <2>10
       DEF Read
<1>3. CASE CsampPollingThread
  <2>1. CASE ThreadWake
    BY <2>1 DEF ThreadWake
  <2>2. CASE ThreadCheckStop
    BY <2>2 DEF ThreadCheckStop
  <2>3. CASE ThreadTake
    BY <2>3 DEF ThreadTake, IsNext, TakesIrp, CsqTake, LockFree
  <2>4. CASE ThreadFindsNone
    BY <2>4 DEF ThreadFindsNone, LockFree
  <2>5. CASE ThreadPoll
    BY <2>5 DEF ThreadPoll, NotReady
  <2>6. CASE ThreadComplete
    BY <2>6 DEF ThreadComplete, NotReady
  <2> QED
    BY <1>3, <2>1, <2>2, <2>3, <2>4, <2>5, <2>6 DEF CsampPollingThread
<1>4. ASSUME NEW r \in Reqs, CancelStep(r)
      PROVE  LockHolder'
  <2>1. CASE CallCancelRoutine(r)
    BY <2>1 DEF CallCancelRoutine, IoCallCancelRoutine
  <2>2. CASE CancelUnlink(r)
    BY <2>2 DEF CancelUnlink, CsqCancelRoutine, CsqUnlink, LockFree
  <2>3. CASE CancelComplete(r)
    BY <2>3 DEF CancelComplete, CsqCompleteCanceledIrp
  <2> QED
    BY <1>4, <2>1, <2>2, <2>3 DEF CancelStep
<1>5. ASSUME NEW f \in Files, Cleanup(f)
      PROVE  LockHolder'
  <2>1. CASE CleanupDrain(f)
    BY <2>1 DEF CleanupDrain, RundownOver
  <2>2. CASE CleanupTake(f)
    BY <2>2 DEF CleanupTake, IsNext, TakesIrp, CsqTake, LockFree
  <2>3. CASE CleanupComplete(f)
    BY <2>3 DEF CleanupComplete
  <2>4. CASE CleanupEnd(f)
    BY <2>4 DEF CleanupEnd, LockFree
  <2> QED
    BY <1>5, <2>1, <2>2, <2>3, <2>4 DEF Cleanup
<1>6. ASSUME NEW r \in Reqs, Cancel(r)
      PROVE  LockHolder'
  BY <1>6 DEF Cancel, IoCancelIrp, Outstanding
<1>7. ASSUME NEW f \in Files, Create(f)
      PROVE  LockHolder'
  BY <1>7 DEF Create, IoCreateFile
<1>8. ASSUME NEW f \in Files, CleanupStart(f)
      PROVE  LockHolder'
  BY <1>8 DEF CleanupStart, IoCloseHandle
<1>9. ASSUME NEW f \in Files, Close(f)
      PROVE  LockHolder'
  BY <1>9 DEF Close, IoCloseFile
<1>10. CASE UnloadStop
  BY <1>10 DEF UnloadStop, NoOpenFiles, Signal
<1>11. CASE UnloadDelete
  BY <1>11 DEF UnloadDelete, ThreadJoined
<1>12. CASE UNCHANGED vars
  BY <1>12
<1> QED
  BY <1>1, <1>2, <1>3, <1>4, <1>5, <1>6, <1>7, <1>8, <1>9, <1>10, <1>11,
     <1>12 DEF Next, Terminated

\* Two cleanups never have the same read to complete.
LEMMA CleanupStep ==
  ASSUME TypeOK, NoDuplicates, ReadLife, CleanupsApart, [Next]_vars
  PROVE  CleanupsApart'
<1> USE DEF TypeOK, IoTypeOK, CsqTypeOK, vars, ioVars, irpVars, cancelVars,
            csqVars, threadVars, SetPC, SetCancelRoutine, IoCompleteRequest,
            CleanupsApart
<1>1. ASSUME NEW r \in Reqs, NEW f \in Files, Issue(r, f)
      PROVE  CleanupsApart'
  BY <1>1 DEF Issue, IssueIrp
<1>2. ASSUME NEW r \in Reqs, Read(r)
      PROVE  CleanupsApart'
  <2>1. CASE ReadEnter(r)
    BY <2>1 DEF ReadEnter, IoAcquireRemoveLock
  <2>2. CASE ReadRefused(r)
    BY <2>2 DEF ReadRefused
  <2>3. CASE ReadTooSmall(r)
    BY <2>3 DEF ReadTooSmall
  <2>4. CASE ReadTooSmallComplete(r)
    BY <2>4 DEF ReadTooSmallComplete
  <2>5. CASE ReadInsert(r)
    BY <2>5 DEF ReadInsert, LockFree
  <2>6. CASE ReadInsertCancelled(r)
    BY <2>6 DEF ReadInsertCancelled, InsertCancelled, CsqUnlink
  <2>7. CASE ReadInserted(r)
    BY <2>7 DEF ReadInserted, InsertCancelled
  <2>8. CASE ReadCompleteCancelled(r)
    BY <2>8 DEF ReadCompleteCancelled
  <2>9. CASE ReadSignal(r)
    BY <2>9 DEF ReadSignal, Signal
  <2>10. CASE ReadRelease(r)
    BY <2>10 DEF ReadRelease, IoReleaseRemoveLock
  <2> QED
    BY <1>2, <2>1, <2>2, <2>3, <2>4, <2>5, <2>6, <2>7, <2>8, <2>9, <2>10
       DEF Read
<1>3. CASE CsampPollingThread
  <2>1. CASE ThreadWake
    BY <2>1 DEF ThreadWake
  <2>2. CASE ThreadCheckStop
    BY <2>2 DEF ThreadCheckStop
  <2>3. CASE ThreadTake
    BY <2>3 DEF ThreadTake, IsNext, TakesIrp, CsqTake, LockFree
  <2>4. CASE ThreadFindsNone
    BY <2>4 DEF ThreadFindsNone, LockFree
  <2>5. CASE ThreadPoll
    BY <2>5 DEF ThreadPoll, NotReady
  <2>6. CASE ThreadComplete
    BY <2>6 DEF ThreadComplete, NotReady
  <2> QED
    BY <1>3, <2>1, <2>2, <2>3, <2>4, <2>5, <2>6 DEF CsampPollingThread
<1>4. ASSUME NEW r \in Reqs, CancelStep(r)
      PROVE  CleanupsApart'
  <2>1. CASE CallCancelRoutine(r)
    BY <2>1 DEF CallCancelRoutine, IoCallCancelRoutine
  <2>2. CASE CancelUnlink(r)
    BY <2>2 DEF CancelUnlink, CsqCancelRoutine, CsqUnlink, LockFree
  <2>3. CASE CancelComplete(r)
    BY <2>3 DEF CancelComplete, CsqCompleteCanceledIrp
  <2> QED
    BY <1>4, <2>1, <2>2, <2>3 DEF CancelStep
<1>5. ASSUME NEW f \in Files, Cleanup(f)
      PROVE  CleanupsApart'
  <2>1. CASE CleanupDrain(f)
    BY <2>1 DEF CleanupDrain, RundownOver
  <2>2. CASE CleanupTake(f)
    <3>1. PICK i \in DOMAIN queue :
           /\ queue' = RemoveAt(queue, i)
           /\ cleanupIrp' = [cleanupIrp EXCEPT ![f] = queue[i]]
      BY <2>2 DEF CleanupTake, IsNext, TakesIrp, CsqTake, LockFree
    <3>2. queue[i] \in Reqs /\ queue[i] \in ToSet(queue)
      BY <3>1, UnlinkFacts
    <3>3. ~ CleanedUp(queue[i])
      BY <3>2 DEF ReadLife, Waiting, Mode, Unissued, Dispatched, Queued,
         Answering, Taken, Completed, Private, Uncalled
    <3> QED
      BY <3>1, <3>2, <3>3 DEF CleanedUp
  <2>3. CASE CleanupComplete(f)
    BY <2>3 DEF CleanupComplete
  <2>4. CASE CleanupEnd(f)
    BY <2>4 DEF CleanupEnd, LockFree
  <2> QED
    BY <1>5, <2>1, <2>2, <2>3, <2>4 DEF Cleanup
<1>6. ASSUME NEW r \in Reqs, Cancel(r)
      PROVE  CleanupsApart'
  BY <1>6 DEF Cancel, IoCancelIrp, Outstanding
<1>7. ASSUME NEW f \in Files, Create(f)
      PROVE  CleanupsApart'
  BY <1>7 DEF Create, IoCreateFile
<1>8. ASSUME NEW f \in Files, CleanupStart(f)
      PROVE  CleanupsApart'
  BY <1>8 DEF CleanupStart, IoCloseHandle
<1>9. ASSUME NEW f \in Files, Close(f)
      PROVE  CleanupsApart'
  BY <1>9 DEF Close, IoCloseFile
<1>10. CASE UnloadStop
  BY <1>10 DEF UnloadStop, NoOpenFiles, Signal
<1>11. CASE UnloadDelete
  BY <1>11 DEF UnloadDelete, ThreadJoined
<1>12. CASE UNCHANGED vars
  BY <1>12
<1> QED
  BY <1>1, <1>2, <1>3, <1>4, <1>5, <1>6, <1>7, <1>8, <1>9, <1>10, <1>11,
     <1>12 DEF Next, Terminated

\* The polling thread has an IRP exactly while it polls, and is told to stop
\* when there is no handle any more.
LEMMA ThreadStep ==
  ASSUME TypeOK, ThreadPolls, StoppedUnused, [Next]_vars
  PROVE  ThreadPolls' /\ StoppedUnused'
<1> USE DEF TypeOK, IoTypeOK, CsqTypeOK, vars, ioVars, irpVars, cancelVars,
            csqVars, threadVars, SetPC, SetCancelRoutine, IoCompleteRequest,
            ThreadPolls, StoppedUnused, NoOpenFiles
<1>1. ASSUME NEW r \in Reqs, NEW f \in Files, Issue(r, f)
      PROVE  ThreadPolls' /\ StoppedUnused'
  BY <1>1 DEF Issue, IssueIrp
<1>2. ASSUME NEW r \in Reqs, Read(r)
      PROVE  ThreadPolls' /\ StoppedUnused'
  <2>1. CASE ReadEnter(r)
    BY <2>1 DEF ReadEnter, IoAcquireRemoveLock
  <2>2. CASE ReadRefused(r)
    BY <2>2 DEF ReadRefused
  <2>3. CASE ReadTooSmall(r)
    BY <2>3 DEF ReadTooSmall
  <2>4. CASE ReadTooSmallComplete(r)
    BY <2>4 DEF ReadTooSmallComplete
  <2>5. CASE ReadInsert(r)
    BY <2>5 DEF ReadInsert, LockFree
  <2>6. CASE ReadInsertCancelled(r)
    BY <2>6 DEF ReadInsertCancelled, InsertCancelled, CsqUnlink
  <2>7. CASE ReadInserted(r)
    BY <2>7 DEF ReadInserted, InsertCancelled
  <2>8. CASE ReadCompleteCancelled(r)
    BY <2>8 DEF ReadCompleteCancelled
  <2>9. CASE ReadSignal(r)
    BY <2>9 DEF ReadSignal, Signal
  <2>10. CASE ReadRelease(r)
    BY <2>10 DEF ReadRelease, IoReleaseRemoveLock
  <2> QED
    BY <1>2, <2>1, <2>2, <2>3, <2>4, <2>5, <2>6, <2>7, <2>8, <2>9, <2>10
       DEF Read
<1>3. CASE CsampPollingThread
  <2>1. CASE ThreadWake
    BY <2>1 DEF ThreadWake
  <2>2. CASE ThreadCheckStop
    BY <2>2 DEF ThreadCheckStop
  <2>3. CASE ThreadTake
    <3>1. current' \in Reqs /\ thread' = "poll"
      BY <2>3 DEF ThreadTake
    <3> QED
      BY <2>3, <3>1 DEF ThreadTake
  <2>4. CASE ThreadFindsNone
    BY <2>4 DEF ThreadFindsNone, LockFree
  <2>5. CASE ThreadPoll
    BY <2>5 DEF ThreadPoll, NotReady
  <2>6. CASE ThreadComplete
    BY <2>6 DEF ThreadComplete, NotReady
  <2> QED
    BY <1>3, <2>1, <2>2, <2>3, <2>4, <2>5, <2>6 DEF CsampPollingThread
<1>4. ASSUME NEW r \in Reqs, CancelStep(r)
      PROVE  ThreadPolls' /\ StoppedUnused'
  <2>1. CASE CallCancelRoutine(r)
    BY <2>1 DEF CallCancelRoutine, IoCallCancelRoutine
  <2>2. CASE CancelUnlink(r)
    BY <2>2 DEF CancelUnlink, CsqCancelRoutine, CsqUnlink, LockFree
  <2>3. CASE CancelComplete(r)
    BY <2>3 DEF CancelComplete, CsqCompleteCanceledIrp
  <2> QED
    BY <1>4, <2>1, <2>2, <2>3 DEF CancelStep
<1>5. ASSUME NEW f \in Files, Cleanup(f)
      PROVE  ThreadPolls' /\ StoppedUnused'
  <2>1. CASE CleanupDrain(f)
    BY <2>1 DEF CleanupDrain, RundownOver
  <2>2. CASE CleanupTake(f)
    BY <2>2 DEF CleanupTake, IsNext, TakesIrp, CsqTake, LockFree
  <2>3. CASE CleanupComplete(f)
    BY <2>3 DEF CleanupComplete
  <2>4. CASE CleanupEnd(f)
    BY <2>4 DEF CleanupEnd, LockFree
  <2> QED
    BY <1>5, <2>1, <2>2, <2>3, <2>4 DEF Cleanup
<1>6. ASSUME NEW r \in Reqs, Cancel(r)
      PROVE  ThreadPolls' /\ StoppedUnused'
  BY <1>6 DEF Cancel, IoCancelIrp, Outstanding
<1>7. ASSUME NEW f \in Files, Create(f)
      PROVE  ThreadPolls' /\ StoppedUnused'
  BY <1>7 DEF Create, IoCreateFile
<1>8. ASSUME NEW f \in Files, CleanupStart(f)
      PROVE  ThreadPolls' /\ StoppedUnused'
  BY <1>8 DEF CleanupStart, IoCloseHandle
<1>9. ASSUME NEW f \in Files, Close(f)
      PROVE  ThreadPolls' /\ StoppedUnused'
  BY <1>9 DEF Close, IoCloseFile
<1>10. CASE UnloadStop
  BY <1>10 DEF UnloadStop, Signal
<1>11. CASE UnloadDelete
  BY <1>11 DEF UnloadDelete, ThreadJoined
<1>12. CASE UNCHANGED vars
  BY <1>12
<1> QED
  BY <1>1, <1>2, <1>3, <1>4, <1>5, <1>6, <1>7, <1>8, <1>9, <1>10, <1>11,
     <1>12 DEF Next, Terminated

\* A handle lasts longer than its reads, and its context than their dispatch.
LEMMA HandleStep ==
  ASSUME TypeOK, ReadLife, HandleInUse, FileContextAlive, [Next]_vars
  PROVE  HandleInUse' /\ FileContextAlive'
<1> USE DEF TypeOK, IoTypeOK, CsqTypeOK, vars, ioVars, irpVars, cancelVars,
            csqVars, threadVars, SetPC, SetCancelRoutine, IoCompleteRequest,
            HandleInUse, FileContextAlive, Outstanding
<1>1. ASSUME NEW r \in Reqs, NEW f \in Files, Issue(r, f)
      PROVE  HandleInUse' /\ FileContextAlive'
  BY <1>1 DEF Issue, IssueIrp
<1>2. ASSUME NEW r \in Reqs, Read(r)
      PROVE  HandleInUse' /\ FileContextAlive'
  <2>1. CASE ReadEnter(r)
    <3>1. irpFile[r] \in Files /\ completions[r] = 0
      BY <2>1 DEF ReadEnter, ReadLife, Mode, Unissued, Dispatched,
         Queued, Answering, Taken, Completed, Private, Uncalled
    <3>2. file[irpFile[r]] \in FileStates \ {"none", "closed"}
      BY <3>1
    <3>3. file[irpFile[r]] = "open"
      BY <2>1, <3>2 DEF ReadEnter, LockRemoved, IoAcquireRemoveLock
    <3>4. rundown' = [rundown EXCEPT ![irpFile[r]] = @ \cup {r}]
      BY <2>1 DEF ReadEnter, IoAcquireRemoveLock
    <3> QED
      BY <2>1, <3>1, <3>3, <3>4 DEF ReadEnter
  <2>2. CASE ReadRefused(r)
    BY <2>2 DEF ReadRefused
  <2>3. CASE ReadTooSmall(r)
    BY <2>3 DEF ReadTooSmall
  <2>4. CASE ReadTooSmallComplete(r)
    BY <2>4 DEF ReadTooSmallComplete
  <2>5. CASE ReadInsert(r)
    BY <2>5 DEF ReadInsert, LockFree
  <2>6. CASE ReadInsertCancelled(r)
    BY <2>6 DEF ReadInsertCancelled, InsertCancelled, CsqUnlink
  <2>7. CASE ReadInserted(r)
    BY <2>7 DEF ReadInserted, InsertCancelled
  <2>8. CASE ReadCompleteCancelled(r)
    BY <2>8 DEF ReadCompleteCancelled
  <2>9. CASE ReadSignal(r)
    BY <2>9 DEF ReadSignal, Signal
  <2>10. CASE ReadRelease(r)
    BY <2>10 DEF ReadRelease, IoReleaseRemoveLock
  <2> QED
    BY <1>2, <2>1, <2>2, <2>3, <2>4, <2>5, <2>6, <2>7, <2>8, <2>9, <2>10
       DEF Read
<1>3. CASE CsampPollingThread
  <2>1. CASE ThreadWake
    BY <2>1 DEF ThreadWake
  <2>2. CASE ThreadCheckStop
    BY <2>2 DEF ThreadCheckStop
  <2>3. CASE ThreadTake
    BY <2>3 DEF ThreadTake, IsNext, TakesIrp, CsqTake, LockFree
  <2>4. CASE ThreadFindsNone
    BY <2>4 DEF ThreadFindsNone, LockFree
  <2>5. CASE ThreadPoll
    BY <2>5 DEF ThreadPoll, NotReady
  <2>6. CASE ThreadComplete
    BY <2>6 DEF ThreadComplete, NotReady
  <2> QED
    BY <1>3, <2>1, <2>2, <2>3, <2>4, <2>5, <2>6 DEF CsampPollingThread
<1>4. ASSUME NEW r \in Reqs, CancelStep(r)
      PROVE  HandleInUse' /\ FileContextAlive'
  <2>1. CASE CallCancelRoutine(r)
    BY <2>1 DEF CallCancelRoutine, IoCallCancelRoutine
  <2>2. CASE CancelUnlink(r)
    BY <2>2 DEF CancelUnlink, CsqCancelRoutine, CsqUnlink, LockFree
  <2>3. CASE CancelComplete(r)
    BY <2>3 DEF CancelComplete, CsqCompleteCanceledIrp
  <2> QED
    BY <1>4, <2>1, <2>2, <2>3 DEF CancelStep
<1>5. ASSUME NEW f \in Files, Cleanup(f)
      PROVE  HandleInUse' /\ FileContextAlive'
  <2>1. CASE CleanupDrain(f)
    BY <2>1 DEF CleanupDrain, RundownOver
  <2>2. CASE CleanupTake(f)
    BY <2>2 DEF CleanupTake, IsNext, TakesIrp, CsqTake, LockFree
  <2>3. CASE CleanupComplete(f)
    BY <2>3 DEF CleanupComplete
  <2>4. CASE CleanupEnd(f)
    BY <2>4 DEF CleanupEnd, LockFree
  <2> QED
    BY <1>5, <2>1, <2>2, <2>3, <2>4 DEF Cleanup
<1>6. ASSUME NEW r \in Reqs, Cancel(r)
      PROVE  HandleInUse' /\ FileContextAlive'
  BY <1>6 DEF Cancel, IoCancelIrp, Outstanding
<1>7. ASSUME NEW f \in Files, Create(f)
      PROVE  HandleInUse' /\ FileContextAlive'
  BY <1>7 DEF Create, IoCreateFile
<1>8. ASSUME NEW f \in Files, CleanupStart(f)
      PROVE  HandleInUse' /\ FileContextAlive'
  BY <1>8 DEF CleanupStart, IoCloseHandle
<1>9. ASSUME NEW f \in Files, Close(f)
      PROVE  HandleInUse' /\ FileContextAlive'
  BY <1>9 DEF Close, IoCloseFile
<1>10. CASE UnloadStop
  BY <1>10 DEF UnloadStop, NoOpenFiles, Signal
<1>11. CASE UnloadDelete
  BY <1>11 DEF UnloadDelete, ThreadJoined
<1>12. CASE UNCHANGED vars
  BY <1>12
<1> QED
  BY <1>1, <1>2, <1>3, <1>4, <1>5, <1>6, <1>7, <1>8, <1>9, <1>10, <1>11,
     <1>12 DEF Next, Terminated

\* Cleanup does not overlook a read.
LEMMA CleanupOverStep ==
  ASSUME TypeOK, NoDuplicates, ReadLife, HandleInUse, FileContextAlive,
         CleanupLeavesOnlyCalled, [Next]_vars
  PROVE  CleanupLeavesOnlyCalled'
<1> USE DEF TypeOK, IoTypeOK, CsqTypeOK, vars, ioVars, irpVars, cancelVars,
            csqVars, threadVars, SetPC, SetCancelRoutine, IoCompleteRequest,
            CleanupLeavesOnlyCalled, Waiting
<1>1. ASSUME NEW r \in Reqs, NEW f \in Files, Issue(r, f)
      PROVE  CleanupLeavesOnlyCalled'
  BY <1>1 DEF Issue, ReadLife, IssueIrp, Mode, Unissued, Dispatched, Queued,
     Answering, Taken, Completed, Private, Uncalled
<1>2. ASSUME NEW r \in Reqs, Read(r)
      PROVE  CleanupLeavesOnlyCalled'
  <2>1. CASE ReadEnter(r)
    BY <2>1 DEF ReadEnter, IoAcquireRemoveLock
  <2>2. CASE ReadRefused(r)
    BY <2>2 DEF ReadRefused
  <2>3. CASE ReadTooSmall(r)
    BY <2>3 DEF ReadTooSmall
  <2>4. CASE ReadTooSmallComplete(r)
    BY <2>4 DEF ReadTooSmallComplete
  <2>5. CASE ReadInsert(r)
    BY <2>5, InsertFacts DEF ReadInsert, HandleInUse, FileContextAlive,
       LockFree
  <2>6. CASE ReadInsertCancelled(r)
    BY <2>6, UnlinkFacts DEF ReadInsertCancelled, InsertCancelled,
       CsqUnlink
  <2>7. CASE ReadInserted(r)
    BY <2>7 DEF ReadInserted, InsertCancelled
  <2>8. CASE ReadCompleteCancelled(r)
    BY <2>8 DEF ReadCompleteCancelled
  <2>9. CASE ReadSignal(r)
    BY <2>9 DEF ReadSignal, Signal
  <2>10. CASE ReadRelease(r)
    BY <2>10 DEF ReadRelease, IoReleaseRemoveLock
  <2> QED
    BY <1>2, <2>1, <2>2, <2>3, <2>4, <2>5, <2>6, <2>7, <2>8, <2>9, <2>10
       DEF Read
<1>3. CASE CsampPollingThread
  <2>1. CASE ThreadWake
    BY <2>1 DEF ThreadWake
  <2>2. CASE ThreadCheckStop
    BY <2>2 DEF ThreadCheckStop
  <2>3. CASE ThreadTake
    BY <2>3, UnlinkFacts DEF ThreadTake, IsNext, TakesIrp, CsqTake,
       LockFree
  <2>4. CASE ThreadFindsNone
    BY <2>4 DEF ThreadFindsNone, LockFree
  <2>5. CASE ThreadPoll
    BY <2>5 DEF ThreadPoll, NotReady
  <2>6. CASE ThreadComplete
    BY <2>6 DEF ThreadComplete, NotReady
  <2> QED
    BY <1>3, <2>1, <2>2, <2>3, <2>4, <2>5, <2>6 DEF CsampPollingThread
<1>4. ASSUME NEW r \in Reqs, CancelStep(r)
      PROVE  CleanupLeavesOnlyCalled'
  <2>1. CASE CallCancelRoutine(r)
    BY <2>1 DEF CallCancelRoutine, IoCallCancelRoutine
  <2>2. CASE CancelUnlink(r)
    BY <2>2, UnlinkFacts DEF CancelUnlink, CsqCancelRoutine, CsqUnlink,
       LockFree
  <2>3. CASE CancelComplete(r)
    BY <2>3 DEF CancelComplete, CsqCompleteCanceledIrp
  <2> QED
    BY <1>4, <2>1, <2>2, <2>3 DEF CancelStep
<1>5. ASSUME NEW f \in Files, Cleanup(f)
      PROVE  CleanupLeavesOnlyCalled'
  <2>1. CASE CleanupDrain(f)
    BY <2>1 DEF CleanupDrain, RundownOver
  <2>2. CASE CleanupTake(f)
    BY <2>2, UnlinkFacts DEF CleanupTake, IsNext, TakesIrp, CsqTake,
       LockFree
  <2>3. CASE CleanupComplete(f)
    BY <2>3 DEF CleanupComplete
  <2>4. CASE CleanupEnd(f)
    BY <2>4 DEF CleanupEnd, CleanupNone, NoneLeft, CleanupScope, OfFile,
       TakesIrp, ToSet, LockFree
  <2> QED
    BY <1>5, <2>1, <2>2, <2>3, <2>4 DEF Cleanup
<1>6. ASSUME NEW r \in Reqs, Cancel(r)
      PROVE  CleanupLeavesOnlyCalled'
  BY <1>6 DEF Cancel, IoCancelIrp, Outstanding
<1>7. ASSUME NEW f \in Files, Create(f)
      PROVE  CleanupLeavesOnlyCalled'
  BY <1>7 DEF Create, IoCreateFile
<1>8. ASSUME NEW f \in Files, CleanupStart(f)
      PROVE  CleanupLeavesOnlyCalled'
  BY <1>8 DEF CleanupStart, IoCloseHandle
<1>9. ASSUME NEW f \in Files, Close(f)
      PROVE  CleanupLeavesOnlyCalled'
  BY <1>9 DEF Close, IoCloseFile
<1>10. CASE UnloadStop
  BY <1>10 DEF UnloadStop, NoOpenFiles, Signal
<1>11. CASE UnloadDelete
  BY <1>11 DEF UnloadDelete, ThreadJoined
<1>12. CASE UNCHANGED vars
  BY <1>12
<1> QED
  BY <1>1, <1>2, <1>3, <1>4, <1>5, <1>6, <1>7, <1>8, <1>9, <1>10, <1>11,
     <1>12 DEF Next, Terminated

(***************************************************************************)
(* The wakeups of the polling thread.                                      *)
(***************************************************************************)

LEMMA Counts ==
  ASSUME IsFiniteSet(Reqs)
  PROVE  /\ IsFiniteSet(Cancellable) /\ Cardinality(Cancellable) \in Nat
         /\ IsFiniteSet(Signallers) /\ Cardinality(Signallers) \in Nat
         /\ IsFiniteSet(Cancellable') /\ Cardinality(Cancellable') \in Nat
         /\ IsFiniteSet(Signallers') /\ Cardinality(Signallers') \in Nat
<1>1. /\ Cancellable \subseteq Reqs /\ Signallers \subseteq Reqs
      /\ Cancellable' \subseteq Reqs /\ Signallers' \subseteq Reqs
  BY DEF Cancellable, Signallers
<1> QED
  BY <1>1, FS_Subset, FS_CardinalityType

LEMMA CardAdd ==
  ASSUME NEW S, IsFiniteSet(S), NEW x
  PROVE  /\ Cardinality(S \cup {x}) <= Cardinality(S) + 1
         /\ x \notin S => Cardinality(S \cup {x}) = Cardinality(S) + 1
<1>1. Cardinality(S) \in Nat
  BY FS_CardinalityType
<1>2. CASE x \in S
  <2>1. S \cup {x} = S
    BY <1>2
  <2> QED
    BY <1>1, <1>2, <2>1
<1>3. CASE x \notin S
  <2>1. Cardinality(S \cup {x}) = Cardinality(S) + 1
    BY <1>3, FS_AddElement
  <2> QED
    BY <1>1, <2>1
<1> QED
  BY <1>2, <1>3

LEMMA WakeupsNat ==
  ASSUME semaphore \in Nat
  PROVE  Wakeups \in Nat
BY Counts DEF Wakeups

LEMMA WakeupsLess ==
  ASSUME semaphore \in Nat, semaphore' = semaphore, thread' = thread,
         Cardinality(Signallers') = Cardinality(Signallers) - 1
  PROVE  Wakeups' = Wakeups - 1
BY Counts DEF Wakeups

LEMMA WakeupsMore ==
  ASSUME semaphore \in Nat, semaphore' = semaphore, thread' = thread,
         Cardinality(Signallers') = Cardinality(Signallers) + 1
  PROVE  Wakeups' = Wakeups + 1
BY Counts DEF Wakeups

\* An activity that queues no read and takes no wakeup, nor gives any
LEMMA WakeupFrame ==
  ASSUME NoLostWakeup, semaphore \in Nat, semaphore' = semaphore,
         Cancellable' \subseteq Cancellable, Signallers \subseteq Signallers',
         thread \in {"woken", "remove"} => thread' \in {"woken", "remove"}
  PROVE  NoLostWakeup'
<1>1. /\ Cardinality(Cancellable') <= Cardinality(Cancellable)
      /\ Cardinality(Signallers) <= Cardinality(Signallers')
  BY Counts, FS_Subset
<1> QED
  BY <1>1, Counts DEF NoLostWakeup, Wakeups

\* An IRP that has a cancel routine is in the queue, and its handle in use.
LEMMA CancellableFacts ==
  ASSUME ReadLife, NEW r \in Cancellable
  PROVE  r \in Reqs /\ r \in ToSet(queue) /\ Outstanding(r)
BY DEF Cancellable, ReadLife, Waiting, Outstanding, Mode, Unissued,
   Dispatched, Queued, Answering, Taken, Completed, Private, Uncalled

LEMMA WakeupStep ==
  ASSUME TypeOK, ReadLife, HandleInUse, StoppedUnused, NoDuplicates,
         NoLostWakeup, [Next]_vars
  PROVE  NoLostWakeup'
<1> USE DEF TypeOK, IoTypeOK, CsqTypeOK, vars, ioVars, irpVars, cancelVars,
            csqVars, threadVars, SetPC, SetCancelRoutine, IoCompleteRequest
<1>1. ASSUME NEW r \in Reqs, NEW f \in Files, Issue(r, f)
      PROVE  NoLostWakeup'
  <2>1. Cancellable' \subseteq Cancellable /\ Signallers' = Signallers
    BY <1>1 DEF Issue, Cancellable, Signallers, IssueIrp
  <2>2. /\ semaphore' = semaphore
        /\ thread \in {"woken", "remove"} => thread' \in {"woken", "remove"}
    BY <1>1 DEF Issue, IssueIrp
  <2> QED
    BY <2>1, <2>2, WakeupFrame
<1>2. ASSUME NEW r \in Reqs, Read(r)
      PROVE  NoLostWakeup'
  <2>1. CASE ReadEnter(r)
    <3>1. Cancellable' \subseteq Cancellable /\ Signallers' = Signallers
      BY <2>1 DEF ReadEnter, Cancellable, Signallers,
         IoAcquireRemoveLock
    <3>2. /\ semaphore' = semaphore
          /\ thread \in {"woken", "remove"} => thread' \in {"woken", "remove"}
      BY <2>1 DEF ReadEnter, IoAcquireRemoveLock
    <3> QED
      BY <3>1, <3>2, WakeupFrame
  <2>2. CASE ReadRefused(r)
    <3>1. Cancellable' \subseteq Cancellable /\ Signallers' = Signallers
      BY <2>2 DEF ReadRefused, Cancellable, Signallers
    <3>2. /\ semaphore' = semaphore
          /\ thread \in {"woken", "remove"} => thread' \in {"woken", "remove"}
      BY <2>2 DEF ReadRefused
    <3> QED
      BY <3>1, <3>2, WakeupFrame
  <2>3. CASE ReadTooSmall(r)
    <3>1. Cancellable' \subseteq Cancellable /\ Signallers' = Signallers
      BY <2>3 DEF ReadTooSmall, Cancellable, Signallers
    <3>2. /\ semaphore' = semaphore
          /\ thread \in {"woken", "remove"} => thread' \in {"woken", "remove"}
      BY <2>3 DEF ReadTooSmall
    <3> QED
      BY <3>1, <3>2, WakeupFrame
  <2>4. CASE ReadTooSmallComplete(r)
    <3>1. Cancellable' \subseteq Cancellable /\ Signallers' = Signallers
      BY <2>4 DEF ReadTooSmallComplete, Cancellable, Signallers
    <3>2. /\ semaphore' = semaphore
          /\ thread \in {"woken", "remove"} => thread' \in {"woken", "remove"}
      BY <2>4 DEF ReadTooSmallComplete
    <3> QED
      BY <3>1, <3>2, WakeupFrame
  <2>5. CASE ReadInsert(r)
    <3>1. Cancellable' = Cancellable \cup {r}
      BY <2>5 DEF ReadInsert, Cancellable
    <3>2. Signallers' = Signallers \cup {r} /\ r \notin Signallers
      BY <2>5 DEF ReadInsert, Signallers
    <3>3. Cardinality(Cancellable') <= Cardinality(Cancellable) + 1
      BY <3>1, Counts, CardAdd
    <3>4. Cardinality(Signallers') = Cardinality(Signallers) + 1
      BY <3>2, Counts, CardAdd
    <3>5. semaphore' = semaphore /\ thread' = thread
      BY <2>5 DEF ReadInsert
    <3>6. Wakeups' = Wakeups + 1
      BY <3>4, <3>5, WakeupsMore
    <3> QED
      BY <3>3, <3>6, WakeupsNat, Counts DEF NoLostWakeup
  <2>6. CASE ReadInsertCancelled(r)
    <3>1. Cancellable' = Cancellable \ {r} /\ r \in Cancellable
      BY <2>6 DEF ReadInsertCancelled, Cancellable, InsertCancelled
    <3>2. Signallers' = Signallers \ {r} /\ r \in Signallers
      BY <2>6 DEF ReadInsertCancelled, Signallers
    <3>3. /\ Cardinality(Cancellable') = Cardinality(Cancellable) - 1
          /\ Cardinality(Signallers') = Cardinality(Signallers) - 1
      BY <3>1, <3>2, Counts, FS_RemoveElement
    <3>4. semaphore' = semaphore /\ thread' = thread
      BY <2>6 DEF ReadInsertCancelled
    <3>5. Wakeups' = Wakeups - 1
      BY <3>3, <3>4, WakeupsLess
    <3> QED
      BY <3>3, <3>5, WakeupsNat, Counts DEF NoLostWakeup
  <2>7. CASE ReadInserted(r)
    <3>1. Cancellable' \subseteq Cancellable /\ Signallers' = Signallers
      BY <2>7 DEF ReadInserted, Cancellable, Signallers, InsertCancelled
    <3>2. /\ semaphore' = semaphore
          /\ thread \in {"woken", "remove"} => thread' \in {"woken", "remove"}
      BY <2>7 DEF ReadInserted, InsertCancelled
    <3> QED
      BY <3>1, <3>2, WakeupFrame
  <2>8. CASE ReadCompleteCancelled(r)
    <3>1. Cancellable' = Cancellable /\ Signallers \subseteq Signallers'
      BY <2>8 DEF ReadCompleteCancelled, Cancellable, Signallers
    <3>2. semaphore' = semaphore /\ thread' = thread
      BY <2>8 DEF ReadCompleteCancelled
    <3> QED
      BY <3>1, <3>2, WakeupFrame
  <2>9. CASE ReadSignal(r)
    <3>1. Cancellable' = Cancellable
      BY <2>9 DEF ReadSignal, Cancellable
    <3>2. Signallers' = Signallers \ {r} /\ r \in Signallers
      BY <2>9 DEF ReadSignal, Signallers
    <3>3. Cardinality(Signallers') = Cardinality(Signallers) - 1
      BY <3>2, Counts, FS_RemoveElement
    <3>4. semaphore' = semaphore + 1 /\ thread' = thread
      BY <2>9 DEF ReadSignal, Signal
    <3> QED
      BY <3>1, <3>3, <3>4, Counts DEF NoLostWakeup, Wakeups
  <2>10. CASE ReadRelease(r)
    <3>1. Cancellable' \subseteq Cancellable /\ Signallers' = Signallers
      BY <2>10 DEF ReadRelease, Cancellable, Signallers,
         IoReleaseRemoveLock
    <3>2. /\ semaphore' = semaphore
          /\ thread \in {"woken", "remove"} => thread' \in {"woken", "remove"}
      BY <2>10 DEF ReadRelease, IoReleaseRemoveLock
    <3> QED
      BY <3>1, <3>2, WakeupFrame
  <2> QED
    BY <1>2, <2>1, <2>2, <2>3, <2>4, <2>5, <2>6, <2>7, <2>8, <2>9, <2>10
       DEF Read
<1>3. CASE CsampPollingThread
  <2>1. CASE ThreadWake
    <3>1. Cancellable' = Cancellable /\ Signallers' = Signallers
      BY <2>1 DEF ThreadWake, Cancellable, Signallers
    <3>2. /\ thread = "wait" /\ thread' = "woken"
          /\ semaphore > 0 /\ semaphore' = semaphore - 1
      BY <2>1 DEF ThreadWake
    <3> QED
      BY <3>1, <3>2, Counts DEF NoLostWakeup, Wakeups
  <2>2. CASE ThreadCheckStop
    <3>1. CASE ~ stop
      <4>1. /\ Cancellable' = Cancellable /\ Signallers' = Signallers
            /\ semaphore' = semaphore /\ thread' = "remove"
        BY <2>2, <3>1 DEF ThreadCheckStop, Cancellable, Signallers
      <4> QED
        BY <4>1, WakeupFrame
    <3>2. CASE stop
      <4>1. Cancellable = {}
        <5>1. ASSUME NEW r \in Cancellable
              PROVE  FALSE
          <6>1. r \in Reqs /\ Outstanding(r)
            BY CancellableFacts
          <6>2. /\ file[irpFile[r]] \notin {"none", "closed"}
                /\ irpFile[r] \in Files
            BY <6>1 DEF HandleInUse, Outstanding
          <6> QED
            BY <6>2, <3>2 DEF StoppedUnused, NoOpenFiles
        <5> QED
          BY <5>1
      <4>2. Cancellable' = {} /\ semaphore' \in Nat
        BY <2>2, <4>1 DEF ThreadCheckStop, Cancellable
      <4>3. Cardinality(Cancellable') = 0
        BY <4>2, FS_EmptySet
      <4> QED
        BY <4>2, <4>3, Counts DEF NoLostWakeup, Wakeups
    <3> QED
      BY <3>1, <3>2
  <2>3. CASE ThreadTake
    <3>1. PICK i \in DOMAIN queue :
             /\ cancelRoutine[queue[i]]
             /\ cancelRoutine' = [cancelRoutine EXCEPT ![queue[i]] = FALSE]
      BY <2>3 DEF ThreadTake, IsNext, TakesIrp, CsqTake, LockFree
    <3>2. queue[i] \in Reqs
      OBVIOUS
    <3>3. Cancellable' = Cancellable \ {queue[i]} /\ queue[i] \in Cancellable
      BY <3>1, <3>2 DEF Cancellable
    <3>4. Cardinality(Cancellable') = Cardinality(Cancellable) - 1
      BY <3>3, Counts, FS_RemoveElement
    <3>5. /\ Signallers' = Signallers /\ semaphore' = semaphore
          /\ thread = "remove" /\ thread' = "poll"
      BY <2>3 DEF ThreadTake, Signallers
    <3> QED
      BY <3>4, <3>5, Counts DEF NoLostWakeup, Wakeups
  <2>4. CASE ThreadFindsNone
    <3>1. Cancellable = {}
      <4>1. ASSUME NEW r \in Cancellable
            PROVE  FALSE
        <5>1. r \in ToSet(queue) /\ cancelRoutine[r]
          BY CancellableFacts DEF Cancellable
        <5> QED
          BY <5>1, <2>4, PeekFacts DEF ThreadFindsNone
      <4> QED
        BY <4>1
    <3>2. Cancellable' = {} /\ semaphore' \in Nat
      BY <2>4, <3>1 DEF ThreadFindsNone, Cancellable
    <3>3. Cardinality(Cancellable') = 0
      BY <3>2, FS_EmptySet
    <3> QED
      BY <3>2, <3>3, Counts DEF NoLostWakeup, Wakeups
  <2>5. CASE ThreadPoll
    <3>1. Cancellable' \subseteq Cancellable /\ Signallers' = Signallers
      BY <2>5 DEF ThreadPoll, Cancellable, Signallers, NotReady
    <3>2. /\ semaphore' = semaphore
          /\ thread \in {"woken", "remove"} => thread' \in {"woken", "remove"}
      BY <2>5 DEF ThreadPoll, NotReady
    <3> QED
      BY <3>1, <3>2, WakeupFrame
  <2>6. CASE ThreadComplete
    <3>1. Cancellable' \subseteq Cancellable /\ Signallers' = Signallers
      BY <2>6 DEF ThreadComplete, Cancellable, Signallers, NotReady
    <3>2. /\ semaphore' = semaphore
          /\ thread \in {"woken", "remove"} => thread' \in {"woken", "remove"}
      BY <2>6 DEF ThreadComplete, NotReady
    <3> QED
      BY <3>1, <3>2, WakeupFrame
  <2> QED
    BY <1>3, <2>1, <2>2, <2>3, <2>4, <2>5, <2>6 DEF CsampPollingThread
<1>4. ASSUME NEW r \in Reqs, CancelStep(r)
      PROVE  NoLostWakeup'
  <2>1. CASE CallCancelRoutine(r)
    <3>1. Cancellable' \subseteq Cancellable /\ Signallers' = Signallers
      BY <2>1 DEF CallCancelRoutine, Cancellable, Signallers,
         IoCallCancelRoutine
    <3>2. /\ semaphore' = semaphore
          /\ thread \in {"woken", "remove"} => thread' \in {"woken", "remove"}
      BY <2>1 DEF CallCancelRoutine, IoCallCancelRoutine
    <3> QED
      BY <3>1, <3>2, WakeupFrame
  <2>2. CASE CancelUnlink(r)
    <3>1. Cancellable' \subseteq Cancellable /\ Signallers' = Signallers
      BY <2>2 DEF CancelUnlink, Cancellable, Signallers,
         CsqCancelRoutine, LockFree
    <3>2. /\ semaphore' = semaphore
          /\ thread \in {"woken", "remove"} => thread' \in {"woken", "remove"}
      BY <2>2 DEF CancelUnlink, CsqCancelRoutine, CsqUnlink, LockFree
    <3> QED
      BY <3>1, <3>2, WakeupFrame
  <2>3. CASE CancelComplete(r)
    <3>1. Cancellable' \subseteq Cancellable /\ Signallers' = Signallers
      BY <2>3 DEF CancelComplete, Cancellable, Signallers,
         CsqCompleteCanceledIrp
    <3>2. /\ semaphore' = semaphore
          /\ thread \in {"woken", "remove"} => thread' \in {"woken", "remove"}
      BY <2>3 DEF CancelComplete, CsqCompleteCanceledIrp
    <3> QED
      BY <3>1, <3>2, WakeupFrame
  <2> QED
    BY <1>4, <2>1, <2>2, <2>3 DEF CancelStep
<1>5. ASSUME NEW f \in Files, Cleanup(f)
      PROVE  NoLostWakeup'
  <2>1. CASE CleanupDrain(f)
    <3>1. Cancellable' \subseteq Cancellable /\ Signallers' = Signallers
      BY <2>1 DEF CleanupDrain, Cancellable, Signallers, RundownOver
    <3>2. /\ semaphore' = semaphore
          /\ thread \in {"woken", "remove"} => thread' \in {"woken", "remove"}
      BY <2>1 DEF CleanupDrain, RundownOver
    <3> QED
      BY <3>1, <3>2, WakeupFrame
  <2>2. CASE CleanupTake(f)
    <3>1. PICK i \in DOMAIN queue :
             cancelRoutine' = [cancelRoutine EXCEPT ![queue[i]] = FALSE]
      BY <2>2 DEF CleanupTake, IsNext, TakesIrp, CsqTake, LockFree
    <3>2. Cancellable' \subseteq Cancellable
      BY <3>1 DEF Cancellable
    <3>3. /\ Signallers' = Signallers
          /\ semaphore' = semaphore
          /\ thread' = thread
      BY <2>2 DEF CleanupTake, Signallers
    <3> QED
      BY <3>2, <3>3, WakeupFrame
  <2>3. CASE CleanupComplete(f)
    <3>1. Cancellable' \subseteq Cancellable /\ Signallers' = Signallers
      BY <2>3 DEF CleanupComplete, Cancellable, Signallers
    <3>2. /\ semaphore' = semaphore
          /\ thread \in {"woken", "remove"} => thread' \in {"woken", "remove"}
      BY <2>3 DEF CleanupComplete
    <3> QED
      BY <3>1, <3>2, WakeupFrame
  <2>4. CASE CleanupEnd(f)
    <3>1. Cancellable' \subseteq Cancellable /\ Signallers' = Signallers
      BY <2>4 DEF CleanupEnd, Cancellable, Signallers, LockFree
    <3>2. /\ semaphore' = semaphore
          /\ thread \in {"woken", "remove"} => thread' \in {"woken", "remove"}
      BY <2>4 DEF CleanupEnd, LockFree
    <3> QED
      BY <3>1, <3>2, WakeupFrame
  <2> QED
    BY <1>5, <2>1, <2>2, <2>3, <2>4 DEF Cleanup
<1>6. ASSUME NEW r \in Reqs, Cancel(r)
      PROVE  NoLostWakeup'
  <2>1. Cancellable' \subseteq Cancellable /\ Signallers' = Signallers
    BY <1>6 DEF Cancel, Cancellable, Signallers, IoCancelIrp, Outstanding
  <2>2. /\ semaphore' = semaphore
        /\ thread \in {"woken", "remove"} => thread' \in {"woken", "remove"}
    BY <1>6 DEF Cancel, IoCancelIrp, Outstanding
  <2> QED
    BY <2>1, <2>2, WakeupFrame
<1>7. ASSUME NEW f \in Files, Create(f)
      PROVE  NoLostWakeup'
  <2>1. Cancellable' \subseteq Cancellable /\ Signallers' = Signallers
    BY <1>7 DEF Create, Cancellable, Signallers, IoCreateFile
  <2>2. /\ semaphore' = semaphore
        /\ thread \in {"woken", "remove"} => thread' \in {"woken", "remove"}
    BY <1>7 DEF Create, IoCreateFile
  <2> QED
    BY <2>1, <2>2, WakeupFrame
<1>8. ASSUME NEW f \in Files, CleanupStart(f)
      PROVE  NoLostWakeup'
  <2>1. Cancellable' \subseteq Cancellable /\ Signallers' = Signallers
    BY <1>8 DEF CleanupStart, Cancellable, Signallers, IoCloseHandle
  <2>2. /\ semaphore' = semaphore
        /\ thread \in {"woken", "remove"} => thread' \in {"woken", "remove"}
    BY <1>8 DEF CleanupStart, IoCloseHandle
  <2> QED
    BY <2>1, <2>2, WakeupFrame
<1>9. ASSUME NEW f \in Files, Close(f)
      PROVE  NoLostWakeup'
  <2>1. Cancellable' \subseteq Cancellable /\ Signallers' = Signallers
    BY <1>9 DEF Close, Cancellable, Signallers, IoCloseFile
  <2>2. /\ semaphore' = semaphore
        /\ thread \in {"woken", "remove"} => thread' \in {"woken", "remove"}
    BY <1>9 DEF Close, IoCloseFile
  <2> QED
    BY <2>1, <2>2, WakeupFrame
<1>10. CASE UnloadStop
  <2>1. Cancellable' = Cancellable /\ Signallers' = Signallers
    BY <1>10 DEF UnloadStop, Cancellable, Signallers
  <2>2. semaphore' = semaphore + 1 /\ thread' = thread
    BY <1>10 DEF UnloadStop, NoOpenFiles, Signal
  <2> QED
    BY <2>1, <2>2, Counts DEF NoLostWakeup, Wakeups
<1>11. CASE UnloadDelete
  <2>1. Cancellable' \subseteq Cancellable /\ Signallers' = Signallers
    BY <1>11 DEF UnloadDelete, Cancellable, Signallers, ThreadJoined
  <2>2. /\ semaphore' = semaphore
        /\ thread \in {"woken", "remove"} => thread' \in {"woken", "remove"}
    BY <1>11 DEF UnloadDelete, ThreadJoined
  <2> QED
    BY <2>1, <2>2, WakeupFrame
<1>12. CASE UNCHANGED vars
  <2>1. Cancellable' \subseteq Cancellable /\ Signallers' = Signallers
    BY <1>12 DEF Cancellable, Signallers
  <2>2. /\ semaphore' = semaphore
        /\ thread \in {"woken", "remove"} => thread' \in {"woken", "remove"}
    BY <1>12
  <2> QED
    BY <2>1, <2>2, WakeupFrame
<1> QED
  BY <1>1, <1>2, <1>3, <1>4, <1>5, <1>6, <1>7, <1>8, <1>9, <1>10, <1>11,
     <1>12 DEF Next, Terminated

(***************************************************************************)
(* The theorems about safety.                                              *)
(***************************************************************************)

\* The life of a read, the polling thread's part in it, its wakeups, and the
\* use of the lock and of the handle, are together an inductive invariant.
THEOREM InductiveInvariant == Spec => []IInv
<1>1. Init => IInv
  <2> SUFFICES ASSUME Init
               PROVE  IInv
    OBVIOUS
  <2> USE DEF Init, IoInit, CsqInit
  <2>1. TypeOK
    BY InitType
  <2>2. NoDuplicates /\ ToSet(queue) = {}
    BY DEF NoDuplicates, ToSet
  <2>3. ReadLife
    BY <2>2 DEF ReadLife, Mode, Unissued, Private, Uncalled, Waiting, CleanedUp
  <2>4. LockHolder /\ CleanupsApart /\ ThreadPolls
    BY DEF LockHolder, CleanupsApart, ThreadPolls
  <2>5. StoppedUnused
    BY Zenon DEF StoppedUnused
  <2>6. HandleInUse /\ FileContextAlive /\ CleanupLeavesOnlyCalled
    BY DEF HandleInUse, Outstanding, FileContextAlive, CleanupLeavesOnlyCalled
  <2>7. NoLostWakeup
    <3>1. Cancellable = {} /\ Signallers = {}
      BY DEF Cancellable, Signallers
    <3> QED
      BY <3>1, FS_EmptySet DEF NoLostWakeup, Wakeups
  <2> QED
    BY <2>1, <2>2, <2>3, <2>4, <2>5, <2>6, <2>7 DEF IInv
<1>2. IInv /\ [Next]_vars => IInv'
  <2> SUFFICES ASSUME IInv, [Next]_vars
               PROVE  IInv'
    OBVIOUS
  <2> USE DEF IInv
  <2>1. ReadLife'
    BY ModeStep DEF ReadLife
  <2> QED
    BY <2>1, TypeStep, QueueStep, LockStep, CleanupStep, ThreadStep,
       HandleStep, CleanupOverStep, WakeupStep
<1> QED
  BY <1>1, <1>2, PTL DEF Spec

\* There are never fewer wakeups for the polling thread than reads that only
\* it will serve, however many reads were cancelled or cleaned up meanwhile.
THEOREM WakeupNotLost == Spec => []NoLostWakeup
BY InductiveInvariant, PTL DEF IInv

LEMMA CompletionInvariant == IInv => CompletedOnce
BY DEF IInv, CompletedOnce, ReadLife, Mode, Unissued, Dispatched, Queued,
   Answering, Taken, Completed

\* An IRP is completed at most once: by its reader, by the polling thread, by
\* its cancel routine or by cleanup.
THEOREM Completion == Spec => []CompletedOnce
BY CompletionInvariant, InductiveInvariant, PTL

\* The FileRundownLock that a reader releases is still there.
THEOREM HandleSafety == Spec => []FileContextAlive
BY InductiveInvariant, PTL DEF IInv

(***************************************************************************)
(* The contract: every step of CancelSafe is, seen through handle and      *)
(* phase, a step of IrpContract or none.                                   *)
(***************************************************************************)

LEMMA PhaseChange ==
  ASSUME NEW r \in Reqs, NEW to, PhaseOf(r)' = to,
         \A q \in Reqs : q # r => PhaseOf(q)' = PhaseOf(q)
  PROVE  phase' = [phase EXCEPT ![r] = to] /\ phase'[r] = to
BY DEF phase

LEMMA PhaseStutter ==
  ASSUME \A q \in Reqs : PhaseOf(q)' = PhaseOf(q)
  PROVE  phase' = phase
BY DEF phase

\* A read whose completion is now under way
LEMMA PhaseCommit ==
  ASSUME NEW r \in Reqs, phase[r] \in {"issued", "queued"},
         phase' = [phase EXCEPT ![r] = "committed"],
         handle' = handle, device' = device, irpFile' = irpFile
  PROVE  Contract!Next
<1>1. phase' = [q \in Reqs |-> IF q \in {r} THEN "committed" ELSE phase[q]]
  BY DEF phase
<1>2. Contract!Commit({r})
  BY <1>1 DEF Contract!Commit
<1>3. {r} \in SUBSET Reqs
  OBVIOUS
<1> QED
  BY <1>2, <1>3 DEF Contract!Next

\* Every step of the driver is one of the contract's or none.
LEMMA ContractStep ==
  ASSUME IInv, [Next]_vars
  PROVE  [Contract!Next]_(Contract!vars)
<1> USE DEF TypeOK, IoTypeOK, CsqTypeOK, vars, ioVars, irpVars, cancelVars,
            csqVars, threadVars, SetPC, SetCancelRoutine, IoCompleteRequest,
            Contract!vars, Contract!Step
<1>0. /\ TypeOK /\ NoDuplicates /\ ReadLife /\ LockHolder /\ ThreadPolls
      /\ StoppedUnused /\ HandleInUse /\ FileContextAlive
      /\ CleanupLeavesOnlyCalled /\ CompletedOnce
  BY CompletionInvariant DEF IInv
<1>1. ASSUME NEW r \in Reqs, NEW f \in Files, Issue(r, f)
      PROVE  [Contract!Next]_(Contract!vars)
  <2>1. PhaseOf(r) = "none" /\ PhaseOf(r)' = "issued"
    BY <1>0, <1>1 DEF PhaseOf, ReadLife, Mode, Unissued, Dispatched,
       Queued, Answering, Taken, Completed, Private, Uncalled, Issue,
       IssueIrp
  <2>2. \A q \in Reqs : q # r => PhaseOf(q)' = PhaseOf(q)
    BY <1>0, <1>1 DEF PhaseOf, Issue, IssueIrp
  <2>3. phase' = [phase EXCEPT ![r] = "issued"] /\ phase[r] = "none"
    BY <2>1, <2>2, PhaseChange DEF phase
  <2>4. handle[f] = "open" /\ handle' = handle
    BY <1>1 DEF handle, Issue, IssueIrp
  <2>5. device' = device /\ irpFile' = [irpFile EXCEPT ![r] = f]
    BY <1>1 DEF Issue, IssueIrp
  <2> QED
    BY <2>3, <2>4, <2>5 DEF Contract!Next, Contract!Issue
<1>2. ASSUME NEW r \in Reqs, Read(r)
      PROVE  [Contract!Next]_(Contract!vars)
  <2>1. CASE ReadEnter(r)
    <3>1. \A q \in Reqs : PhaseOf(q)' = PhaseOf(q)
      BY <1>0, <2>1 DEF PhaseOf, ReadLife, Mode, Unissued, Dispatched,
         Queued, Answering, Taken, Completed, Private, Uncalled,
         ReadEnter, IoAcquireRemoveLock
    <3>2. handle' = handle /\ device' = device /\ irpFile' = irpFile
      BY <1>0, <2>1 DEF handle, ReadEnter, IoAcquireRemoveLock
    <3> QED
      BY <3>1, <3>2, PhaseStutter
  <2>2. CASE ReadRefused(r)
    <3>1. /\ completions[r] = 0
          /\ pc[r] \notin {"idle", "signal", "release", "done"}
      BY <1>0, <2>2 DEF ReadRefused, ReadLife, Mode, Unissued,
         Dispatched, Queued, Answering, Taken, Completed, Private,
         Uncalled
    <3>2. PhaseOf(r) = "issued" /\ PhaseOf(r)' = "completed"
      BY <1>0, <2>2, <3>1 DEF PhaseOf, ReadRefused
    <3>3. \A q \in Reqs : q # r => PhaseOf(q)' = PhaseOf(q)
      BY <1>0, <2>2 DEF PhaseOf, ReadRefused
    <3>4. phase' = [phase EXCEPT ![r] = "completed"] /\ phase[r] = "issued"
      BY <3>2, <3>3, PhaseChange DEF phase
    <3>5. handle' = handle /\ device' = device /\ irpFile' = irpFile
      BY <2>2 DEF handle, ReadRefused
    <3> QED
      BY <3>4, <3>5 DEF Contract!Next, Contract!Answer
  <2>3. CASE ReadTooSmall(r)
    <3>1. \A q \in Reqs : PhaseOf(q)' = PhaseOf(q)
      BY <1>0, <2>3 DEF PhaseOf, ReadTooSmall
    <3>2. handle' = handle /\ device' = device /\ irpFile' = irpFile
      BY <1>0, <2>3 DEF handle, ReadTooSmall
    <3> QED
      BY <3>1, <3>2, PhaseStutter
  <2>4. CASE ReadTooSmallComplete(r)
    <3>1. /\ completions[r] = 0
          /\ pc[r] \notin {"idle", "signal", "release", "done"}
      BY <1>0, <2>4 DEF ReadTooSmallComplete, ReadLife, Mode, Unissued,
         Dispatched, Queued, Answering, Taken, Completed, Private,
         Uncalled
    <3>2. PhaseOf(r) = "issued" /\ PhaseOf(r)' = "completed"
      BY <1>0, <2>4, <3>1 DEF PhaseOf, ReadTooSmallComplete
    <3>3. \A q \in Reqs : q # r => PhaseOf(q)' = PhaseOf(q)
      BY <1>0, <2>4 DEF PhaseOf, ReadTooSmallComplete
    <3>4. phase' = [phase EXCEPT ![r] = "completed"] /\ phase[r] = "issued"
      BY <3>2, <3>3, PhaseChange DEF phase
    <3>5. handle' = handle /\ device' = device /\ irpFile' = irpFile
      BY <2>4 DEF handle, ReadTooSmallComplete
    <3> QED
      BY <3>4, <3>5 DEF Contract!Next, Contract!Answer
  <2>5. CASE ReadInsert(r)
    <3>1. \A q \in Reqs : PhaseOf(q)' = PhaseOf(q)
      BY <1>0, <2>5 DEF PhaseOf, ReadLife, Mode, Unissued, Dispatched,
         Queued, Answering, Taken, Completed, Private, Uncalled,
         ReadInsert, LockFree
    <3>2. handle' = handle /\ device' = device /\ irpFile' = irpFile
      BY <1>0, <2>5 DEF handle, ReadInsert, LockFree
    <3> QED
      BY <3>1, <3>2, PhaseStutter
  <2>6. CASE ReadInsertCancelled(r)
    <3>1. \A q \in Reqs : PhaseOf(q)' = PhaseOf(q)
      BY <1>0, <2>6 DEF PhaseOf, ReadLife, Mode, Unissued, Dispatched,
         Queued, Answering, Taken, Completed, Private, Uncalled,
         ReadInsertCancelled, InsertCancelled, CsqUnlink
    <3>2. handle' = handle /\ device' = device /\ irpFile' = irpFile
      BY <1>0, <2>6 DEF handle, ReadInsertCancelled, InsertCancelled,
         CsqUnlink
    <3> QED
      BY <3>1, <3>2, PhaseStutter
  <2>7. CASE ReadInserted(r)
    <3>1. CASE cancelRoutine[r]
      <4>1. /\ completions[r] = 0
            /\ pc[r] \notin {"idle", "signal", "release", "done"}
        BY <1>0, <2>7, <3>1 DEF ReadInserted, InsertCancelled,
           ReadLife, Mode, Unissued, Dispatched, Queued, Answering,
           Taken, Completed, Private, Uncalled
      <4>2. PhaseOf(r) = "issued" /\ PhaseOf(r)' = "queued"
        BY <1>0, <2>7, <3>1, <4>1 DEF PhaseOf, ReadInserted,
           InsertCancelled
      <4>3. \A q \in Reqs : q # r => PhaseOf(q)' = PhaseOf(q)
        BY <1>0, <2>7, <3>1 DEF PhaseOf, ReadInserted, InsertCancelled
      <4>4. phase' = [phase EXCEPT ![r] = "queued"] /\ phase[r] = "issued"
        BY <4>2, <4>3, PhaseChange DEF phase
      <4>5. handle' = handle /\ device' = device /\ irpFile' = irpFile
        BY <2>7 DEF handle, ReadInserted, InsertCancelled
      <4>6. handle[irpFile[r]] \in {"open", "cleanup"}
        BY <1>0, <2>7 DEF handle, HandleInUse, FileContextAlive,
           ReadLife, Mode, Unissued, Dispatched, Queued, Answering,
           Taken, Completed, Private, Uncalled, ReadInserted
      <4> QED
        BY <4>4, <4>5, <4>6 DEF Contract!Next, Contract!Queue
    <3>2. CASE ~ cancelRoutine[r]
      <4>1. /\ completions[r] = 0
            /\ pc[r] \notin {"idle", "signal", "release", "done"}
            /\ ~ cancelRoutine[r]
        BY <1>0, <2>7, <3>2 DEF ReadInserted, InsertCancelled,
           ReadLife, Mode, Unissued, Dispatched, Queued, Answering,
           Taken, Completed, Private, Uncalled
      <4>2. PhaseOf(r) = "issued" /\ PhaseOf(r)' = "committed"
        BY <1>0, <2>7, <3>2, <4>1 DEF PhaseOf, ReadInserted,
           InsertCancelled
      <4>3. \A q \in Reqs : q # r => PhaseOf(q)' = PhaseOf(q)
        BY <1>0, <2>7, <3>2 DEF PhaseOf, ReadInserted, InsertCancelled
      <4>4. phase' = [phase EXCEPT ![r] = "committed"] /\ phase[r] = "issued"
        BY <4>2, <4>3, PhaseChange DEF phase
      <4>5. handle' = handle /\ device' = device /\ irpFile' = irpFile
        BY <2>7 DEF handle, ReadInserted, InsertCancelled
      <4> QED
        BY <4>4, <4>5, PhaseCommit
    <3> QED
      BY <3>1, <3>2
  <2>8. CASE ReadCompleteCancelled(r)
    <3>1. /\ completions[r] = 0
          /\ pc[r] \notin {"idle", "signal", "release", "done"}
      BY <1>0, <2>8 DEF ReadCompleteCancelled, ReadLife, Mode, Unissued,
         Dispatched, Queued, Answering, Taken, Completed, Private,
         Uncalled
    <3>2. PhaseOf(r) = "issued" /\ PhaseOf(r)' = "completed"
      BY <1>0, <2>8, <3>1 DEF PhaseOf, ReadCompleteCancelled
    <3>3. \A q \in Reqs : q # r => PhaseOf(q)' = PhaseOf(q)
      BY <1>0, <2>8 DEF PhaseOf, ReadCompleteCancelled
    <3>4. phase' = [phase EXCEPT ![r] = "completed"] /\ phase[r] = "issued"
      BY <3>2, <3>3, PhaseChange DEF phase
    <3>5. handle' = handle /\ device' = device /\ irpFile' = irpFile
      BY <2>8 DEF handle, ReadCompleteCancelled
    <3> QED
      BY <3>4, <3>5 DEF Contract!Next, Contract!Answer
  <2>9. CASE ReadSignal(r)
    <3>1. \A q \in Reqs : PhaseOf(q)' = PhaseOf(q)
      BY <1>0, <2>9 DEF PhaseOf, ReadSignal, Signal
    <3>2. handle' = handle /\ device' = device /\ irpFile' = irpFile
      BY <1>0, <2>9 DEF handle, ReadSignal, Signal
    <3> QED
      BY <3>1, <3>2, PhaseStutter
  <2>10. CASE ReadRelease(r)
    <3>1. \A q \in Reqs : PhaseOf(q)' = PhaseOf(q)
      BY <1>0, <2>10 DEF PhaseOf, ReadLife, Mode, Unissued, Dispatched,
         Queued, Answering, Taken, Completed, Private, Uncalled,
         ReadRelease, IoReleaseRemoveLock
    <3>2. handle' = handle /\ device' = device /\ irpFile' = irpFile
      BY <1>0, <2>10 DEF handle, ReadRelease, IoReleaseRemoveLock
    <3> QED
      BY <3>1, <3>2, PhaseStutter
  <2> QED
    BY <1>2, <2>1, <2>2, <2>3, <2>4, <2>5, <2>6, <2>7, <2>8, <2>9, <2>10
       DEF Read
<1>3. CASE CsampPollingThread
  <2>1. CASE ThreadWake
    <3>1. \A q \in Reqs : PhaseOf(q)' = PhaseOf(q)
      BY <1>0, <2>1 DEF PhaseOf, ThreadWake
    <3>2. handle' = handle /\ device' = device /\ irpFile' = irpFile
      BY <1>0, <2>1 DEF handle, ThreadWake
    <3> QED
      BY <3>1, <3>2, PhaseStutter
  <2>2. CASE ThreadCheckStop
    <3>1. \A q \in Reqs : PhaseOf(q)' = PhaseOf(q)
      BY <1>0, <2>2 DEF PhaseOf, ThreadCheckStop
    <3>2. handle' = handle /\ device' = device /\ irpFile' = irpFile
      BY <1>0, <2>2 DEF handle, ThreadCheckStop
    <3> QED
      BY <3>1, <3>2, PhaseStutter
  <2>3. CASE ThreadTake
    <3>1. PICK i \in DOMAIN queue :
             /\ cancelRoutine[queue[i]]
             /\ queueLock = NoReq
             /\ queue' = RemoveAt(queue, i)
             /\ cancelRoutine' = [cancelRoutine EXCEPT ![queue[i]] = FALSE]
      BY <2>3 DEF ThreadTake, IsNext, TakesIrp, CsqTake, LockFree
    <3>2. PICK t \in Reqs :
             /\ t \in ToSet(queue)
             /\ cancelRoutine[t]
             /\ cancelRoutine' = [cancelRoutine EXCEPT ![t] = FALSE]
      BY <1>0, <3>1, UnlinkFacts
    <3>3. completions' = completions /\ pc' = pc /\ queueLock = NoReq
      BY <2>3, <3>1 DEF ThreadTake
    <3> QED
      <4>1. /\ completions[t] = 0
            /\ pc[t] \in {"signal", "release", "done"}
            /\ cancelRoutine[t]
        BY <1>0, <3>2, <3>3 DEF ReadLife, Mode, Unissued,
           Dispatched, Queued, Answering, Taken, Completed, Private,
           Uncalled, Waiting, LockHolder
      <4>2. PhaseOf(t) = "queued" /\ PhaseOf(t)' = "committed"
        BY <1>0, <3>2, <3>3, <4>1 DEF PhaseOf
      <4>3. \A q \in Reqs : q # t => PhaseOf(q)' = PhaseOf(q)
        BY <1>0, <3>2, <3>3 DEF PhaseOf
      <4>4. phase' = [phase EXCEPT ![t] = "committed"] /\ phase[t] = "queued"
        BY <4>2, <4>3, PhaseChange DEF phase
      <4>5. handle' = handle /\ device' = device /\ irpFile' = irpFile
        BY <2>3 DEF handle, ThreadTake, CsqTake,
           LockFree
      <4> QED
        BY <4>4, <4>5, PhaseCommit
  <2>4. CASE ThreadFindsNone
    <3>1. \A q \in Reqs : PhaseOf(q)' = PhaseOf(q)
      BY <1>0, <2>4 DEF PhaseOf, ThreadFindsNone, LockFree
    <3>2. handle' = handle /\ device' = device /\ irpFile' = irpFile
      BY <1>0, <2>4 DEF handle, ThreadFindsNone, LockFree
    <3> QED
      BY <3>1, <3>2, PhaseStutter
  <2>5. CASE ThreadPoll
    <3>1. \A q \in Reqs : PhaseOf(q)' = PhaseOf(q)
      BY <1>0, <2>5 DEF PhaseOf, ThreadPoll, NotReady
    <3>2. handle' = handle /\ device' = device /\ irpFile' = irpFile
      BY <1>0, <2>5 DEF handle, ThreadPoll, NotReady
    <3> QED
      BY <3>1, <3>2, PhaseStutter
  <2>6. CASE ThreadComplete
    <3>1. PICK t \in Reqs : t = current
      BY <1>0, <2>6 DEF ThreadComplete, NotReady, ThreadPolls
    <3> QED
      <4>1. /\ completions[t] = 0
            /\ pc[t] \in {"signal", "release", "done"}
            /\ ~ cancelRoutine[t]
        BY <1>0, <2>6, <3>1 DEF ThreadComplete, NotReady, ReadLife,
           Mode, Unissued, Dispatched, Queued, Answering, Taken,
           Completed, Private, Uncalled
      <4>2. PhaseOf(t) = "committed" /\ PhaseOf(t)' = "completed"
        BY <1>0, <2>6, <3>1, <4>1 DEF PhaseOf, ThreadComplete,
           NotReady
      <4>3. \A q \in Reqs : q # t => PhaseOf(q)' = PhaseOf(q)
        BY <1>0, <2>6, <3>1 DEF PhaseOf, ThreadComplete, NotReady
      <4>4. /\ phase' = [phase EXCEPT ![t] = "completed"]
            /\ phase[t] = "committed"
        BY <4>2, <4>3, PhaseChange DEF phase
      <4>5. handle' = handle /\ device' = device /\ irpFile' = irpFile
        BY <2>6 DEF handle, ThreadComplete, NotReady
      <4> QED
        BY <4>4, <4>5 DEF Contract!Next, Contract!Complete
  <2> QED
    BY <1>3, <2>1, <2>2, <2>3, <2>4, <2>5, <2>6 DEF CsampPollingThread
<1>4. ASSUME NEW r \in Reqs, CancelStep(r)
      PROVE  [Contract!Next]_(Contract!vars)
  <2>1. CASE CallCancelRoutine(r)
    <3>1. CASE cancelRoutine[r] /\ pc[r] # "check"
      <4>1. /\ completions[r] = 0
            /\ pc[r] \in {"signal", "release", "done"}
            /\ cancelRoutine[r]
        BY <1>0, <2>1, <3>1 DEF CallCancelRoutine,
           IoCallCancelRoutine, ReadLife, Mode, Unissued, Dispatched,
           Queued, Answering, Taken, Completed, Private, Uncalled
      <4>2. PhaseOf(r) = "queued" /\ PhaseOf(r)' = "committed"
        BY <1>0, <2>1, <3>1, <4>1 DEF PhaseOf, CallCancelRoutine,
           IoCallCancelRoutine
      <4>3. \A q \in Reqs : q # r => PhaseOf(q)' = PhaseOf(q)
        BY <1>0, <2>1, <3>1 DEF PhaseOf, CallCancelRoutine,
           IoCallCancelRoutine
      <4>4. phase' = [phase EXCEPT ![r] = "committed"] /\ phase[r] = "queued"
        BY <4>2, <4>3, PhaseChange DEF phase
      <4>5. handle' = handle /\ device' = device /\ irpFile' = irpFile
        BY <2>1 DEF handle, CallCancelRoutine, IoCallCancelRoutine
      <4> QED
        BY <4>4, <4>5, PhaseCommit
    <3>2. CASE ~ (cancelRoutine[r] /\ pc[r] # "check")
      <4>1. \A q \in Reqs : PhaseOf(q)' = PhaseOf(q)
        BY <1>0, <2>1, <3>2 DEF PhaseOf, ReadLife, Mode, Unissued,
           Dispatched, Queued, Answering, Taken, Completed, Private,
           Uncalled, CallCancelRoutine, IoCallCancelRoutine
      <4>2. handle' = handle /\ device' = device /\ irpFile' = irpFile
        BY <2>1 DEF handle, CallCancelRoutine, IoCallCancelRoutine
      <4> QED
        BY <4>1, <4>2, PhaseStutter
    <3> QED
      BY <3>1, <3>2
  <2>2. CASE CancelUnlink(r)
    <3>1. \A q \in Reqs : PhaseOf(q)' = PhaseOf(q)
      BY <1>0, <2>2 DEF PhaseOf, ReadLife, Mode, Unissued, Dispatched,
         Queued, Answering, Taken, Completed, Private, Uncalled,
         CancelUnlink, CsqCancelRoutine, CsqUnlink, LockFree
    <3>2. handle' = handle /\ device' = device /\ irpFile' = irpFile
      BY <1>0, <2>2 DEF handle, CancelUnlink, CsqCancelRoutine,
         CsqUnlink, LockFree
    <3> QED
      BY <3>1, <3>2, PhaseStutter
  <2>3. CASE CancelComplete(r)
    <3>1. /\ completions[r] = 0
          /\ pc[r] \in {"signal", "release", "done"}
          /\ ~ cancelRoutine[r]
      BY <1>0, <2>3 DEF CancelComplete, CsqCompleteCanceledIrp,
         ReadLife, Mode, Unissued, Dispatched, Queued, Answering, Taken,
         Completed, Private, Uncalled
    <3>2. PhaseOf(r) = "committed" /\ PhaseOf(r)' = "completed"
      BY <1>0, <2>3, <3>1 DEF PhaseOf, CancelComplete,
         CsqCompleteCanceledIrp
    <3>3. \A q \in Reqs : q # r => PhaseOf(q)' = PhaseOf(q)
      BY <1>0, <2>3 DEF PhaseOf, CancelComplete, CsqCompleteCanceledIrp
    <3>4. phase' = [phase EXCEPT ![r] = "completed"] /\ phase[r] = "committed"
      BY <3>2, <3>3, PhaseChange DEF phase
    <3>5. handle' = handle /\ device' = device /\ irpFile' = irpFile
      BY <2>3 DEF handle, CancelComplete, CsqCompleteCanceledIrp
    <3> QED
      BY <3>4, <3>5 DEF Contract!Next, Contract!Complete
  <2> QED
    BY <1>4, <2>1, <2>2, <2>3 DEF CancelStep
<1>5. ASSUME NEW f \in Files, Cleanup(f)
      PROVE  [Contract!Next]_(Contract!vars)
  <2>1. CASE CleanupDrain(f)
    <3>1. \A q \in Reqs : PhaseOf(q)' = PhaseOf(q)
      BY <1>0, <2>1 DEF PhaseOf, CleanupDrain, RundownOver
    <3>2. handle' = handle /\ device' = device /\ irpFile' = irpFile
      BY <1>0, <2>1 DEF handle, CleanupDrain, RundownOver
    <3> QED
      BY <3>1, <3>2, PhaseStutter
  <2>2. CASE CleanupTake(f)
    <3>1. PICK i \in DOMAIN queue :
             /\ cancelRoutine[queue[i]]
             /\ queueLock = NoReq
             /\ queue' = RemoveAt(queue, i)
             /\ cancelRoutine' = [cancelRoutine EXCEPT ![queue[i]] = FALSE]
      BY <2>2 DEF CleanupTake, IsNext, TakesIrp, CsqTake, LockFree
    <3>2. PICK t \in Reqs :
             /\ t \in ToSet(queue)
             /\ cancelRoutine[t]
             /\ cancelRoutine' = [cancelRoutine EXCEPT ![t] = FALSE]
      BY <1>0, <3>1, UnlinkFacts
    <3>3. completions' = completions /\ pc' = pc /\ queueLock = NoReq
      BY <2>2, <3>1 DEF CleanupTake
    <3> QED
      <4>1. /\ completions[t] = 0
            /\ pc[t] \in {"signal", "release", "done"}
            /\ cancelRoutine[t]
        BY <1>0, <3>2, <3>3 DEF ReadLife, Mode, Unissued,
           Dispatched, Queued, Answering, Taken, Completed, Private,
           Uncalled, Waiting, LockHolder
      <4>2. PhaseOf(t) = "queued" /\ PhaseOf(t)' = "committed"
        BY <1>0, <3>2, <3>3, <4>1 DEF PhaseOf
      <4>3. \A q \in Reqs : q # t => PhaseOf(q)' = PhaseOf(q)
        BY <1>0, <3>2, <3>3 DEF PhaseOf
      <4>4. phase' = [phase EXCEPT ![t] = "committed"] /\ phase[t] = "queued"
        BY <4>2, <4>3, PhaseChange DEF phase
      <4>5. handle' = handle /\ device' = device /\ irpFile' = irpFile
        BY <2>2 DEF handle, CleanupTake, CsqTake,
           LockFree
      <4> QED
        BY <4>4, <4>5, PhaseCommit
  <2>3. CASE CleanupComplete(f)
    <3>1. PICK t \in Reqs : t = cleanupIrp[f] /\ CleanedUp(t)
      BY <1>0, <2>3 DEF CleanupComplete, CleanedUp
    <3> QED
      <4>1. /\ completions[t] = 0
            /\ pc[t] \in {"signal", "release", "done"}
            /\ ~ cancelRoutine[t]
        BY <1>0, <2>3, <3>1 DEF CleanupComplete, ReadLife, Mode,
           Unissued, Dispatched, Queued, Answering, Taken, Completed,
           Private, Uncalled
      <4>2. PhaseOf(t) = "committed" /\ PhaseOf(t)' = "completed"
        BY <1>0, <2>3, <3>1, <4>1 DEF PhaseOf, CleanupComplete
      <4>3. \A q \in Reqs : q # t => PhaseOf(q)' = PhaseOf(q)
        BY <1>0, <2>3, <3>1 DEF PhaseOf, CleanupComplete
      <4>4. /\ phase' = [phase EXCEPT ![t] = "completed"]
            /\ phase[t] = "committed"
        BY <4>2, <4>3, PhaseChange DEF phase
      <4>5. handle' = handle /\ device' = device /\ irpFile' = irpFile
        BY <2>3 DEF handle, CleanupComplete
      <4> QED
        BY <4>4, <4>5 DEF Contract!Next, Contract!Complete
  <2>4. CASE CleanupEnd(f)
    <3>1. phase' = phase /\ irpFile' = irpFile /\ device' = device
      BY <2>4 DEF phase, PhaseOf, CleanupEnd, LockFree
    <3>2. handle[f] = "cleanup" /\ handle' = [handle EXCEPT ![f] = "cleaned"]
      BY <1>0, <2>4 DEF handle, CleanupEnd, LockFree
    <3>3. \A r \in Reqs : irpFile[r] = f /\ r \in ToSet(queue) =>
            ~ cancelRoutine[r]
      BY <1>0, <2>4 DEF CleanupNone, NoneLeft, CleanupScope, OfFile,
         TakesIrp, ToSet, CleanupEnd
    <3>4. \A r \in Reqs : irpFile[r] = f => phase[r] # "queued"
      BY <1>0, <3>3 DEF phase, PhaseOf, Waiting, ReadLife, Mode,
         Unissued, Dispatched, Queued, Answering, Taken, Completed,
         Private, Uncalled
    <3> QED
      BY <3>1, <3>2, <3>4 DEF Contract!Next, Contract!EndCleanup
  <2> QED
    BY <1>5, <2>1, <2>2, <2>3, <2>4 DEF Cleanup
<1>6. ASSUME NEW r \in Reqs, Cancel(r)
      PROVE  [Contract!Next]_(Contract!vars)
  <2>1. \A q \in Reqs : PhaseOf(q)' = PhaseOf(q)
    BY <1>0, <1>6 DEF PhaseOf, Cancel, IoCancelIrp, Outstanding
  <2>2. handle' = handle /\ device' = device /\ irpFile' = irpFile
    BY <1>0, <1>6 DEF handle, Cancel, IoCancelIrp, Outstanding
  <2> QED
    BY <2>1, <2>2, PhaseStutter
<1>7. ASSUME NEW f \in Files, Create(f)
      PROVE  [Contract!Next]_(Contract!vars)
  <2>1. phase' = phase /\ irpFile' = irpFile /\ device' = device
    BY <1>7 DEF phase, PhaseOf, Create, IoCreateFile
  <2>2. handle[f] = "none" /\ handle' = [handle EXCEPT ![f] = "open"]
    BY <1>0, <1>7 DEF handle, Create, IoCreateFile
  <2>3. device = "live"
    BY <1>7 DEF Create, IoCreateFile
  <2> QED
    BY <2>1, <2>2, <2>3 DEF Contract!Next, Contract!Open
<1>8. ASSUME NEW f \in Files, CleanupStart(f)
      PROVE  [Contract!Next]_(Contract!vars)
  <2>1. phase' = phase /\ irpFile' = irpFile /\ device' = device
    BY <1>8 DEF phase, PhaseOf, CleanupStart, IoCloseHandle
  <2>2. handle[f] = "open" /\ handle' = [handle EXCEPT ![f] = "cleanup"]
    BY <1>0, <1>8 DEF handle, CleanupStart, IoCloseHandle
  <2> QED
    BY <2>1, <2>2 DEF Contract!Next, Contract!BeginCleanup
<1>9. ASSUME NEW f \in Files, Close(f)
      PROVE  [Contract!Next]_(Contract!vars)
  <2>1. phase' = phase /\ irpFile' = irpFile /\ device' = device
    BY <1>9 DEF phase, PhaseOf, Close, IoCloseFile
  <2>2. handle[f] = "cleaned" /\ handle' = [handle EXCEPT ![f] = "closed"]
    BY <1>0, <1>9 DEF handle, Close, IoCloseFile
  <2>3. \A r \in Reqs : irpFile[r] = f => phase[r] = "completed"
    BY <1>0, <1>9 DEF phase, PhaseOf, CompletedOnce, Close, IoCloseFile
  <2> QED
    BY <2>1, <2>2, <2>3 DEF Contract!Next, Contract!Close
<1>10. CASE UnloadStop
  <2>1. \A q \in Reqs : PhaseOf(q)' = PhaseOf(q)
    BY <1>0, <1>10 DEF PhaseOf, UnloadStop, NoOpenFiles, Signal
  <2>2. handle' = handle /\ device' = device /\ irpFile' = irpFile
    BY <1>0, <1>10 DEF handle, UnloadStop, NoOpenFiles, Signal
  <2> QED
    BY <2>1, <2>2, PhaseStutter
<1>11. CASE UnloadDelete
  <2>1. phase' = phase /\ irpFile' = irpFile /\ handle' = handle
    BY <1>11 DEF phase, PhaseOf, handle, UnloadDelete, ThreadJoined
  <2>2. \A f \in Files : handle[f] \in {"none", "closed"}
    BY <1>0, <1>11 DEF handle, StoppedUnused, NoOpenFiles, UnloadDelete,
       ThreadJoined
  <2> QED
    BY <1>11, <2>1, <2>2 DEF UnloadDelete, Contract!Next, Contract!Unload
<1>12. CASE UNCHANGED vars
  BY <1>12 DEF phase, PhaseOf, handle
<1> QED
  BY <1>1, <1>2, <1>3, <1>4, <1>5, <1>6, <1>7, <1>8, <1>9, <1>10, <1>11,
     <1>12 DEF Next, Terminated

\* The driver keeps the contract of a driver that queues requests: one
\* completion for each, and none left idle in the queue by cleanup.
THEOREM ContractKept == Spec => KeepsContract
<1>1. Init => Contract!Init
  BY DEF Init, IoInit, Contract!Init, handle, phase, PhaseOf
<1>2. IInv /\ [Next]_vars => [Contract!Next]_(Contract!vars)
  BY ContractStep
<1> QED
  BY <1>1, <1>2, InductiveInvariant, PTL DEF Spec, KeepsContract, Contract!Spec
==============================================================================
