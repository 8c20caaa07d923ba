----------------------------- MODULE CancelSafe ------------------------------
(***************************************************************************)
(* general/cancel/sys/cancel.c: reads wait in a cancel-safe queue for a    *)
(* polling thread, which a semaphore wakes once for every read queued.     *)
(* Each read is polled until the device has data.                          *)
(*                                                                         *)
(* The readers, the thread, the cancel routine, the cleanup of a handle    *)
(* and unload interleave freely; what the callbacks do under QueueLock is  *)
(* one action, except in IoCsqInsertIrp, which cancellation interleaves.   *)
(***************************************************************************)
EXTENDS IoCsq

CONSTANT MaxData    \* how often a poll may find the device not ready

ASSUME CancelSafeAssumption == MaxData \in Nat /\ IsFiniteSet(Reqs)

VARIABLES
  pc,           \* where the thread that dispatches the read stands
  data,         \* INPUT_DATA.Data in the read's buffer
  semaphore,    \* DEVICE_EXTENSION.IrpQueueSemaphore
  stop,         \* DEVICE_EXTENSION.ThreadShouldStop
  thread,       \* where the polling thread stands
  current,      \* the IRP it polls for
  cleanupIrp    \* the IRP that each handle's cleanup has to complete

threadVars == <<thread, current>>
vars == <<ioVars, csqVars, pc, data, semaphore, stop, threadVars, cleanupIrp>>

PCs == {"idle", "enter", "small", "insert", "check", "cancelled", "signal",
        "release", "done"}

ThreadStates == {"wait", "woken", "remove", "poll", "terminated"}

TypeOK ==
  /\ IoTypeOK
  /\ CsqTypeOK
  /\ pc \in [Reqs -> PCs]
  /\ data \in [Reqs -> 0 .. MaxData]
  /\ semaphore \in Nat
  /\ stop \in BOOLEAN
  /\ thread \in ThreadStates
  /\ current \in Reqs \cup {NoReq}
  /\ cleanupIrp \in [Files -> Reqs \cup {NoReq}]

Init ==
  /\ IoInit
  /\ CsqInit
  /\ pc = [r \in Reqs |-> "idle"]
  /\ data = [r \in Reqs |-> 0]
  /\ semaphore = 0
  /\ stop = FALSE
  /\ thread = "wait"
  /\ current = NoReq
  /\ cleanupIrp = [f \in Files |-> NoReq]

SetPC(r, from, to) ==
  /\ pc[r] = from
  /\ pc' = [pc EXCEPT ![r] = to]

\* Mutant: a synchronization event in place of the semaphore.
SignalEvent == semaphore' = 1

\* KeReleaseSemaphore(&IrpQueueSemaphore, 0, 1, ...)
Signal == semaphore' = semaphore + 1

(***************************************************************************)
(* CsampRead                                                               *)
(***************************************************************************)

Issue(r, f) ==
  /\ IssueIrp(r, f)
  /\ SetPC(r, "idle", "enter")
  /\ UNCHANGED <<csqVars, data, semaphore, stop, threadVars, cleanupIrp>>

\* The lock is acquired, the buffer large enough: it is preset to a number
\* that depends on the time.
ReadEnter(r) ==
  /\ SetPC(r, "enter", "insert")
  /\ IoAcquireRemoveLock(r)
  /\ \E d \in 0 .. MaxData : data' = [data EXCEPT ![r] = d]
  /\ UNCHANGED <<device, file, irpVars, cancelVars, csqVars, semaphore, stop,
                 threadVars, cleanupIrp>>

ReadRefused(r) ==
  /\ SetPC(r, "enter", "done")
  /\ LockRemoved(irpFile[r])
  /\ IoCompleteRequest(r, "DELETE_PENDING")
  /\ UNCHANGED <<device, file, rundown, cancelVars, csqVars, data, semaphore,
                 stop, threadVars, cleanupIrp>>

\* The buffer is too small: the lock is acquired, and released before the
\* IRP is completed.
ReadTooSmall(r) ==
  /\ SetPC(r, "enter", "small")
  /\ ~ LockRemoved(irpFile[r])
  /\ UNCHANGED <<ioVars, csqVars, data, semaphore, stop, threadVars,
                 cleanupIrp>>

ReadTooSmallComplete(r) ==
  /\ SetPC(r, "small", "done")
  /\ IoCompleteRequest(r, "INVALID")
  /\ UNCHANGED <<device, file, rundown, cancelVars, csqVars, data, semaphore,
                 stop, threadVars, cleanupIrp>>

\* IoCsqInsertIrp: CsampInsertIrp appends, the cancel routine is set ...
ReadInsert(r) ==
  /\ LockFree
  /\ SetPC(r, "insert", "check")
  /\ queueLock' = r
  /\ queue' = Append(queue, r)
  /\ SetCancelRoutine(r, TRUE)
  /\ UNCHANGED <<device, file, rundown, irpVars, cancel, canceller, data,
                 semaphore, stop, threadVars, cleanupIrp>>

\* ... and taken back if the IRP was cancelled before and is still ours.
InsertCancelled(r) == cancel[r] /\ cancelRoutine[r]

ReadInsertCancelled(r) ==
  /\ InsertCancelled(r)
  /\ SetPC(r, "check", "cancelled")
  /\ queueLock' = NoReq
  /\ CsqUnlink(r)
  /\ SetCancelRoutine(r, FALSE)
  /\ UNCHANGED <<device, file, rundown, irpVars, cancel, canceller, data,
                 semaphore, stop, threadVars, cleanupIrp>>

ReadInserted(r) ==
  /\ ~ InsertCancelled(r)
  /\ SetPC(r, "check", "signal")
  /\ queueLock' = NoReq
  /\ UNCHANGED <<ioVars, queue, data, semaphore, stop, threadVars, cleanupIrp>>

\* CsampCompleteCanceledIrp, called from IoCsqInsertIrp
ReadCompleteCancelled(r) ==
  /\ SetPC(r, "cancelled", "signal")
  /\ IoCompleteRequest(r, "CANCELLED")
  /\ UNCHANGED <<device, file, rundown, cancelVars, csqVars, data, semaphore,
                 stop, threadVars, cleanupIrp>>

\* The thread is told of the read, whether or not it is still in the queue.
ReadSignal(r) ==
  /\ SetPC(r, "signal", "release")
  /\ Signal
  /\ UNCHANGED <<ioVars, csqVars, data, stop, threadVars, cleanupIrp>>

ReadRelease(r) ==
  /\ SetPC(r, "release", "done")
  /\ IoReleaseRemoveLock(r)
  /\ UNCHANGED <<device, file, irpVars, cancelVars, csqVars, data, semaphore,
                 stop, threadVars, cleanupIrp>>

(***************************************************************************)
(* CsampPollingThread and CsampPollDevice                                  *)
(***************************************************************************)

ThreadWake ==
  /\ thread = "wait"
  /\ semaphore > 0
  /\ semaphore' = semaphore - 1
  /\ thread' = "woken"
  /\ UNCHANGED <<ioVars, csqVars, pc, data, stop, current, cleanupIrp>>

\* if (ThreadShouldStop) PsTerminateSystemThread
ThreadCheckStop ==
  /\ thread = "woken"
  /\ thread' = IF stop THEN "terminated" ELSE "remove"
  /\ UNCHANGED <<ioVars, csqVars, pc, data, semaphore, stop, current,
                 cleanupIrp>>

ThreadTake ==
  /\ thread = "remove"
  /\ \E i \in DOMAIN queue :
       /\ IsNext(i, Reqs)
       /\ CsqTake(i)
       /\ current' = queue[i]
  /\ thread' = "poll"
  /\ UNCHANGED <<device, file, rundown, irpVars, cancel, canceller, pc, data,
                 semaphore, stop, cleanupIrp>>

\* "Oops, a queued irp got cancelled"
ThreadFindsNone ==
  /\ thread = "remove"
  /\ LockFree
  /\ NoneLeft(Reqs)
  /\ thread' = "wait"
  /\ UNCHANGED <<ioVars, csqVars, pc, data, semaphore, stop, current,
                 cleanupIrp>>

\* Mutant: Data, which is unsigned, is compared with < 0.
NeverReady(d) == TRUE

\* CsampPollDevice: if (pInput->Data-- <= 0) the device is ready.  What Data
\* wraps to then is read by nobody but the application.
NotReady(d) == d > 0

\* CsampPollDevice returns STATUS_PENDING: wait for PollingInterval.
ThreadPoll ==
  /\ thread = "poll"
  /\ NotReady(data[current])
  /\ data' = [data EXCEPT ![current] = @ - 1]
  /\ UNCHANGED <<ioVars, csqVars, pc, semaphore, stop, threadVars, cleanupIrp>>

ThreadComplete ==
  /\ thread = "poll"
  /\ ~ NotReady(data[current])
  /\ thread' = "wait"
  /\ current' = NoReq
  /\ IoCompleteRequest(current, "SUCCESS")
  /\ UNCHANGED <<device, file, rundown, cancelVars, csqVars, pc, data,
                 semaphore, stop, cleanupIrp>>

(***************************************************************************)
(* Cancellation                                                            *)
(***************************************************************************)

Cancel(r) ==
  /\ IoCancelIrp(r)
  /\ UNCHANGED <<csqVars, pc, data, semaphore, stop, threadVars, cleanupIrp>>

CallCancelRoutine(r) ==
  /\ IoCallCancelRoutine(r)
  /\ UNCHANGED <<csqVars, pc, data, semaphore, stop, threadVars, cleanupIrp>>

CancelUnlink(r) ==
  /\ CsqCancelRoutine(r)
  /\ UNCHANGED <<pc, data, semaphore, stop, threadVars, cleanupIrp>>

CancelComplete(r) ==
  /\ CsqCompleteCanceledIrp(r)
  /\ UNCHANGED <<pc, data, semaphore, stop, threadVars, cleanupIrp>>

(***************************************************************************)
(* CsampCreateClose, CsampCleanup and CsampUnload                          *)
(***************************************************************************)

\* The I/O manager opens no file on a device whose driver it is unloading.
Create(f) ==
  /\ ~ stop
  /\ IoCreateFile(f)
  /\ UNCHANGED <<csqVars, pc, data, semaphore, stop, threadVars, cleanupIrp>>

CleanupStart(f) ==
  /\ IoCloseHandle(f)
  /\ UNCHANGED <<csqVars, pc, data, semaphore, stop, threadVars, cleanupIrp>>

\* Mutant: IoReleaseRemoveLock in place of IoReleaseRemoveLockAndWait.
RundownNotAwaited(f) == TRUE

RundownOver(f) == rundown[f] = {}

\* IoReleaseRemoveLockAndWait returns.
CleanupDrain(f) ==
  /\ file[f] = "rundown"
  /\ RundownOver(f)
  /\ file' = [file EXCEPT ![f] = "drain"]
  /\ UNCHANGED <<device, rundown, irpVars, cancelVars, csqVars, pc, data,
                 semaphore, stop, threadVars, cleanupIrp>>

\* IoCsqRemoveNextIrp with the file object as PeekContext
CleanupScope(f) == OfFile(f)

CleanupTake(f) ==
  /\ file[f] = "drain"
  /\ cleanupIrp[f] = NoReq
  /\ \E i \in DOMAIN queue :
       /\ IsNext(i, CleanupScope(f))
       /\ CsqTake(i)
       /\ cleanupIrp' = [cleanupIrp EXCEPT ![f] = queue[i]]
  /\ UNCHANGED <<device, file, rundown, irpVars, cancel, canceller, pc, data,
                 semaphore, stop, threadVars>>

\* IoCsqRemoveNextIrp has returned NULL.
CleanupNone(f) == NoneLeft(CleanupScope(f))

CleanupComplete(f) ==
  /\ cleanupIrp[f] # NoReq
  /\ cleanupIrp' = [cleanupIrp EXCEPT ![f] = NoReq]
  /\ IoCompleteRequest(cleanupIrp[f], "CANCELLED")
  /\ UNCHANGED <<device, file, rundown, cancelVars, csqVars, pc, data,
                 semaphore, stop, threadVars>>

CleanupEnd(f) ==
  /\ file[f] = "drain"
  /\ cleanupIrp[f] = NoReq
  /\ LockFree
  /\ CleanupNone(f)
  /\ file' = [file EXCEPT ![f] = "cleaned"]
  /\ UNCHANGED <<device, rundown, irpVars, cancelVars, csqVars, pc, data,
                 semaphore, stop, threadVars, cleanupIrp>>

Close(f) ==
  /\ IoCloseFile(f)
  /\ UNCHANGED <<csqVars, pc, data, semaphore, stop, threadVars, cleanupIrp>>

\* Mutant: the thread is not woken.
UnloadStopSilent ==
  /\ device = "live"
  /\ NoOpenFiles
  /\ ~ stop
  /\ stop' = TRUE
  /\ UNCHANGED <<ioVars, csqVars, pc, data, semaphore, threadVars, cleanupIrp>>

\* ThreadShouldStop = TRUE; KeReleaseSemaphore
UnloadStop ==
  /\ device = "live"
  /\ NoOpenFiles
  /\ ~ stop
  /\ stop' = TRUE
  /\ Signal
  /\ UNCHANGED <<ioVars, csqVars, pc, data, threadVars, cleanupIrp>>

\* KeWaitForSingleObject(ThreadObject) returns.
ThreadJoined == stop /\ thread = "terminated"

UnloadDelete ==
  /\ device = "live"
  /\ ThreadJoined
  /\ device' = "deleted"
  /\ UNCHANGED <<file, rundown, irpVars, cancelVars, csqVars, pc, data,
                 semaphore, stop, threadVars, cleanupIrp>>

Terminated ==
  /\ device = "deleted"
  /\ UNCHANGED vars

(***************************************************************************)
(* The specification                                                       *)
(***************************************************************************)

Read(r) ==
  \/ ReadEnter(r) \/ ReadRefused(r) \/ ReadTooSmall(r)
  \/ ReadTooSmallComplete(r) \/ ReadInsert(r) \/ ReadInsertCancelled(r)
  \/ ReadInserted(r) \/ ReadCompleteCancelled(r) \/ ReadSignal(r)
  \/ ReadRelease(r)

CancelStep(r) == CallCancelRoutine(r) \/ CancelUnlink(r) \/ CancelComplete(r)

CsampPollingThread ==
  \/ ThreadWake \/ ThreadCheckStop \/ ThreadTake \/ ThreadFindsNone
  \/ ThreadPoll \/ ThreadComplete

Cleanup(f) ==
  CleanupDrain(f) \/ CleanupTake(f) \/ CleanupComplete(f) \/ CleanupEnd(f)

Next ==
  \/ \E r \in Reqs :
       \/ \E f \in Files : Issue(r, f)
       \/ Read(r) \/ Cancel(r) \/ CancelStep(r)
  \/ \E f \in Files : Create(f) \/ CleanupStart(f) \/ Cleanup(f) \/ Close(f)
  \/ CsampPollingThread
  \/ UnloadStop \/ UnloadDelete
  \/ Terminated

Spec == Init /\ [][Next]_vars

\* Threads are scheduled; a cancel routine that was called runs; cleanup and
\* unload, once begun, go on.
Fairness ==
  /\ \A r \in Reqs : WF_vars(Read(r)) /\ WF_vars(CancelStep(r))
  /\ \A f \in Files : WF_vars(Cleanup(f)) /\ WF_vars(Close(f))
  /\ WF_vars(CsampPollingThread)
  /\ WF_vars(UnloadDelete)

FairSpec == Spec /\ Fairness

(***************************************************************************)
(* Safety                                                                  *)
(***************************************************************************)

Cancellable == {r \in Reqs : cancelRoutine[r]}

\* The readers that have queued their IRP and not yet signalled the semaphore
Signallers == {r \in Reqs : pc[r] \in {"check", "signal"}}

\* Wakeups that the polling thread still has to get, or has got.
Wakeups ==
  semaphore + Cardinality(Signallers)
    + (IF thread \in {"woken", "remove"} THEN 1 ELSE 0)

\* The semaphore counts IRPs that were queued, not those that still are:
\* cancellation and cleanup take IRPs out without a wait.  There may be too
\* many wakeups, never too few.
NoLostWakeup == Cardinality(Cancellable) <= Wakeups

(***************************************************************************)
(* Liveness                                                                *)
(***************************************************************************)

\* Every read is answered, also when nobody cancels it or closes its handle.
EventuallyCompleted ==
  \A r \in Reqs : (pc[r] # "idle") ~> (completions[r] > 0)

\* Unload stops the thread wherever it stands.
EventuallyUnloaded == stop ~> (device = "deleted")

(***************************************************************************)
(* The contract                                                            *)
(***************************************************************************)

handle == [f \in Files |->
             IF file[f] \in {"rundown", "drain"} THEN "cleanup" ELSE file[f]]

\* An IRP is idle in the queue as long as nobody has taken its cancel routine.
PhaseOf(r) ==
  IF completions[r] > 1 THEN "twice"
  ELSE IF completions[r] = 1 THEN "completed"
  ELSE IF pc[r] = "idle" THEN "none"
  ELSE IF pc[r] \notin {"signal", "release", "done"} THEN "issued"
  ELSE IF cancelRoutine[r] THEN "queued"
  ELSE "committed"

phase == [r \in Reqs |-> PhaseOf(r)]

Contract ==
  INSTANCE IrpContract WITH
    device <- device, handle <- handle, irpFile <- irpFile, phase <- phase

\* The driver keeps the contract of a driver that queues requests.
KeepsContract == Contract!Spec

(***************************************************************************)
(* The inductive invariant: at any time one party has a read to complete.  *)
(***************************************************************************)

Uncalled(r) == canceller[r] \in {"idle", "swap"}

Waiting(r) == r \in ToSet(queue)

CleanedUp(r) == \E f \in Files : cleanupIrp[f] = r

\* Nobody finds the read in the queue, or can cancel it.
Private(r) == ~ Waiting(r) /\ ~ cancelRoutine[r] /\ Uncalled(r)

Unissued(r) ==
  /\ pc[r] = "idle"
  /\ irpFile[r] = NoFile
  /\ completions[r] = 0
  /\ canceller[r] = "idle"
  /\ Private(r) /\ ~ CleanedUp(r) /\ current # r

Dispatched(r) ==
  /\ pc[r] \in {"enter", "small", "insert", "cancelled"}
  /\ irpFile[r] # NoFile
  /\ completions[r] = 0
  /\ Private(r) /\ ~ CleanedUp(r) /\ current # r

Queued(r) ==
  /\ pc[r] \in {"check", "signal", "release", "done"}
  /\ irpFile[r] # NoFile
  /\ completions[r] = 0
  /\ Waiting(r)
  /\ cancelRoutine[r] => Uncalled(r)
  /\ ~ cancelRoutine[r] => canceller[r] = "called"
  /\ ~ CleanedUp(r) /\ current # r

\* By the cancel routine, that is
Answering(r) ==
  /\ pc[r] \in {"signal", "release", "done"}
  /\ irpFile[r] # NoFile
  /\ completions[r] = 0
  /\ ~ Waiting(r) /\ ~ cancelRoutine[r]
  /\ canceller[r] = "answer"
  /\ ~ CleanedUp(r) /\ current # r

\* By the polling thread, or by cleanup
Taken(r) ==
  /\ pc[r] \in {"signal", "release", "done"}
  /\ irpFile[r] # NoFile
  /\ completions[r] = 0
  /\ Private(r)
  /\ CleanedUp(r) <=> current # r

Completed(r) ==
  /\ pc[r] \in {"signal", "release", "done"}
  /\ irpFile[r] # NoFile
  /\ completions[r] = 1
  /\ ~ Waiting(r) /\ ~ cancelRoutine[r]
  /\ canceller[r] \in {"idle", "swap", "end"}
  /\ ~ CleanedUp(r) /\ current # r

Mode(r) ==
  \/ Unissued(r) \/ Dispatched(r) \/ Queued(r) \/ Answering(r) \/ Taken(r)
  \/ Completed(r)

ReadLife == \A r \in Reqs : Mode(r)

LockHolder == \A r \in Reqs : pc[r] = "check" <=> queueLock = r

CleanupsApart ==
  \A f, g \in Files :
    cleanupIrp[f] # NoReq /\ cleanupIrp[f] = cleanupIrp[g] => f = g

\* The polling thread has an IRP exactly while it polls.
ThreadPolls == thread = "poll" <=> current # NoReq

\* A handle stays as long as it has reads, and cleanup of it does not look at
\* the queue as long as one is being dispatched.
HandleInUse ==
  /\ \A r \in Reqs : Outstanding(r) => file[irpFile[r]] \notin {"none", "closed"}
  /\ \A r \in Reqs :
       pc[r] \in {"insert", "check", "cancelled", "signal", "release"} =>
         r \in rundown[irpFile[r]]

\* What cleanup leaves in the queue, the cancel routine is about to take out.
CleanupLeavesOnlyCalled ==
  \A r \in Reqs :
    irpFile[r] # NoFile /\ file[irpFile[r]] \in {"cleaned", "closed"}
      /\ Waiting(r) => ~ cancelRoutine[r]

\* The thread is told to stop when nobody has a handle any more.
StoppedUnused == stop => NoOpenFiles

IInv ==
  /\ TypeOK
  /\ NoDuplicates
  /\ ReadLife
  /\ LockHolder
  /\ CleanupsApart
  /\ ThreadPolls
  /\ HandleInUse
  /\ FileContextAlive
  /\ CleanupLeavesOnlyCalled
  /\ StoppedUnused
  /\ NoLostWakeup
=============================================================================
