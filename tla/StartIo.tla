------------------------------- MODULE StartIo -------------------------------
(***************************************************************************)
(* general/cancel/startio/cancel.c: like CancelSafe, without a thread.     *)
(* CurrentIrp says whether the device is busy.  The reader that finds it   *)
(* idle runs CsampInitiateIo, which serves the queue until a poll finds    *)
(* the device not ready; the DPC of a timer then goes on from there.       *)
(*                                                                         *)
(* Whoever is in CsampInitiateIo reads CurrentIrp without QueueLock, on    *)
(* the assumption that nobody else is.                                     *)
(***************************************************************************)
EXTENDS IoCsq

CONSTANTS
  Dpc,        \* the DPC of PollingTimer, the other place that starts I/O
  MaxData     \* how often a poll may find the device not ready

ASSUME StartIoAssumption == Dpc \notin Reqs /\ MaxData \in Nat

VARIABLES
  pc,           \* where the thread that dispatches the read stands
  data,         \* INPUT_DATA.Data in the read's buffer
  currentIrp,   \* DEVICE_EXTENSION.CurrentIrp
  io,           \* io[a]: where a stands in CsampInitiateIo
  irp,          \* irp[a]: its local variable
  timer,        \* PollingTimer and its DPC
  cleanupIrp    \* the IRP that each handle's cleanup has to complete

initiateVars == <<currentIrp, io, irp, timer>>
vars == <<ioVars, csqVars, pc, data, initiateVars, cleanupIrp>>

\* What runs CsampInitiateIo: the thread of a read, or the DPC
Contexts == Reqs \cup {Dpc}

PCs == {"idle", "enter", "small", "insert", "check", "cancelled", "release",
        "done"}

\* "next": the IRP is complete, the next one is not removed yet
IoStates == {"none", "start", "poll", "next"}

TypeOK ==
  /\ IoTypeOK
  /\ CsqTypeOK
  /\ pc \in [Reqs -> PCs]
  /\ data \in [Reqs -> 0 .. MaxData]
  /\ currentIrp \in Reqs \cup {NoReq}
  /\ io \in [Contexts -> IoStates]
  /\ irp \in [Contexts -> Reqs \cup {NoReq}]
  /\ timer \in {"idle", "set", "queued"}
  /\ cleanupIrp \in [Files -> Reqs \cup {NoReq}]

Init ==
  /\ IoInit
  /\ CsqInit
  /\ pc = [r \in Reqs |-> "idle"]
  /\ data = [r \in Reqs |-> 0]
  /\ currentIrp = NoReq
  /\ io = [a \in Contexts |-> "none"]
  /\ irp = [a \in Contexts |-> NoReq]
  /\ timer = "idle"
  /\ cleanupIrp = [f \in Files |-> NoReq]

SetPC(r, from, to) ==
  /\ pc[r] = from
  /\ pc' = [pc EXCEPT ![r] = to]

SetIo(a, from, to) ==
  /\ io[a] = from
  /\ io' = [io EXCEPT ![a] = to]

(***************************************************************************)
(* CsampRead                                                               *)
(***************************************************************************)

Issue(r, f) ==
  /\ IssueIrp(r, f)
  /\ SetPC(r, "idle", "enter")
  /\ UNCHANGED <<csqVars, data, initiateVars, cleanupIrp>>

\* The lock is acquired, the buffer large enough: it is preset to a number
\* that depends on the time.
ReadEnter(r) ==
  /\ SetPC(r, "enter", "insert")
  /\ IoAcquireRemoveLock(r)
  /\ \E d \in 0 .. MaxData : data' = [data EXCEPT ![r] = d]
  /\ UNCHANGED <<device, file, irpVars, cancelVars, csqVars, initiateVars,
                 cleanupIrp>>

ReadRefused(r) ==
  /\ SetPC(r, "enter", "done")
  /\ LockRemoved(irpFile[r])
  /\ IoCompleteRequest(r, "DELETE_PENDING")
  /\ UNCHANGED <<device, file, rundown, cancelVars, csqVars, data,
                 initiateVars, cleanupIrp>>

\* Mutant: the remove lock is not released.
ReadTooSmallLocked(r) ==
  /\ SetPC(r, "enter", "small")
  /\ IoAcquireRemoveLock(r)
  /\ UNCHANGED <<device, file, irpVars, cancelVars, csqVars, data,
                 initiateVars, cleanupIrp>>

\* The buffer is too small: the lock is acquired, and released before the
\* IRP is completed.
ReadTooSmall(r) ==
  /\ SetPC(r, "enter", "small")
  /\ ~ LockRemoved(irpFile[r])
  /\ UNCHANGED <<ioVars, csqVars, data, initiateVars, cleanupIrp>>

ReadTooSmallComplete(r) ==
  /\ SetPC(r, "small", "done")
  /\ IoCompleteRequest(r, "INVALID")
  /\ UNCHANGED <<device, file, rundown, cancelVars, csqVars, data,
                 initiateVars, cleanupIrp>>

\* if (!devExtension->CurrentIrp)
DeviceIdle == currentIrp = NoReq

\* IoCsqInsertIrpEx fails, as CsampInsertIrp takes the IRP: the reader marks
\* it pending and calls CsampInitiateIo.
ReadStart(r) ==
  /\ LockFree
  /\ DeviceIdle
  /\ SetPC(r, "insert", "release")
  /\ SetIo(r, "none", "start")
  /\ currentIrp' = r
  /\ UNCHANGED <<ioVars, csqVars, data, irp, timer, cleanupIrp>>

\* CsampInsertIrp appends, the cancel routine is set ...
ReadInsert(r) ==
  /\ LockFree
  /\ ~ DeviceIdle
  /\ SetPC(r, "insert", "check")
  /\ queueLock' = r
  /\ queue' = Append(queue, r)
  /\ SetCancelRoutine(r, TRUE)
  /\ UNCHANGED <<device, file, rundown, irpVars, cancel, canceller, data,
                 initiateVars, cleanupIrp>>

\* ... and taken back if the IRP was cancelled before and is still ours.
InsertCancelled(r) == cancel[r] /\ cancelRoutine[r]

ReadInsertCancelled(r) ==
  /\ InsertCancelled(r)
  /\ SetPC(r, "check", "cancelled")
  /\ queueLock' = NoReq
  /\ CsqUnlink(r)
  /\ SetCancelRoutine(r, FALSE)
  /\ UNCHANGED <<device, file, rundown, irpVars, cancel, canceller, data,
                 initiateVars, cleanupIrp>>

ReadInserted(r) ==
  /\ ~ InsertCancelled(r)
  /\ SetPC(r, "check", "release")
  /\ queueLock' = NoReq
  /\ UNCHANGED <<ioVars, queue, data, initiateVars, cleanupIrp>>

\* CsampCompleteCanceledIrp, called from IoCsqInsertIrpEx
ReadCompleteCancelled(r) ==
  /\ SetPC(r, "cancelled", "release")
  /\ IoCompleteRequest(r, "CANCELLED")
  /\ UNCHANGED <<device, file, rundown, cancelVars, csqVars, data,
                 initiateVars, cleanupIrp>>

ReadRelease(r) ==
  /\ io[r] = "none"
  /\ SetPC(r, "release", "done")
  /\ IoReleaseRemoveLock(r)
  /\ UNCHANGED <<device, file, irpVars, cancelVars, csqVars, data,
                 initiateVars, cleanupIrp>>

(***************************************************************************)
(* CsampInitiateIo, in the context a                                       *)
(***************************************************************************)

\* irp = devExtension->CurrentIrp
InitiateStart(a) ==
  /\ SetIo(a, "start", "poll")
  /\ irp' = [irp EXCEPT ![a] = currentIrp]
  /\ UNCHANGED <<ioVars, csqVars, pc, data, currentIrp, timer, cleanupIrp>>

\* CsampPollDevice: if (pInput->Data-- <= 0) the device is ready.
NotReady(d) == d > 0

\* Mutant: KeSetTimer is forgotten.
NoTimer == UNCHANGED timer

\* KeSetTimer(&PollingTimer, PollingInterval, &PollingDpc)
KeSetTimer == timer' = "set"

\* CsampPollDevice returns STATUS_PENDING.
InitiatePending(a) ==
  /\ SetIo(a, "poll", "none")
  /\ NotReady(data[irp[a]])
  /\ data' = [data EXCEPT ![irp[a]] = @ - 1]
  /\ KeSetTimer
  /\ irp' = [irp EXCEPT ![a] = NoReq]
  /\ UNCHANGED <<ioVars, csqVars, pc, currentIrp, cleanupIrp>>

\* It returns STATUS_SUCCESS.
InitiateComplete(a) ==
  /\ SetIo(a, "poll", "next")
  /\ ~ NotReady(data[irp[a]])
  /\ IoCompleteRequest(irp[a], "SUCCESS")
  /\ irp' = [irp EXCEPT ![a] = NoReq]
  /\ UNCHANGED <<device, file, rundown, cancelVars, csqVars, pc, data,
                 currentIrp, timer, cleanupIrp>>

\* IoCsqRemoveNextIrp: CsampPeekNextIrp leaves in CurrentIrp what is taken.
InitiateNext(a) ==
  /\ SetIo(a, "next", "poll")
  /\ \E i \in DOMAIN queue :
       /\ IsNext(i, Reqs)
       /\ CsqTake(i)
       /\ currentIrp' = queue[i]
       /\ irp' = [irp EXCEPT ![a] = queue[i]]
  /\ UNCHANGED <<device, file, rundown, irpVars, cancel, canceller, pc, data,
                 timer, cleanupIrp>>

\* Mutant: CsampPeekNextIrp sets CurrentIrp only to an IRP that it finds.
StaysBusy == UNCHANGED currentIrp

BecomesIdle == currentIrp' = NoReq

InitiateEnd(a) ==
  /\ SetIo(a, "next", "none")
  /\ LockFree
  /\ NoneLeft(Reqs)
  /\ BecomesIdle
  /\ UNCHANGED <<ioVars, csqVars, pc, data, irp, timer, cleanupIrp>>

TimerExpire ==
  /\ timer = "set"
  /\ timer' = "queued"
  /\ UNCHANGED <<ioVars, csqVars, pc, data, currentIrp, io, irp, cleanupIrp>>

\* CsampPollingTimerDpc
DpcStart ==
  /\ timer = "queued"
  /\ timer' = "idle"
  /\ SetIo(Dpc, "none", "start")
  /\ UNCHANGED <<ioVars, csqVars, pc, data, currentIrp, irp, cleanupIrp>>

(***************************************************************************)
(* Cancellation                                                            *)
(***************************************************************************)

Cancel(r) ==
  /\ IoCancelIrp(r)
  /\ UNCHANGED <<csqVars, pc, data, initiateVars, cleanupIrp>>

CallCancelRoutine(r) ==
  /\ IoCallCancelRoutine(r)
  /\ UNCHANGED <<csqVars, pc, data, initiateVars, cleanupIrp>>

CancelUnlink(r) ==
  /\ CsqCancelRoutine(r)
  /\ UNCHANGED <<pc, data, initiateVars, cleanupIrp>>

CancelComplete(r) ==
  /\ CsqCompleteCanceledIrp(r)
  /\ UNCHANGED <<pc, data, initiateVars, cleanupIrp>>

(***************************************************************************)
(* CsampCreateClose, CsampCleanup and CsampUnload                          *)
(***************************************************************************)

Create(f) ==
  /\ IoCreateFile(f)
  /\ UNCHANGED <<csqVars, pc, data, initiateVars, cleanupIrp>>

CleanupStart(f) ==
  /\ IoCloseHandle(f)
  /\ UNCHANGED <<csqVars, pc, data, initiateVars, cleanupIrp>>

RundownOver(f) == rundown[f] = {}

\* IoReleaseRemoveLockAndWait returns.
CleanupDrain(f) ==
  /\ file[f] = "rundown"
  /\ RundownOver(f)
  /\ file' = [file EXCEPT ![f] = "drain"]
  /\ UNCHANGED <<device, rundown, irpVars, cancelVars, csqVars, pc, data,
                 initiateVars, cleanupIrp>>

\* IoCsqRemoveNextIrp with the file object as PeekContext, for which
\* CsampPeekNextIrp leaves CurrentIrp alone
CleanupScope(f) == OfFile(f)

CleanupTake(f) ==
  /\ file[f] = "drain"
  /\ cleanupIrp[f] = NoReq
  /\ \E i \in DOMAIN queue :
       /\ IsNext(i, CleanupScope(f))
       /\ CsqTake(i)
       /\ cleanupIrp' = [cleanupIrp EXCEPT ![f] = queue[i]]
  /\ UNCHANGED <<device, file, rundown, irpVars, cancel, canceller, pc, data,
                 initiateVars>>

CleanupComplete(f) ==
  /\ cleanupIrp[f] # NoReq
  /\ cleanupIrp' = [cleanupIrp EXCEPT ![f] = NoReq]
  /\ IoCompleteRequest(cleanupIrp[f], "CANCELLED")
  /\ UNCHANGED <<device, file, rundown, cancelVars, csqVars, pc, data,
                 initiateVars>>

\* Mutant: only the first IRP of the handle is looked for.
CleanupNext(f) == TRUE

\* IoCsqRemoveNextIrp has returned NULL.
CleanupNone(f) == NoneLeft(CleanupScope(f))

CleanupEnd(f) ==
  /\ file[f] = "drain"
  /\ cleanupIrp[f] = NoReq
  /\ LockFree
  /\ CleanupNone(f)
  /\ file' = [file EXCEPT ![f] = "cleaned"]
  /\ UNCHANGED <<device, rundown, irpVars, cancelVars, csqVars, pc, data,
                 initiateVars, cleanupIrp>>

Close(f) ==
  /\ IoCloseFile(f)
  /\ UNCHANGED <<csqVars, pc, data, initiateVars, cleanupIrp>>

\* KeCancelTimer(&PollingTimer); IoDeleteDevice
Unload ==
  /\ device = "live"
  /\ NoOpenFiles
  /\ device' = "deleted"
  /\ timer' = IF timer = "set" THEN "idle" ELSE timer
  /\ UNCHANGED <<file, rundown, irpVars, cancelVars, csqVars, pc, data,
                 currentIrp, io, irp, cleanupIrp>>

Terminated ==
  /\ device = "deleted"
  /\ UNCHANGED vars

(***************************************************************************)
(* The specification                                                       *)
(***************************************************************************)

Read(r) ==
  \/ ReadEnter(r) \/ ReadRefused(r) \/ ReadTooSmall(r)
  \/ ReadTooSmallComplete(r) \/ ReadStart(r) \/ ReadInsert(r)
  \/ ReadInsertCancelled(r) \/ ReadInserted(r) \/ ReadCompleteCancelled(r)
  \/ ReadRelease(r)

CsampInitiateIo(a) ==
  \/ InitiateStart(a) \/ InitiatePending(a) \/ InitiateComplete(a)
  \/ InitiateNext(a) \/ InitiateEnd(a)

CancelStep(r) == CallCancelRoutine(r) \/ CancelUnlink(r) \/ CancelComplete(r)

Cleanup(f) ==
  CleanupDrain(f) \/ CleanupTake(f) \/ CleanupComplete(f) \/ CleanupEnd(f)

\* What goes on without any application
Work ==
  \/ \E r \in Reqs : Read(r)
  \/ \E a \in Contexts : CsampInitiateIo(a)
  \/ TimerExpire \/ DpcStart
  \/ \E f \in Files : Cleanup(f) \/ Close(f)

Next ==
  \/ Work
  \/ \E r \in Reqs : Cancel(r) \/ CancelStep(r) \/ \E f \in Files : Issue(r, f)
  \/ \E f \in Files : Create(f) \/ CleanupStart(f)
  \/ Unload
  \/ Terminated

Spec == Init /\ [][Next]_vars

\* Whatever is under way goes on: threads are scheduled, timers expire, DPCs
\* run, in whatever order; a cancel routine that was called gets QueueLock,
\* while other calls of IoCancelIrp come and go.
Fairness ==
  /\ WF_vars(Work)
  /\ \A r \in Reqs : WF_vars(CancelStep(r))

FairSpec == Spec /\ Fairness

(***************************************************************************)
(* Safety                                                                  *)
(***************************************************************************)

InCharge == {a \in Contexts : io[a] # "none"}

\* CurrentIrp is not NULL if and only if one context is in CsampInitiateIo,
\* or the timer or its DPC are about to call it; and never are there two.
OneInCharge ==
  /\ \A a, b \in InCharge : a = b
  /\ InCharge # {} => timer = "idle"
  /\ currentIrp = NoReq <=> InCharge = {} /\ timer = "idle"

\* No IRP waits for an idle device.
QueueServed ==
  (\E r \in ToSet(queue) : cancelRoutine[r]) => currentIrp # NoReq

\* The comment in CsampUnload: as long as there are IRPs, the driver is not
\* unloaded, so that it need not wait for a DPC.  No DPC uses what it frees.
DpcSafeFromUnload == device = "deleted" => io[Dpc] = "none"

(***************************************************************************)
(* Liveness                                                                *)
(***************************************************************************)

\* No read stays unanswered, also when nobody cancels it or closes its handle.
EventuallyCompleted ==
  \A r \in Reqs : []<>(pc[r] # "idle" => completions[r] > 0)

\* A handle that an application closes does not stay in cleanup or close,
\* although its threads may be serving the reads of other handles.
EventuallyClosed == \A f \in Files : []<>(file[f] \in {"none", "open", "closed"})

(***************************************************************************)
(* The contract                                                            *)
(***************************************************************************)

handle == [f \in Files |->
             IF file[f] \in {"rundown", "drain"} THEN "cleanup" ELSE file[f]]

\* An IRP is idle in the queue as long as nobody has taken its cancel routine.
PhaseOf(r) ==
  IF completions[r] > 1 THEN "twice"
  ELSE IF completions[r] = 1 THEN "completed"
  ELSE IF pc[r] = "idle" THEN "none"
  ELSE IF pc[r] \notin {"release", "done"} THEN "issued"
  ELSE IF cancelRoutine[r] THEN "queued"
  ELSE "committed"

phase == [r \in Reqs |-> PhaseOf(r)]

Contract ==
  INSTANCE IrpContract WITH
    device <- device, handle <- handle, irpFile <- irpFile, phase <- phase

\* The driver keeps the contract of a driver that queues requests.
KeepsContract == Contract!Spec

(***************************************************************************)
(* The inductive invariant: at any time one party has a read to complete.  *)
(***************************************************************************)

Uncalled(r) == canceller[r] \in {"idle", "swap"}

Waiting(r) == r \in ToSet(queue)

CleanedUp(r) == \E f \in Files : cleanupIrp[f] = r

\* Nobody finds the read in the queue, or can cancel it.
Private(r) == ~ Waiting(r) /\ ~ cancelRoutine[r] /\ Uncalled(r)

Unissued(r) ==
  /\ pc[r] = "idle"
  /\ irpFile[r] = NoFile
  /\ completions[r] = 0
  /\ canceller[r] = "idle"
  /\ Private(r) /\ ~ CleanedUp(r) /\ currentIrp # r

Dispatched(r) ==
  /\ pc[r] \in {"enter", "small", "insert", "cancelled"}
  /\ irpFile[r] # NoFile
  /\ completions[r] = 0
  /\ Private(r) /\ ~ CleanedUp(r) /\ currentIrp # r

Queued(r) ==
  /\ pc[r] \in {"check", "release", "done"}
  /\ irpFile[r] # NoFile
  /\ completions[r] = 0
  /\ Waiting(r)
  /\ cancelRoutine[r] => Uncalled(r)
  /\ ~ cancelRoutine[r] => canceller[r] = "called"
  /\ ~ CleanedUp(r) /\ currentIrp # r

\* By the cancel routine, that is
Answering(r) ==
  /\ pc[r] \in {"release", "done"}
  /\ irpFile[r] # NoFile
  /\ completions[r] = 0
  /\ ~ Waiting(r) /\ ~ cancelRoutine[r]
  /\ canceller[r] = "answer"
  /\ ~ CleanedUp(r) /\ currentIrp # r

\* By the device, or by cleanup
Taken(r) ==
  /\ pc[r] \in {"release", "done"}
  /\ irpFile[r] # NoFile
  /\ completions[r] = 0
  /\ Private(r)
  /\ CleanedUp(r) <=> currentIrp # r

Completed(r) ==
  /\ pc[r] \in {"release", "done"}
  /\ irpFile[r] # NoFile
  /\ completions[r] = 1
  /\ ~ Waiting(r) /\ ~ cancelRoutine[r]
  /\ canceller[r] \in {"idle", "swap", "end"}
  /\ ~ CleanedUp(r)

Mode(r) ==
  \/ Unissued(r) \/ Dispatched(r) \/ Queued(r) \/ Answering(r) \/ Taken(r)
  \/ Completed(r)

ReadLife == \A r \in Reqs : Mode(r)

LockHolder == \A r \in Reqs : pc[r] = "check" <=> queueLock = r

CleanupsApart ==
  \A f, g \in Files :
    cleanupIrp[f] # NoReq /\ cleanupIrp[f] = cleanupIrp[g] => f = g

\* What the context in charge knows of CurrentIrp, which nobody else changes
CurrentKnown ==
  /\ \A a \in Contexts : io[a] = "poll" => irp[a] = currentIrp
  /\ \A r \in Reqs : io[r] # "none" => pc[r] = "release"
  /\ currentIrp # NoReq =>
       (completions[currentIrp] = 1 <=> \E a \in Contexts : io[a] = "next")

\* A handle stays as long as it has reads, and cleanup of it does not look at
\* the queue as long as one is being dispatched.
HandleInUse ==
  /\ \A r \in Reqs : Outstanding(r) => file[irpFile[r]] \notin {"none", "closed"}
  /\ \A r \in Reqs : pc[r] \in {"insert", "check", "cancelled", "release"} =>
       r \in rundown[irpFile[r]]

\* What cleanup leaves in the queue, the cancel routine is about to take out.
CleanupLeavesOnlyCalled ==
  \A r \in Reqs :
    irpFile[r] # NoFile /\ file[irpFile[r]] \in {"cleaned", "closed"}
      /\ Waiting(r) => ~ cancelRoutine[r]

IInv ==
  /\ TypeOK
  /\ NoDuplicates
  /\ ReadLife
  /\ LockHolder
  /\ CleanupsApart
  /\ OneInCharge
  /\ CurrentKnown
  /\ QueueServed
  /\ HandleInUse
  /\ FileContextAlive
  /\ CleanupLeavesOnlyCalled
=============================================================================
