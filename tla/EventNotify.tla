----------------------------- MODULE EventNotify -----------------------------
(***************************************************************************)
(* general/event/wdm/event.c: a driver that notifies applications of an    *)
(* event some time after they asked for it.  IOCTL_REGISTER_EVENT puts a   *)
(* notification record in EventQueueHead and arms the record's own timer;  *)
(* the timer's DPC completes the pending IRP (IRP_BASED) or signals the    *)
(* application's event object (EVENT_BASED) and frees the record.          *)
(*                                                                         *)
(* Four activities race for a record and its IRP: the dispatch thread that *)
(* registers it, the DPC, the cancel routine and the cleanup of the file   *)
(* handle.  QueueLock protects the list, IoSetCancelRoutine decides who    *)
(* owns the IRP, KeCancelTimer and CancelRoutineFreeMemory who frees the   *)
(* record.  What is done under QueueLock is one action, except in          *)
(* RegisterIrpBasedNotification, whose steps cancellation interleaves.     *)
(***************************************************************************)
EXTENDS IoManager, Integers

CONSTANT NoOwner    \* nobody holds QueueLock across steps

ASSUME EventAssumption == NoOwner \notin Reqs

\* A record belongs to exactly one IRP, so an IRP also names its record.
VARIABLES
  pc,           \* where the thread that dispatches the IRP stands
  status,       \* that thread's local status
  kind,         \* NOTIFY_RECORD.Type
  mem,          \* the record's memory
  link,         \* NOTIFY_RECORD.ListEntry
  pendingIrp,   \* NOTIFY_RECORD.Message.PendingIrp is not NULL
  freeMem,      \* NOTIFY_RECORD.CancelRoutineFreeMemory
  context,      \* Irp->Tail.Overlay.DriverContext[3] is not NULL
  eventRef,     \* references the record holds on the application's event
  timer,        \* NOTIFY_RECORD.Timer and the progress of its DPC
  queueLock,    \* who holds QueueLock between two steps
  cleanupList   \* the IRPs EventCleanup took out and has yet to complete

recordVars == <<kind, mem, link, pendingIrp, freeMem, context, eventRef, timer>>
vars == <<ioVars, pc, status, recordVars, queueLock, cleanupList>>

Kinds == {"none", "irp", "event"}

PCs == {"idle", "enter", "register", "lock", "check", "clear", "insert",
        "insertEvent", "arm", "complete", "release", "done"}

\* "corrupt": freed twice
MemStates == {"none", "live", "freed", "corrupt"}

\* "self"  : InitializeListHead on the entry, removing it is harmless
\* "queue" : in EventQueueHead
\* "stale" : removed, it still points at its old neighbours
\* "corrupt" : a stale entry was removed once more
LinkStates == {"self", "queue", "stale", "corrupt"}

\* "fired"    : the DPC is queued, or runs and waits for QueueLock
\* "complete" : the DPC owns the IRP and has dropped QueueLock to complete it
\* "relock"   : the DPC has completed the IRP and waits for QueueLock again
\* "free"     : the DPC has released QueueLock and has the record to free
TimerStates == {"none", "armed", "stopped", "fired", "complete", "relock",
                "free", "done"}

TypeOK ==
  /\ IoTypeOK
  /\ pc \in [Reqs -> PCs]
  /\ status \in [Reqs -> Statuses]
  /\ kind \in [Reqs -> Kinds]
  /\ mem \in [Reqs -> MemStates]
  /\ link \in [Reqs -> LinkStates]
  /\ pendingIrp \in [Reqs -> BOOLEAN]
  /\ freeMem \in [Reqs -> BOOLEAN]
  /\ context \in [Reqs -> BOOLEAN]
  /\ eventRef \in [Reqs -> Int]
  /\ timer \in [Reqs -> TimerStates]
  /\ queueLock \in Reqs \cup {NoOwner}
  /\ cleanupList \in SUBSET Reqs

Init ==
  /\ IoInit
  /\ pc = [r \in Reqs |-> "idle"]
  /\ status = [r \in Reqs |-> "NONE"]
  /\ kind = [r \in Reqs |-> "none"]
  /\ mem = [r \in Reqs |-> "none"]
  /\ link = [r \in Reqs |-> "self"]
  /\ pendingIrp = [r \in Reqs |-> FALSE]
  /\ freeMem = [r \in Reqs |-> FALSE]
  /\ context = [r \in Reqs |-> FALSE]
  /\ eventRef = [r \in Reqs |-> 0]
  /\ timer = [r \in Reqs |-> "none"]
  /\ queueLock = NoOwner
  /\ cleanupList = {}

(***************************************************************************)
(* Kernel primitives on a record.                                          *)
(***************************************************************************)

EventQueue == {r \in Reqs : link[r] = "queue"}

LockFree == queueLock = NoOwner

\* RemoveEntryList on an entry in state l.
Removed(l) ==
  IF l = "self" THEN "self" ELSE IF l = "queue" THEN "stale" ELSE "corrupt"

\* Mutant: InitializeListHead forgotten.
LeftStale(l) == l

\* InitializeListHead on an entry RemoveEntryList left in state l.
Reinitialized(l) == IF l = "corrupt" THEN "corrupt" ELSE "self"

\* ExFreePoolWithTag on memory in state m.
Freed(m) == IF m = "live" THEN "freed" ELSE "corrupt"

\* KeCancelTimer returns TRUE
TimerStoppable(r) == timer[r] = "armed"

\* Mutants: the result of IoSetCancelRoutine ignored, or tested inverted.
ClearedAssumed(r) == TRUE
ClearedInverted(r) == ~ cancelRoutine[r]

\* IoSetCancelRoutine(Irp, NULL) # NULL: the IRP is the caller's from here on.
ClearedByUs(r) == cancelRoutine[r]

SetPC(r, from, to) ==
  /\ pc[r] = from
  /\ pc' = [pc EXCEPT ![r] = to]

Finish(r, from, s) ==
  /\ SetPC(r, from, "complete")
  /\ status' = [status EXCEPT ![r] = s]

(***************************************************************************)
(* EventDispatchIoControl                                                  *)
(***************************************************************************)

Issue(r, f) ==
  /\ IssueIrp(r, f)
  /\ SetPC(r, "idle", "enter")
  /\ UNCHANGED <<status, recordVars, queueLock, cleanupList>>

\* IoAcquireRemoveLock succeeds ...
DispatchEnter(r) ==
  /\ SetPC(r, "enter", "register")
  /\ IoAcquireRemoveLock(r)
  /\ UNCHANGED <<device, file, irpVars, cancelVars, status, recordVars,
                 queueLock, cleanupList>>

\* ... or the handle was cleaned up, and the IRP is completed at once.
DispatchRefused(r) ==
  /\ SetPC(r, "enter", "done")
  /\ LockRemoved(irpFile[r])
  /\ IoCompleteRequest(r, "DELETE_PENDING")
  /\ UNCHANGED <<device, file, rundown, cancelVars, status, recordVars,
                 queueLock, cleanupList>>

\* The input is too short or names no event, or there is no memory: a record
\* that was already allocated is freed again.
RegisterFails(r) ==
  /\ \E s \in {"INVALID", "RESOURCES"} : Finish(r, "register", s)
  /\ UNCHANGED <<ioVars, recordVars, queueLock, cleanupList>>

\* The pool is not zeroed: CancelRoutineFreeMemory starts with any value.
AllocateIrpRecord(r) ==
  /\ SetPC(r, "register", "lock")
  /\ kind' = [kind EXCEPT ![r] = "irp"]
  /\ mem' = [mem EXCEPT ![r] = "live"]
  /\ link' = [link EXCEPT ![r] = "self"]
  /\ pendingIrp' = [pendingIrp EXCEPT ![r] = TRUE]
  /\ \E b \in BOOLEAN : freeMem' = [freeMem EXCEPT ![r] = b]
  /\ UNCHANGED <<ioVars, status, context, eventRef, timer, queueLock,
                 cleanupList>>

AllocateEventRecord(r) ==
  /\ SetPC(r, "register", "insertEvent")
  /\ kind' = [kind EXCEPT ![r] = "event"]
  /\ mem' = [mem EXCEPT ![r] = "live"]
  /\ link' = [link EXCEPT ![r] = "self"]
  /\ eventRef' = [eventRef EXCEPT ![r] = @ + 1]
  /\ UNCHANGED <<ioVars, status, pendingIrp, freeMem, context, timer,
                 queueLock, cleanupList>>

CompleteDispatch(r) ==
  /\ SetPC(r, "complete", "release")
  /\ IoCompleteRequest(r, status[r])
  /\ UNCHANGED <<device, file, rundown, cancelVars, status, recordVars,
                 queueLock, cleanupList>>

\* The remove lock is given back after the IRP is complete or queued.
DispatchRelease(r) ==
  /\ SetPC(r, "release", "done")
  /\ IoReleaseRemoveLock(r)
  /\ UNCHANGED <<device, file, irpVars, cancelVars, status, recordVars,
                 queueLock, cleanupList>>

(***************************************************************************)
(* RegisterIrpBasedNotification, from KeAcquireSpinLock on                 *)
(***************************************************************************)

RegSetCancelRoutine(r) ==
  /\ LockFree
  /\ SetPC(r, "lock", "check")
  /\ queueLock' = r
  /\ SetCancelRoutine(r, TRUE)
  /\ UNCHANGED <<device, file, rundown, irpVars, cancel, canceller, status,
                 recordVars, cleanupList>>

\* if (Irp->Cancel)
RegCheckCancel(r) ==
  /\ SetPC(r, "check", IF cancel[r] THEN "clear" ELSE "insert")
  /\ UNCHANGED <<ioVars, status, recordVars, queueLock, cleanupList>>

\* The cancel routine is still ours: give up, without marking the IRP pending.
RegCancelled(r) ==
  /\ ClearedByUs(r)
  /\ Finish(r, "clear", "CANCELLED")
  /\ SetCancelRoutine(r, FALSE)
  /\ queueLock' = NoOwner
  /\ mem' = [mem EXCEPT ![r] = Freed(@)]
  /\ UNCHANGED <<device, file, rundown, irpVars, cancel, canceller, kind,
                 link, pendingIrp, freeMem, context, eventRef, timer,
                 cleanupList>>

\* The I/O manager has taken it: EventCancelRoutine waits for QueueLock and
\* will find the record in the queue.
RegLostToCancel(r) ==
  /\ ~ ClearedByUs(r)
  /\ SetPC(r, "clear", "insert")
  /\ UNCHANGED <<ioVars, status, recordVars, queueLock, cleanupList>>

\* Mutant: CancelRoutineFreeMemory left uninitialized.
RegInsertUninitialized(r) ==
  /\ SetPC(r, "insert", "release")
  /\ link' = [link EXCEPT ![r] = "queue"]
  /\ context' = [context EXCEPT ![r] = TRUE]
  /\ timer' = [timer EXCEPT ![r] = "armed"]
  /\ queueLock' = NoOwner
  /\ UNCHANGED <<ioVars, status, kind, mem, pendingIrp, freeMem, eventRef,
                 cleanupList>>

RegInsert(r) ==
  /\ SetPC(r, "insert", "release")
  /\ link' = [link EXCEPT ![r] = "queue"]
  /\ freeMem' = [freeMem EXCEPT ![r] = FALSE]
  /\ context' = [context EXCEPT ![r] = TRUE]
  /\ timer' = [timer EXCEPT ![r] = "armed"]
  /\ queueLock' = NoOwner
  /\ UNCHANGED <<ioVars, status, kind, mem, pendingIrp, eventRef, cleanupList>>

(***************************************************************************)
(* RegisterEventBasedNotification: the timer is set outside the lock.      *)
(***************************************************************************)

RegInsertEvent(r) ==
  /\ LockFree
  /\ SetPC(r, "insertEvent", "arm")
  /\ link' = [link EXCEPT ![r] = "queue"]
  /\ UNCHANGED <<ioVars, status, kind, mem, pendingIrp, freeMem, context,
                 eventRef, timer, queueLock, cleanupList>>

\* Mutant: STATUS_PENDING returned as in the other registration.
RegArmEventPending(r) ==
  /\ Finish(r, "arm", "PENDING")
  /\ timer' = [timer EXCEPT ![r] = "armed"]
  /\ UNCHANGED <<ioVars, kind, mem, link, pendingIrp, freeMem, context,
                 eventRef, queueLock, cleanupList>>

RegArmEvent(r) ==
  /\ Finish(r, "arm", "SUCCESS")
  /\ timer' = [timer EXCEPT ![r] = "armed"]
  /\ UNCHANGED <<ioVars, kind, mem, link, pendingIrp, freeMem, context,
                 eventRef, queueLock, cleanupList>>

(***************************************************************************)
(* Cancellation: the I/O manager's two halves and EventCancelRoutine.      *)
(***************************************************************************)

Cancel(r) ==
  /\ IoCancelIrp(r)
  /\ UNCHANGED <<pc, status, recordVars, queueLock, cleanupList>>

CallCancelRoutine(r) ==
  /\ IoCallCancelRoutine(r)
  /\ UNCHANGED <<pc, status, recordVars, queueLock, cleanupList>>

\* Mutants: CancelRoutineFreeMemory ignored, one way and the other.
CancelAlwaysFrees(r) == TRUE
CancelFreesStopped(r) == TimerStoppable(r)

\* Who frees the record?  A stopped timer's DPC never will; a DPC that waits
\* for the lock will; one that has come by, or was stopped by cleanup, set
\* CancelRoutineFreeMemory instead.
CancelFrees(r) == TimerStoppable(r) \/ freeMem[r]

EventCancelRoutine(r) ==
  /\ canceller[r] = "called"
  /\ LockFree
  /\ canceller' = [canceller EXCEPT ![r] = "answer"]
  /\ pendingIrp' = [pendingIrp EXCEPT ![r] = FALSE]
  /\ \/ /\ CancelFrees(r)
        /\ link' = [link EXCEPT ![r] = Removed(@)]
        /\ mem' = [mem EXCEPT ![r] = Freed(@)]
     \/ /\ ~ CancelFrees(r)
        /\ link' = [link EXCEPT ![r] = Reinitialized(Removed(@))]
        /\ UNCHANGED mem
  /\ timer' = [timer EXCEPT ![r] = IF TimerStoppable(r) THEN "stopped" ELSE @]
  /\ UNCHANGED <<device, file, rundown, irpVars, cancel, cancelRoutine, pc,
                 status, kind, freeMem, context, eventRef, queueLock,
                 cleanupList>>

CancelComplete(r) ==
  /\ canceller[r] = "answer"
  /\ canceller' = [canceller EXCEPT ![r] = "end"]
  /\ context' = [context EXCEPT ![r] = FALSE]
  /\ IoCompleteRequest(r, "CANCELLED")
  /\ UNCHANGED <<device, file, rundown, cancel, cancelRoutine, pc, status,
                 kind, mem, link, pendingIrp, freeMem, eventRef, timer,
                 queueLock, cleanupList>>

(***************************************************************************)
(* The timer and CustomTimerDPC                                            *)
(***************************************************************************)

TimerExpire(r) ==
  /\ timer[r] = "armed"
  /\ timer' = [timer EXCEPT ![r] = "fired"]
  /\ UNCHANGED <<ioVars, pc, status, kind, mem, link, pendingIrp, freeMem,
                 context, eventRef, queueLock, cleanupList>>

\* IRP_BASED, and the DPC wins the IRP.
DpcTakeIrp(r) ==
  /\ timer[r] = "fired" /\ kind[r] = "irp"
  /\ LockFree
  /\ pendingIrp[r] /\ ClearedByUs(r)
  /\ timer' = [timer EXCEPT ![r] = "complete"]
  /\ link' = [link EXCEPT ![r] = Removed(@)]
  /\ SetCancelRoutine(r, FALSE)
  /\ context' = [context EXCEPT ![r] = FALSE]
  /\ UNCHANGED <<device, file, rundown, irpVars, cancel, canceller, pc, status,
                 kind, mem, pendingIrp, freeMem, eventRef, queueLock,
                 cleanupList>>

\* The cancel routine was called and waits for the lock: it frees the record.
DpcLeaveToCancel(r) ==
  /\ timer[r] = "fired" /\ kind[r] = "irp"
  /\ LockFree
  /\ pendingIrp[r] /\ ~ ClearedByUs(r)
  /\ timer' = [timer EXCEPT ![r] = "done"]
  /\ link' = [link EXCEPT ![r] = Reinitialized(Removed(@))]
  /\ freeMem' = [freeMem EXCEPT ![r] = TRUE]
  /\ UNCHANGED <<ioVars, pc, status, kind, mem, pendingIrp, context, eventRef,
                 queueLock, cleanupList>>

\* The cancel routine has run and left the record to the DPC.
DpcAfterCancel(r) ==
  /\ timer[r] = "fired" /\ kind[r] = "irp"
  /\ LockFree
  /\ ~ pendingIrp[r]
  /\ timer' = [timer EXCEPT ![r] = "free"]
  /\ link' = [link EXCEPT ![r] = Removed(@)]
  /\ UNCHANGED <<ioVars, pc, status, kind, mem, pendingIrp, freeMem, context,
                 eventRef, queueLock, cleanupList>>

\* EVENT_BASED: KeSetEvent and ObDereferenceObject.
DpcSignalEvent(r) ==
  /\ timer[r] = "fired" /\ kind[r] = "event"
  /\ LockFree
  /\ timer' = [timer EXCEPT ![r] = "free"]
  /\ link' = [link EXCEPT ![r] = Removed(@)]
  /\ eventRef' = [eventRef EXCEPT ![r] = @ - 1]
  /\ UNCHANGED <<ioVars, pc, status, kind, mem, pendingIrp, freeMem, context,
                 queueLock, cleanupList>>

DpcComplete(r) ==
  /\ timer[r] = "complete"
  /\ timer' = [timer EXCEPT ![r] = "relock"]
  /\ IoCompleteRequest(r, "SUCCESS")
  /\ UNCHANGED <<device, file, rundown, cancelVars, pc, status, kind, mem,
                 link, pendingIrp, freeMem, context, eventRef, queueLock,
                 cleanupList>>

DpcRelock(r) ==
  /\ timer[r] = "relock"
  /\ LockFree
  /\ timer' = [timer EXCEPT ![r] = "free"]
  /\ UNCHANGED <<ioVars, pc, status, kind, mem, link, pendingIrp, freeMem,
                 context, eventRef, queueLock, cleanupList>>

DpcFree(r) ==
  /\ timer[r] = "free"
  /\ timer' = [timer EXCEPT ![r] = "done"]
  /\ mem' = [mem EXCEPT ![r] = Freed(@)]
  /\ UNCHANGED <<ioVars, pc, status, kind, link, pendingIrp, freeMem, context,
                 eventRef, queueLock, cleanupList>>

(***************************************************************************)
(* EventCreateClose, EventCleanup and EventUnload                          *)
(***************************************************************************)

Create(f) ==
  /\ IoCreateFile(f)
  /\ UNCHANGED <<pc, status, recordVars, queueLock, cleanupList>>

CleanupStart(f) ==
  /\ IoCloseHandle(f)
  /\ UNCHANGED <<pc, status, recordVars, queueLock, cleanupList>>

\* Mutant: EVENT_BASED forgotten.
StoppedIrps(f) ==
  {r \in EventQueue : irpFile[r] = f /\ TimerStoppable(r) /\ kind[r] = "irp"}

\* The records of the handle that cleanup finds in the queue and whose timer
\* it stops; the others are left to their DPC.
Stopped(f) == {r \in EventQueue : irpFile[r] = f /\ TimerStoppable(r)}
\* those whose IRP it owns, having cleared the cancel routine
Owned(f) == {r \in Stopped(f) : kind[r] = "irp" /\ ClearedByUs(r)}

\* those the cancel routine was called for: it frees the record
Racing(f) == {r \in Stopped(f) : kind[r] = "irp" /\ ~ ClearedByUs(r)}

\* Mutant: IRP_BASED falls through to EVENT_BASED.
EventsFallThrough(f) == Stopped(f)

Events(f) == {r \in Stopped(f) : kind[r] = "event"}

\* Mutant: IoReleaseRemoveLock in place of IoReleaseRemoveLockAndWait.
RundownNotAwaited(f) == TRUE

\* IoReleaseRemoveLockAndWait may return.
RundownOver(f) == rundown[f] = {}

\* The walk over EventQueueHead, once IoReleaseRemoveLockAndWait returns.
\* It is one action although timers expire and IRPs are cancelled during it:
\* it touches each record once, so each of those steps happens before it or
\* after it as far as that record can tell.
CleanupWalk(f) ==
  /\ file[f] = "rundown"
  /\ RundownOver(f)
  /\ LockFree
  /\ file' = [file EXCEPT ![f] = "drain"]
  /\ timer' = [r \in Reqs |-> IF r \in Stopped(f) THEN "stopped" ELSE timer[r]]
  /\ link' = [r \in Reqs |->
                IF r \in Racing(f) THEN "self"
                ELSE IF r \in Stopped(f) THEN Removed(link[r]) ELSE link[r]]
  /\ cancelRoutine' = [r \in Reqs |-> cancelRoutine[r] /\ r \notin Owned(f)]
  /\ freeMem' = [r \in Reqs |-> freeMem[r] \/ r \in Racing(f)]
  /\ mem' = [r \in Reqs |->
               IF r \in Owned(f) \cup Events(f) THEN Freed(mem[r]) ELSE mem[r]]
  /\ eventRef' = [r \in Reqs |->
                    IF r \in Events(f) THEN eventRef[r] - 1 ELSE eventRef[r]]
  /\ cleanupList' = cleanupList \cup Owned(f)
  /\ UNCHANGED <<device, rundown, irpVars, cancel, canceller, pc, status, kind,
                 pendingIrp, context, queueLock>>

CleanupComplete(r) ==
  /\ r \in cleanupList
  /\ cleanupList' = cleanupList \ {r}
  /\ context' = [context EXCEPT ![r] = FALSE]
  /\ IoCompleteRequest(r, "CANCELLED")
  /\ UNCHANGED <<device, file, rundown, cancelVars, pc, status, kind, mem,
                 link, pendingIrp, freeMem, eventRef, timer, queueLock>>

CleanupEnd(f) ==
  /\ file[f] = "drain"
  /\ \A r \in cleanupList : irpFile[r] # f
  /\ file' = [file EXCEPT ![f] = "cleaned"]
  /\ UNCHANGED <<device, rundown, irpVars, cancelVars, pc, status, recordVars,
                 queueLock, cleanupList>>

Close(f) ==
  /\ IoCloseFile(f)
  /\ UNCHANGED <<pc, status, recordVars, queueLock, cleanupList>>

\* A DPC may still be under way; it then runs on the deleted device's
\* extension, and the model follows the outcome in which that is harmless.
EventUnload ==
  /\ device = "live"
  /\ NoOpenFiles
  /\ device' = "deleted"
  /\ UNCHANGED <<file, rundown, irpVars, cancelVars, pc, status, recordVars,
                 queueLock, cleanupList>>

\* The driver is gone: nothing is left to do.
Terminated ==
  /\ device = "deleted"
  /\ UNCHANGED vars

(***************************************************************************)
(* The specification                                                       *)
(***************************************************************************)

Dispatch(r) ==
  \/ DispatchEnter(r) \/ DispatchRefused(r) \/ RegisterFails(r)
  \/ AllocateIrpRecord(r) \/ AllocateEventRecord(r)
  \/ RegSetCancelRoutine(r) \/ RegCheckCancel(r) \/ RegCancelled(r)
  \/ RegLostToCancel(r) \/ RegInsert(r) \/ RegInsertEvent(r) \/ RegArmEvent(r)
  \/ CompleteDispatch(r) \/ DispatchRelease(r)

CancelStep(r) ==
  CallCancelRoutine(r) \/ EventCancelRoutine(r) \/ CancelComplete(r)

CustomTimerDPC(r) ==
  \/ DpcTakeIrp(r) \/ DpcLeaveToCancel(r) \/ DpcAfterCancel(r)
  \/ DpcSignalEvent(r) \/ DpcComplete(r) \/ DpcRelock(r) \/ DpcFree(r)

Cleanup(f) == CleanupWalk(f) \/ CleanupEnd(f)

Next ==
  \/ \E r \in Reqs :
       \/ \E f \in Files : Issue(r, f)
       \/ Dispatch(r) \/ Cancel(r) \/ CancelStep(r)
       \/ TimerExpire(r) \/ CustomTimerDPC(r) \/ CleanupComplete(r)
  \/ \E f \in Files : Create(f) \/ CleanupStart(f) \/ Cleanup(f) \/ Close(f)
  \/ EventUnload
  \/ Terminated

Spec == Init /\ [][Next]_vars

\* Threads and DPCs are scheduled, a timer that is armed expires, a cancel
\* routine that was called runs, and cleanup, once begun, goes on.  Whether
\* an application issues, cancels or closes is its own choice.
Fairness ==
  /\ \A r \in Reqs : /\ WF_vars(Dispatch(r))
                     /\ WF_vars(CancelStep(r))
                     /\ WF_vars(TimerExpire(r))
                     /\ WF_vars(CustomTimerDPC(r))
                     /\ WF_vars(CleanupComplete(r))
  /\ \A f \in Files : WF_vars(Cleanup(f)) /\ WF_vars(Close(f))

FairSpec == Spec /\ Fairness
(***************************************************************************)
(* Safety                                                                  *)
(***************************************************************************)

\* An IRP is never completed, nor handed to cleanup's list, with a cancel
\* routine that IoCancelIrp could still call on it.
OwnedIrpNotCancellable ==
  \A r \in Reqs :
    (completions[r] > 0 \/ r \in cleanupList \/ timer[r] = "complete")
      => ~ cancelRoutine[r] /\ canceller[r] # "called"

\* The record that a cancel routine, a DPC or a walk over the queue is about
\* to touch has not been freed, and nothing is freed twice.
NoUseAfterFree ==
  \A r \in Reqs :
    /\ mem[r] # "corrupt"
    /\ \/ timer[r] \in {"armed", "fired", "complete", "relock", "free"}
       \/ link[r] = "queue"
       \/ canceller[r] = "called" /\ LockFree
      => mem[r] = "live"

\* No entry is removed from EventQueueHead twice: DPC, cancel routine and
\* cleanup each call RemoveEntryList on a record without looking whether
\* another one has.
ListIntact == \A r \in Reqs : link[r] # "corrupt"

\* The ASSERTs of the cancel routine and of the DPC: DriverContext[3] is set
\* when the cancel routine gets the lock, and CancelRoutineFreeMemory is
\* FALSE when the DPC finds the IRP gone.
AssertsHold ==
  \A r \in Reqs :
    /\ canceller[r] = "called" /\ LockFree => context[r]
    /\ timer[r] = "fired" /\ kind[r] = "irp" /\ ~ pendingIrp[r] => ~ freeMem[r]

\* The comment in EventCleanup: a record whose timer it could not stop has a
\* DPC that waits for the lock.  So once cleanup has walked the queue, all
\* that is left there of the handle is about to be removed.
CleanupLeavesOnlyFired ==
  \A r \in Reqs :
    link[r] = "queue" /\ file[irpFile[r]] \in {"drain", "cleaned", "closed"}
      => timer[r] = "fired"

\* A record holds one reference on the application's event from the time it
\* is filled in until it is freed, and a DPC never signals an event without.
EventReferenceBalanced ==
  \A r \in Reqs :
    eventRef[r] = IF kind[r] = "event" /\ mem[r] = "live" /\ timer[r] # "free"
                  THEN 1 ELSE 0

\* What the application is told is what happened: SUCCESS for a pending IRP
\* means that its timer expired, CANCELLED that someone cancelled it or that
\* its handle was closed.
StatusHonest ==
  \A r \in Reqs : completions[r] > 0 =>
    /\ ioStatus[r] = "SUCCESS" /\ kind[r] = "irp" =>
         timer[r] \in {"relock", "free", "done"}
    /\ ioStatus[r] = "CANCELLED" =>
         cancel[r] \/ file[irpFile[r]] \in {"drain", "cleaned", "closed"}

\* EventUnload's ASSERTMSG "Event Queue is not empty".
UnloadQueueEmpty == device = "deleted" => EventQueue = {}

(***************************************************************************)
(* Liveness                                                                *)
(***************************************************************************)

\* No request stays unanswered.
EventuallyCompleted ==
  \A r \in Reqs : []<>(pc[r] # "idle" => completions[r] > 0)

\* No record stays allocated.
EventuallyFreed == \A r \in Reqs : []<>(mem[r] # "live")

(***************************************************************************)
(* The contract                                                            *)
(***************************************************************************)

handle == [f \in Files |->
             IF file[f] \in {"rundown", "drain"} THEN "cleanup" ELSE file[f]]

\* An IRP is idle in the queue as long as its timer runs and nobody has
\* taken its cancel routine.
PhaseOf(r) ==
  IF completions[r] > 1 THEN "twice"
  ELSE IF completions[r] = 1 THEN "completed"
  ELSE IF pc[r] = "idle" THEN "none"
  ELSE IF pc[r] \notin {"release", "done"} THEN "issued"
  ELSE IF timer[r] = "armed" /\ cancelRoutine[r] THEN "queued"
  ELSE "committed"

phase == [r \in Reqs |-> PhaseOf(r)]

Contract ==
  INSTANCE IrpContract WITH
    device <- device, handle <- handle, irpFile <- irpFile, phase <- phase

\* The driver keeps the contract of a driver that queues requests.
KeepsContract == Contract!Spec

(***************************************************************************)
(* The life of a record, as an inductive invariant.  At any time an IRP    *)
(* and its record are in one of the modes below; each names the activity   *)
(* that has the IRP to complete and the one that has the record to free.   *)
(***************************************************************************)

\* Nobody can call the cancel routine any more, or not yet.
NotCalled(r) == canceller[r] = "idle" \/ (canceller[r] = "swap" /\ cancel[r])
Quiet(r) == ~ cancelRoutine[r] /\ NotCalled(r)

Cancellable(r) == cancelRoutine[r] /\ NotCalled(r)

\* EventCancelRoutine waits for QueueLock.
CancelWaits(r) == ~ cancelRoutine[r] /\ canceller[r] = "called" /\ cancel[r]

\* EventCancelRoutine has released QueueLock.
CancelAnswers(r) ==
  /\ ~ cancelRoutine[r] /\ cancel[r]
  /\ \/ canceller[r] = "answer" /\ completions[r] = 0
     \/ canceller[r] = "end" /\ completions[r] = 1

\* The dispatch thread completes the IRP, or has.
DispatchAnswers(r) ==
  \/ pc[r] = "complete" /\ completions[r] = 0
  \/ pc[r] \in {"release", "done"} /\ completions[r] = 1

Record(r, k, m, l) ==
  kind[r] = k /\ mem[r] = m /\ link[r] = l /\ (k # "event" => eventRef[r] = 0)

NoRecord(r) ==
  /\ Record(r, "none", "none", "self") /\ timer[r] = "none" /\ Quiet(r)
  /\ r \notin cleanupList /\ status[r] \notin {"SUCCESS", "CANCELLED"}
  /\ \/ pc[r] \in {"idle", "enter", "register"} /\ completions[r] = 0
     \/ DispatchAnswers(r)

Registering(r) ==
  /\ Record(r, "irp", "live", "self") /\ timer[r] = "none"
  /\ pendingIrp[r] /\ completions[r] = 0 /\ r \notin cleanupList
  /\ \/ pc[r] = "lock" /\ Quiet(r)
     \/ pc[r] \in {"check", "insert"} /\ (Cancellable(r) \/ CancelWaits(r))
     \/ pc[r] = "clear" /\ cancel[r] /\ (Cancellable(r) \/ CancelWaits(r))

GivenUp(r) ==
  /\ Record(r, "irp", "freed", "self") /\ timer[r] = "none" /\ Quiet(r)
  /\ cancel[r] /\ r \notin cleanupList
  /\ DispatchAnswers(r) /\ status[r] = "CANCELLED"

Registered(r) == pc[r] \in {"release", "done"}

Queued(r) ==
  /\ Registered(r) /\ Record(r, "irp", "live", "queue")
  /\ timer[r] \in {"armed", "fired"}
  /\ pendingIrp[r] /\ ~ freeMem[r] /\ context[r]
  /\ completions[r] = 0 /\ r \notin cleanupList
  /\ Cancellable(r) \/ CancelWaits(r)

\* The cancel routine found the DPC under way: the DPC frees the record.
LeftToDpc(r) ==
  /\ Registered(r) /\ Record(r, "irp", "live", "self")
  /\ timer[r] \in {"fired", "free"}
  /\ ~ pendingIrp[r] /\ ~ freeMem[r] /\ r \notin cleanupList
  /\ CancelAnswers(r)

\* The DPC, or cleanup, found the cancel routine under way: that one frees it.
LeftToCancel(r) ==
  /\ Registered(r) /\ Record(r, "irp", "live", "self")
  /\ timer[r] \in {"stopped", "done"}
  /\ pendingIrp[r] /\ freeMem[r] /\ context[r]
  /\ completions[r] = 0 /\ r \notin cleanupList
  /\ CancelWaits(r)

DpcOwns(r) ==
  /\ Registered(r) /\ Record(r, "irp", "live", "stale") /\ Quiet(r)
  /\ r \notin cleanupList /\ pendingIrp[r]
  /\ \/ timer[r] = "complete" /\ completions[r] = 0
     \/ timer[r] \in {"relock", "free"} /\ completions[r] = 1

CleanupOwns(r) ==
  /\ Registered(r) /\ Record(r, "irp", "freed", "stale") /\ Quiet(r)
  /\ timer[r] = "stopped"
  /\ \/ r \in cleanupList /\ completions[r] = 0
     \/ r \notin cleanupList /\ completions[r] = 1

Gone(r) ==
  /\ Registered(r) /\ kind[r] = "irp" /\ mem[r] = "freed" /\ eventRef[r] = 0
  /\ link[r] \in {"self", "stale"} /\ r \notin cleanupList
  /\ timer[r] \in {"stopped", "done"}
  /\ \/ CancelAnswers(r)
     \/ Quiet(r) /\ completions[r] = 1 /\ timer[r] = "done"

\* EVENT_BASED: the IRP is only the dispatch thread's, the record is not.
EventRecord(r) ==
  /\ kind[r] = "event" /\ Quiet(r) /\ r \notin cleanupList
  /\ \/ /\ pc[r] = "insertEvent" /\ completions[r] = 0 /\ eventRef[r] = 1
        /\ mem[r] = "live" /\ link[r] = "self" /\ timer[r] = "none"
     \/ /\ pc[r] = "arm" /\ completions[r] = 0 /\ eventRef[r] = 1
        /\ mem[r] = "live" /\ link[r] = "queue" /\ timer[r] = "none"
     \/ /\ DispatchAnswers(r) /\ status[r] = "SUCCESS"
        /\ \/ /\ mem[r] = "live" /\ link[r] = "queue" /\ eventRef[r] = 1
              /\ timer[r] \in {"armed", "fired"}
           \/ /\ mem[r] = "live" /\ link[r] = "stale" /\ eventRef[r] = 0
              /\ timer[r] = "free"
           \/ /\ mem[r] = "freed" /\ link[r] = "stale" /\ eventRef[r] = 0
              /\ timer[r] \in {"stopped", "done"}

Mode(r) ==
  \/ NoRecord(r) \/ Registering(r) \/ GivenUp(r) \/ Queued(r) \/ LeftToDpc(r)
  \/ LeftToCancel(r) \/ DpcOwns(r) \/ CleanupOwns(r) \/ Gone(r)
  \/ EventRecord(r)

\* Every IRP and its record are in one of the modes, whatever the order in
\* which registration, DPC, cancel routine and cleanup got to them.
RecordLife == \A r \in Reqs : Mode(r)

\* The thread that holds QueueLock is between RegSetCancelRoutine and RegInsert.
LockHolder ==
  \A r \in Reqs : pc[r] \in {"check", "clear", "insert"} <=> queueLock = r

\* Whoever dispatches on a handle has it rundown-protected; what cleanup took
\* out it completes before it ends.
HandleInUse ==
  \A r \in Reqs :
    /\ pc[r] = "idle" <=> irpFile[r] = NoFile
    /\ pc[r] # "idle" => file[irpFile[r]] # "none"
    /\ pc[r] \notin {"idle", "enter", "done"} => r \in rundown[irpFile[r]]
    /\ r \in cleanupList => pc[r] # "idle" /\ file[irpFile[r]] = "drain"

IInv ==
  /\ TypeOK
  /\ RecordLife
  /\ LockHolder
  /\ HandleInUse
  /\ FileContextAlive
  /\ CleanupLeavesOnlyFired
  /\ StatusHonest
=============================================================================
