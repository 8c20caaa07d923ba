------------------------------ MODULE IoManager ------------------------------
(***************************************************************************)
(* The part of the Windows I/O manager that the drivers of this project    *)
(* are called by and call back: file objects and their handles, I/O        *)
(* request packets (IRPs) and their cancellation, the remove lock that     *)
(* every driver keeps in its FILE_CONTEXT, and the device object.          *)
(*                                                                         *)
(* This code is not in the repository.  It is modelled from how            *)
(* general/event and general/cancel use it: each operator below is one     *)
(* atomic operation of the kernel, and a driver module conjoins it with    *)
(* what the driver's own code does around it.                              *)
(***************************************************************************)
EXTENDS Naturals

CONSTANTS
  Files,    \* file objects opened on the device
  Reqs,     \* IRPs; each one is issued at most once
  NoFile    \* "this IRP was not issued yet"

ASSUME IoAssumption == NoFile \notin Files

VARIABLES
  device,         \* "live" until IoDeleteDevice, then "deleted"
  file,           \* life of each file object, see FileStates
  rundown,        \* rundown[f]: the IRPs that hold f's FileRundownLock
  irpFile,        \* the file object an IRP was issued on
  ioStatus,       \* Irp->IoStatus.Status
  completions,    \* how often IoCompleteRequest was called on the IRP
  cancel,         \* Irp->Cancel
  cancelRoutine,  \* TRUE while Irp->CancelRoutine is not NULL
  canceller       \* progress of the IoCancelIrp call on the IRP

irpVars == <<irpFile, ioStatus, completions>>
cancelVars == <<cancel, cancelRoutine, canceller>>
ioVars == <<device, file, rundown, irpVars, cancelVars>>

\* "rundown" : IRP_MJ_CLEANUP waits in IoReleaseRemoveLockAndWait
\* "drain"   : cleanup has emptied the queue and completes what it took out
\* "cleaned" : the cleanup IRP is complete;  "closed" : FsContext is freed
FileStates == {"none", "open", "rundown", "drain", "cleaned", "closed"}

\* "swap"   : Irp->Cancel is set, the cancel routine is not yet exchanged
\* "called" : the driver's cancel routine was called
\* "answer" : the cancel routine has let go of the queue lock
CancellerStates == {"idle", "swap", "called", "answer", "end"}

Statuses == {"NONE", "SUCCESS", "CANCELLED", "DELETE_PENDING", "INVALID",
             "RESOURCES"}

IoTypeOK ==
  /\ device \in {"live", "deleted"}
  /\ file \in [Files -> FileStates]
  /\ rundown \in [Files -> SUBSET Reqs]
  /\ irpFile \in [Reqs -> Files \cup {NoFile}]
  /\ ioStatus \in [Reqs -> Statuses]
  /\ completions \in [Reqs -> Nat]
  /\ cancel \in [Reqs -> BOOLEAN]
  /\ cancelRoutine \in [Reqs -> BOOLEAN]
  /\ canceller \in [Reqs -> CancellerStates]

IoInit ==
  /\ device = "live"
  /\ file = [f \in Files |-> "none"]
  /\ rundown = [f \in Files |-> {}]
  /\ irpFile = [r \in Reqs |-> NoFile]
  /\ ioStatus = [r \in Reqs |-> "NONE"]
  /\ completions = [r \in Reqs |-> 0]
  /\ cancel = [r \in Reqs |-> FALSE]
  /\ cancelRoutine = [r \in Reqs |-> FALSE]
  /\ canceller = [r \in Reqs |-> "idle"]

Outstanding(r) == irpFile[r] # NoFile /\ completions[r] = 0

(***************************************************************************)
(* Operations on one IRP.                                                  *)
(***************************************************************************)

\* Irp->IoStatus.Status = status; IoCompleteRequest(Irp, ...)
IoCompleteRequest(r, status) ==
  /\ ioStatus' = [ioStatus EXCEPT ![r] = status]
  /\ completions' = [completions EXCEPT ![r] = @ + 1]
  /\ UNCHANGED irpFile

\* An application thread hands the IRP to the driver's dispatch routine.
IssueIrp(r, f) ==
  /\ irpFile[r] = NoFile
  /\ file[f] = "open"
  /\ irpFile' = [irpFile EXCEPT ![r] = f]
  /\ UNCHANGED <<device, file, rundown, ioStatus, completions, cancelVars>>

\* IoSetCancelRoutine: the exchange is atomic, its result is the old value.
SetCancelRoutine(r, set) ==
  cancelRoutine' = [cancelRoutine EXCEPT ![r] = set]

\* IoCancelIrp, first half: Irp->Cancel = TRUE.  Cancellation takes no lock
\* of the driver, and may come again as long as the IRP is not complete.
IoCancelIrp(r) ==
  /\ Outstanding(r)
  /\ canceller[r] = "idle"
  /\ cancel' = [cancel EXCEPT ![r] = TRUE]
  /\ canceller' = [canceller EXCEPT ![r] = "swap"]
  /\ UNCHANGED <<device, file, rundown, irpVars, cancelRoutine>>

\* IoCancelIrp, second half: exchange the cancel routine with NULL and call
\* it when there was one.
IoCallCancelRoutine(r) ==
  /\ canceller[r] = "swap"
  /\ SetCancelRoutine(r, FALSE)
  /\ canceller' = [canceller EXCEPT
                     ![r] = IF cancelRoutine[r] THEN "called" ELSE "idle"]
  /\ UNCHANGED <<device, file, rundown, irpVars, cancel>>

(***************************************************************************)
(* File objects and the remove lock.                                       *)
(***************************************************************************)

IoCreateFile(f) ==
  /\ device = "live"
  /\ file[f] = "none"
  /\ file' = [file EXCEPT ![f] = "open"]
  /\ UNCHANGED <<device, rundown, irpVars, cancelVars>>

\* IoReleaseRemoveLockAndWait has put the lock in the removed state.
LockRemoved(f) == file[f] \notin {"none", "open"}

IoAcquireRemoveLock(r) ==
  /\ ~ LockRemoved(irpFile[r])
  /\ rundown' = [rundown EXCEPT ![irpFile[r]] = @ \cup {r}]

IoReleaseRemoveLock(r) ==
  rundown' = [rundown EXCEPT ![irpFile[r]] = @ \ {r}]

\* The last handle is closed: IRP_MJ_CLEANUP reaches the driver, which takes
\* the remove lock and gives it back in IoReleaseRemoveLockAndWait.
IoCloseHandle(f) ==
  /\ file[f] = "open"
  /\ file' = [file EXCEPT ![f] = "rundown"]
  /\ UNCHANGED <<device, rundown, irpVars, cancelVars>>

\* IRP_MJ_CLOSE is sent when cleanup is over and no IRP refers to the file.
IoCloseFile(f) ==
  /\ file[f] = "cleaned"
  /\ \A r \in Reqs : irpFile[r] = f => completions[r] > 0
  /\ file' = [file EXCEPT ![f] = "closed"]
  /\ UNCHANGED <<device, rundown, irpVars, cancelVars>>

\* The driver is unloaded only when no file object refers to its device.
NoOpenFiles == \A f \in Files : file[f] \in {"none", "closed"}

(***************************************************************************)
(* What every one of the drivers owes the I/O manager                      *)
(***************************************************************************)

\* An IRP is completed at most once, whoever wins it: the dispatch thread,
\* the DPC or polling thread, the cancel routine or cleanup.
CompletedOnce == \A r \in Reqs : completions[r] <= 1

\* The thread that still has the FileRundownLock to release, which it does
\* after its IRP may have been completed, finds the file context there, and is
\* not late: cleanup has not looked at the queue.
FileContextAlive ==
  \A f \in Files : rundown[f] # {} => file[f] \in {"open", "rundown"}
=============================================================================
