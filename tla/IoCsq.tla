-------------------------------- MODULE IoCsq --------------------------------
(***************************************************************************)
(* The cancel-safe queue of the kernel (IoCsqInsertIrp, IoCsqRemoveNextIrp *)
(* and the cancel routine it sets), which calls back the driver to lock    *)
(* the queue, to insert, peek and remove an IRP and to complete one that   *)
(* was cancelled.                                                          *)
(*                                                                         *)
(* The library is not in the repository: it is modelled from how           *)
(* general/cancel uses it.  The callbacks that the two drivers have in     *)
(* common are modelled here; what differs is in the drivers' modules.      *)
(***************************************************************************)
EXTENDS IoManager, SequencesExt

CONSTANTS
  NoReq    \* no IRP; nobody holds QueueLock across steps

ASSUME CsqAssumption == NoReq \notin Reqs

VARIABLES
  queue,       \* DEVICE_EXTENSION.PendingIrpQueue
  queueLock    \* who holds QueueLock between two steps

csqVars == <<queue, queueLock>>

CsqTypeOK ==
  /\ queue \in Seq(Reqs)
  /\ queueLock \in Reqs \cup {NoReq}

CsqInit ==
  /\ queue = << >>
  /\ queueLock = NoReq

LockFree == queueLock = NoReq

OfFile(f) == {r \in Reqs : irpFile[r] = f}

\* An IRP whose cancel routine was already called is skipped.
TakesIrp(r) == cancelRoutine[r]

\* IoCsqRemoveNextIrp finds queue[i], the first IRP of S that it can get.
IsNext(i, S) ==
  /\ i \in DOMAIN queue
  /\ queue[i] \in S /\ TakesIrp(queue[i])
  /\ \A j \in 1 .. i - 1 : ~ (queue[j] \in S /\ TakesIrp(queue[j]))

\* Mutant: the search gives up at the first IRP that it cannot get.
HeadNotTaken(S) ==
  \A i \in DOMAIN queue : i = 1 => ~ (queue[i] \in S /\ TakesIrp(queue[i]))

NoneLeft(S) == \A i \in DOMAIN queue : ~ (queue[i] \in S /\ TakesIrp(queue[i]))

\* It clears the cancel routine and calls the driver to unlink the IRP.
CsqTake(i) ==
  /\ LockFree
  /\ queue' = RemoveAt(queue, i)
  /\ SetCancelRoutine(queue[i], FALSE)
  /\ UNCHANGED queueLock

\* CsampRemoveIrp, for an IRP that is somewhere in the queue
CsqUnlink(r) ==
  \E i \in DOMAIN queue : queue[i] = r /\ queue' = RemoveAt(queue, i)

\* The cancel routine of the queue, up to its release of QueueLock.
CsqCancelRoutine(r) ==
  /\ canceller[r] = "called"
  /\ LockFree
  /\ canceller' = [canceller EXCEPT ![r] = "answer"]
  /\ CsqUnlink(r)
  /\ UNCHANGED <<device, file, rundown, irpVars, cancel, cancelRoutine,
                 queueLock>>

\* CsampCompleteCanceledIrp, called from that cancel routine
CsqCompleteCanceledIrp(r) ==
  /\ canceller[r] = "answer"
  /\ canceller' = [canceller EXCEPT ![r] = "end"]
  /\ IoCompleteRequest(r, "CANCELLED")
  /\ UNCHANGED <<device, file, rundown, cancel, cancelRoutine, csqVars>>

\* No IRP is linked twice: else an unlinked one would still be found.
NoDuplicates == \A i, j \in DOMAIN queue : queue[i] = queue[j] => i = j
=============================================================================
