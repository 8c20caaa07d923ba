----------------------------- MODULE RemoveLock -----------------------------
(***************************************************************************)
(* storage/class/classpnp: the remove lock of a device (lock.c) and the    *)
(* part of ClassRemoveDevice that waits for it.                            *)
(*                                                                         *)
(* The lock is rundown protection, which cannot be acquired any more once  *)
(* ClassRemoveDevice waits for it.  Callers release it whether they got it *)
(* or not: failed acquisitions are counted, and a release takes one off    *)
(* that count, its own or someone else's, before it gives protection up.   *)
(* A call is one step here.                                                *)
(***************************************************************************)
EXTENDS Integers

VARIABLES
  device,     \* progress of IRP_MN_REMOVE_DEVICE
  rundown,    \* references that RemoveLockRundown counts
  failed      \* RemoveLockFailAcquire

lockVars == <<device, rundown, failed>>

\* "removing": IsRemoved is set, and the rundown has begun.
\* "removed": the wait is over, and the data of the device is freed.
Device == {"present", "removing", "removed"}

LockTypeOK ==
  /\ device \in Device
  /\ rundown \in Nat
  /\ failed \in Nat

\* The device itself holds a reference.
LockInit ==
  /\ device = "present"
  /\ rundown = 1
  /\ failed = 0

IsRemoved == device # "present"

ClassAcquireRemoveLock ==
  /\ IF device = "present"
       THEN rundown' = rundown + 1 /\ UNCHANGED failed
       ELSE failed' = failed + 1 /\ UNCHANGED rundown
  /\ UNCHANGED device

ReleasedLock ==
  IF failed # 0
    THEN failed' = failed - 1 /\ UNCHANGED rundown
    ELSE rundown' = rundown - 1 /\ UNCHANGED failed

ClassReleaseRemoveLock ==
  /\ ReleasedLock
  /\ UNCHANGED device

\* ClassDispatchPnp sets IsRemoved; ClassRemoveDevice releases the device's
\* own reference and waits for the others, in one step: in between, no new
\* request gets in, and who else acquires the lock could do so before.
RemoveWait ==
  /\ device = "present"
  /\ device' = "removing"
  /\ ReleasedLock

\* Mutant: the device is freed when nobody but the last caller is left.
RundownOverButOne == rundown <= 1

RundownOver == rundown = 0

\* and frees the device's data.
RemoveDone ==
  /\ device = "removing"
  /\ RundownOver
  /\ device' = "removed"
  /\ UNCHANGED <<rundown, failed>>
=============================================================================
