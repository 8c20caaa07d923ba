# TLA+ models of the Windows driver samples

The repository is the collection of driver samples of the Windows Driver Kit:
some 130 independent drivers, from one C file to a file system. What they have
in common is the environment. A driver is a set of callbacks that the kernel
runs at any time, on any processor: dispatch routines in the threads of
applications, cancel routines, timers' DPCs, completion routines, cleanup and
close of handles, unload. Most of the samples exist to show how such callbacks
are kept out of each other's way, and their comments state why that works.
These models check those arguments.

A whole of 1.6 million lines is not modelled here. The project takes drivers
whose *protocol* is the point: four small samples, modelled completely, and of
two large drivers the part where callbacks race most, the read path of the UART
driver and the transfer packets of the storage class driver. The rest is listed
below with the reason why it is left out.

## 1. Inventory

### Modelled

| Component | State it keeps | Operations | Modules |
|---|---|---|---|
| `general/event/wdm` event notification | list of records, each with IRP or event object, timer, `CancelRoutineFreeMemory`; `QueueLock`; per-handle remove lock | register (IRP or event), timer DPC, cancel, cleanup, close, unload | `EventNotify` |
| `general/cancel/sys` cancel-safe queue with polling thread | IRP queue, semaphore, `ThreadShouldStop`, poll count in the IRP's buffer, remove lock | read, poll, cancel, cleanup, close, unload | `CancelSafe`, `IoCsq` |
| `general/cancel/startio` cancel-safe queue without a thread | IRP queue, `CurrentIrp`, polling timer, remove lock | read, `CsampInitiateIo` from a reader or from the DPC, cancel, cleanup, close, unload | `StartIo`, `IoCsq` |
| `network/wsk/echosrv` kernel echo server | lock-free work queue with event and stop flag, socket contexts with two operation contexts each | accept, receive, send, disconnect, close, free, start and stop listening, worker thread, unload | `WskEcho` |
| `serial/serial` UART driver: reading | read queue and current read with its reference bits, interrupt buffer and the read's own buffer, two timers, three DPCs | read, resize, receive interrupt, timeouts, cancel, purge, abort on error | `SerialRead`, `RxBuffer` |
| `storage/class/classpnp` class driver: reads and writes | transfer packets and their free list, deferred requests, throttling counters, remove lock | split, send, retry, chunk, complete, defer, remove device | `XferPacket`, `RemoveLock` |
| I/O manager, `IO_CSQ`, WSK, WDF (outside the repository) | IRPs, cancel routines, handles, remove locks; sockets | modelled from how the drivers use them | `IoManager`, `IoCsq`, parts of `WskEcho` and `SerialRead` |

Callbacks of one driver interact through the shared state of the second column
only; the kernel connects them. An IRP goes from an application to the dispatch
routine, into a queue, and from there to whichever of service, cancellation and
cleanup gets it first. In the echo server an operation context goes round
between worker thread and WSK, one handler and one completion routine after the
other.

What is hard in each, and what makes it correct:

* **event**: four activities race for one record and its IRP. They do not know
  of each other but through two atomic results (`IoSetCancelRoutine`,
  `KeCancelTimer`) and a flag. Correct: one of them completes the IRP, one
  frees the record, later than all others touch it; the list entry is removed
  once; the event object is dereferenced once; the status is true; nothing of a
  handle stays behind after cleanup; unload finds nothing.
* **cancel/sys**: wakeups are counted per insertion while IRPs leave the queue
  without waiting. Correct: an IRP is completed once; one that can still be
  served is never without a wakeup; a cancellation during insertion is not
  missed; unload terminates the thread wherever it is.
* **cancel/startio**: the role of serving the device moves from reader to DPC to
  reader, marked by one pointer that is read outside the lock. Correct: exactly
  one context has the role while the device is busy; no IRP waits while it is
  idle; a handle's cleanup terminates although its thread serves others.
* **echosrv**: two operations of a socket proceed on their own; both may decide
  to close it; the context must outlive both. The worker sleeps on an event
  that only some pushes set. Correct: an operation is in one place at a time; a
  context is freed once, after its last use; WSK is called on open sockets
  only; no wakeup is lost; unload ends.
* **serial**: the ISR, two timers and cancellation all work on the current read
  and each holds one bit of its reference count. The ISR stores characters while
  the driver copies others from the same ring. Correct: the bits are exactly
  those who may still use the read; the last of them completes it, once, and
  the next is started; characters reach the application in order, none lost
  while there is room; a read whose time is over is answered.
* **classpnp**: the pieces of a request complete on any processor, fail and are
  retried on their own, and packets may run out at any point. Correct: the last
  piece completes the request, with everything transferred once; retries end;
  the counters that hold back normal requests are balanced; the device stays
  until the last one that uses it is done.

### Not modelled

`PROJECT.json` lists every other group of samples as a component with its
reason. In short: the file systems, disk, CD-ROM and port drivers are dominated by
data structures on disk and by the subsystems around them; audio, camera,
imaging, printing, sensor and identification samples are data processing in
callbacks that a framework serialises; utilities and applications have no state
of their own. Candidates for further work, in this order, are in section 7.

The applications in `general/event/exe` and `general/cancel/exe` are covered by
the environment of the models: any application may open handles, issue, cancel
and close in any order.

## 2. Modules

| Module | What it is |
|---|---|
| `IoManager` | The kernel's side of an IRP (`IoCancelIrp`, cancel routines, completion), of a handle (create, cleanup, close) and of its remove lock. Its operators have the names of the kernel routines. |
| `IoCsq` | The cancel-safe queue that both `cancel.c` build from `IO_CSQ` callbacks. |
| `IrpContract` | What a driver that queues requests promises, without queue, locks, timers, or threads. |
| `EventNotify` | `event.c`; ends with its inductive invariant. |
| `CancelSafe`, `StartIo` | The two `cancel.c`. |
| `WskEcho` | `wsksmple.c` with WSK and the peers. |
| `RxBuffer` | Where the ISR of the UART driver stores characters, and how they are copied from the ring. |
| `SerialRead` | The read path of the UART driver: `read.c`, and what it uses of `isr.c`, `utils.c`, `purge.c`, `error.c`, `ioctl.c`. |
| `ByteStream` | What a reader is promised: characters come in the order of arrival, each once; one is lost only when the typeahead buffer is full, with the read that has it and is aborted, or in a purge of the typeahead buffer, which leaves those that a read has. |
| `RemoveLock` | `lock.c` of classpnp, and the part of `ClassRemoveDevice` that waits for it. |
| `XferPacket` | `ServiceTransferRequest`, `xferpkt.c`, `retry.c`, `clntirp.c`. |
| `EventNotifyProofs`, `EventContractProofs`, `IoCsqProofs`, `CancelSafeProofs`, `StartIoProofs`, `WskEchoProofs`, `SerialReadProofs`, `XferPacketProofs` | Proofs. |
| `MC...` | Model values and symmetry for TLC. |

`EventNotify` extends `IoManager`; `CancelSafe` and `StartIo` extend `IoCsq`,
which extends `IoManager`. The three of them are shown to implement
`IrpContract` (`Contract == INSTANCE IrpContract WITH ...`, substituting state
functions of the driver, property `KeepsContract`). `SerialRead` extends
`RxBuffer` and implements `ByteStream` in the same way (`KeepsStream`).
`XferPacket` extends `RemoveLock`. `WskEcho`, `SerialRead` and `XferPacket` have
environments of their own.

### How actions correspond to code

One action is what no other activity can observe in the middle: a section under
a spin lock, an interlocked operation, a stretch between two such points. Each
thread has a program counter (`pc`, `thread`, `io`, `worker`, `unload`) that
names where it stands between two of them. In particular:

* In `EventNotify` everything done under `QueueLock` is one action, except in
  `RegisterIrpBasedNotification`, where cancellation, which does not take the
  lock at first, may come between `IoSetCancelRoutine`, the test of
  `Irp->Cancel` and the insertion. There `queueLock` names the holder, and the
  others wait. `RegInsertEvent` and `RegArmEvent` are two actions since the
  timer of an event record is set after the lock is released.
* A cancellation has three steps: `IoCancelIrp` sets `Cancel` and fetches the
  cancel routine, which runs later, and completes the IRP later still
  (`canceller`).
* In `CancelSafe` and `StartIo`, `IoCsqInsertIrp` is an insertion followed by
  the test for a cancellation that came first, as `IO_CSQ` does it; the other
  callbacks are atomic under `QueueLock`. `CsampPollDevice` is modelled with the
  countdown it keeps in the IRP's buffer, the only data that changes control.
* In `WskEcho`, `InterlockedPushEntrySList` and the later `KeSetEvent` of
  `WskSampleEnqueueOp` are separate, except when the worker thread calls it,
  since only the worker reads what they change. A handler is one action, as all
  state it reads belongs to the worker thread; only the re-creation of a
  listening socket, which waits for WSK inside the handler, is two.
  `WskSampleAcceptEvent` enqueues its two operations in two actions. The queue
  is kept oldest entry first; the SLIST is last-in-first-out, and the reversal
  of the flushed list is the definition `FirstFirst`.

* In `SerialRead` the framework's lock of the device, under which it runs queue
  callbacks, DPCs, timers and cancel routines (`pnp.c` asks for device level
  synchronisation), is `pc`: "free", or where its holder stands. A callback is
  one action except where the ISR may come between two of its steps:
  `SerialStartRead` copies, then locks out interrupts to subtract what it
  copied, then starts timers; a resize moves twice; the interval timer decides,
  then grabs the read. The ISR (`PutChar`), the expiry of timers and requests to
  cancel come at any time.
* In `XferPacket` a call of `ServiceTransferRequest` takes a step for each packet
  it takes and each piece it sends, `TransferPktComplete` one for the result, one
  for the countdown, and one each for throttling, the free list and the deferred
  list. Transfers have an offset in a page and a length, both in sectors, and a
  request knows the set of sectors that were transferred for it, so that a sector
  transferred twice or never shows.

Memory is a state per object (`none`, `live`, `freed`, `corrupt`), and `corrupt`
is what freeing twice, or removing a stale list entry again, leads to. Memory
that is read before it is initialised (`CancelRoutineFreeMemory`) has any value.
A late use of what unload has freed has no effect in the models; that it may
happen is what the runs `event_unload_assert` and `startio_unload` show.

Left out: tracing, parameter formatting, allocation failures that refuse a
request before it changes anything, priorities. The four small drivers have no
power management or PnP dispatch. Of the UART driver, writing, flow control,
event masks, power transitions, and the registers are left out; of classpnp,
packets for requests other than reads and writes, drivers with a StartIo
routine, idle-priority requests, several NUMA nodes, the work item that trims
the free list above its upper threshold, and separate retry limits after
timeouts. The headers of the modules say the same.

## 3. Properties and runs

TLC's runs, with deadlock checked except in `XferPacket`, where the system
stops when all requests are answered or deferred for good. `Terminated`, in the
others, is a stuttering action that marks the states in which the driver is
unloaded or the application is done. Every module's type invariant is checked by
one of its runs, but for that of `StartIo`, which is only proved (`TypeCorrect`).

| Run | Instance | Shows |
|---|---|---|
| `event` | 1 handle, 2 IRPs | All safety invariants of `EventNotify`, `KeepsContract`; every IRP is completed, every record freed. |
| `event_unload_assert` | same | **Violation**: the assertion in `EventUnload`. |
| `cancel_safety` | 2 handles, 2 IRPs, `MaxData` 1, symmetric | No wakeup is lost, and `KeepsContract`. |
| `cancel_liveness` | 1 handle, 2 IRPs | Every read is answered, unload ends. |
| `startio_safety` | 1 handle, 3 IRPs, `MaxData` 1, symmetric | Exactly one context is in charge of a busy device, and no IRP waits for an idle one. |
| `startio_liveness` | 2 handles, 2 IRPs | `KeepsContract`, every read is answered, every closed handle goes away. |
| `startio_unload` | 1 handle, 2 IRPs | **Violation**: the DPC is in `CsampInitiateIo` when the device is deleted. |
| `wsk_echo` | listener and 1 connection, 4 operation contexts, `MaxSignals` 1 | Safety and liveness of `WskEcho`. |
| `wsk_exit` | same | **Violation**: the worker thread exits with an operation on the queue. |
| `serial_read` | 2 requests of up to 2 characters, 3 characters, a ring of 2 that a resize makes 3, all timeout modes | Reference counts, single completion, the queue is served, `KeepsStream`, due reads are completed. |
| `xfer_packet` | 2 requests of 1 or 2 pieces, one critical, 2 packets of which 1 is kept, 1 retry | Pieces are counted, transfers whole, throttling balanced, the device outlives its users, retries end. |
| `xfer_deferred` | same, none critical | **Violation**: a request is deferred with nothing left to take it off the list. |

The properties are stated with their comments at the end of each module. Every
one of them is falsified by at least one plausible mistake in the code, kept
beside the definition it would replace and marked `Mutant:`.

### Bounds, and why they are enough

* *Handles.* A handle interacts with another only through the queue of the
  device. Two handles give every case: cleanup of one while the other registers,
  is served, or is cleaned up itself. `event` has one: the proofs of section 4
  cover the safety of any number, and liveness is about one record and whoever
  waits for the lock. `startio_safety` has one for the sake of a third IRP; the
  contract is checked with two.
* *IRPs.* All decisions are about one IRP, or about one IRP and the rest of the
  queue. Two IRPs put a foreign entry before and behind; `startio_safety` has
  three, for one that is current and two that are queued. Each IRP is used once:
  a reuse would start in the same state.
* *`MaxData`* bounds how often a poll finds the device not ready: 1 gives a poll
  that fails and one that succeeds.
* *Connections.* They share the work queue and the worker thread with the
  listening socket. One connection and the listening socket already put
  operations of different sockets before and behind each other. A connection is
  accepted once.
* *`MaxSignals`* bounds the calls of `WskSampleEnqueueOp` that are preempted
  between push and `KeSetEvent`; beyond it, a call is not preempted. No guard
  depends on it.
* The listening socket may go deaf, and be recreated, any number of times.
* *Serial.* One request is current, and the other waits, resizes, or comes
  later. With a ring of two slots and three characters the ring wraps, is full
  and overruns; a read of two characters may be satisfied by the ring, by the
  ISR, or by both.
* *Transfer packets.* Pages have two sectors, a piece at most three, and buffers
  begin in the middle of a page: a request has one piece or two, and a piece one
  chunk to three. With two packets two requests can run out of them with none
  or one in hand. One retry gives a failure that is retried, and one that is not.

### Fairness

Weak fairness of the work that is under way: threads, DPCs, called cancel
routines and cleanup once begun. All are runnable entities of the kernel's
scheduler, and none waits for anything that the property needs in turn. In
`StartIo` and `XferPacket` it is one condition on all of them (`Work`): each of
their steps is one of finitely many, so that whatever is under way ends. A spin lock that is
held is released by its holder's next steps, and the sections under it are
atomic or finite. Timers that are set expire. In `WskEcho`, WSK completes the
requests it was given, and peers leave at some time. That is the assumption that the comment in
`WskSampleUnload` makes ("the unload of the driver will be blocked until the
last connection is disconnected by the peer"). Nothing is assumed about
applications: they need not cancel, close or unload. In `SerialRead` timers
expire and the holder of the lock goes on; the line may stay silent. In
`XferPacket` the lower driver returns every packet, if only because it times
out, and may fail all of them.

### What the violations show

1. `event_unload_assert`. `EventCleanup` leaves a record in the queue if
   `KeCancelTimer` fails, for the DPC to free. An EVENT_BASED record has no
   outstanding IRP, so the handle closes and `EventUnload` may run before that
   DPC has got the lock. Its `ASSERTMSG` fails, and the DPC would then use the
   deleted device extension.
2. `startio_unload`. `CsampInitiateIo` completes the last IRP, then calls
   `IoCsqRemoveNextIrp` once more. Between the two the handle can close and the
   device be deleted, while `CsampUnload`'s comment concludes from the absence
   of IRPs that nothing needs to be waited for.
3. `wsk_exit`. The worker thread tests `Stop` after it found the queue empty. An
   operation enqueued in between, before `Stop` was set, is left, and with it
   its socket context. `EventuallyFreed` therefore excludes an exited worker.
   Nothing else depends on that: unload ends all the same.
4. `xfer_deferred`. `ServiceTransferRequest` finds no packet, and defers the
   request "until some TRANSFER_PACKETs free up". In between, the completion of
   the requests that had the packets frees them and finds the list of deferred
   requests empty. The request is then put on it, with no request outstanding
   whose completion would look again, and it keeps the remove lock: a removal
   of the device waits for it. Another request's completion would free it.

One more comment is true only under an assumption: "we enqueue new operations
only from the context of IRP completions on the socket" (`wsksmple.c:1334`). The
accept callback is the exception. It is harmful only if WSK completes the close
of an accepted socket while the accept callback for it has not returned, which
is what the constant `AcceptHoldsSocket` excludes in `wsk_echo`; the repository
does not say. Without it the worker may close the socket and free the context
while the callback has yet to enqueue the second operation. The properties of
`wsk_echo` therefore cover the other hazards of that callback, not this one.

## 4. Proofs

TLAPS proves the following for every set of handles, IRPs, connections and
requests, and buffers of any size; the assumptions are `IoAssumption`,
`CsqAssumption`, `EventAssumption`, `CancelSafeAssumption`, `StartIoAssumption`,
`WskAssumption`, `RxAssumption`, `SerialAssumption` and `XferAssumption`, which
say that the special values are distinct from the ordinary ones and that the
bounds are natural numbers. `RxAssumption` also says that the interrupt buffer
has a slot, `SerialAssumption` that a read has one of the combinations of
timeouts that `SerialStartRead` computes. `CancelSafeAssumption`
also says that there are finitely many IRPs, since its wakeups are counted, and
`XferAssumption` that there are finitely many requests and packets, that the
hardware takes at least a page, and that memory suffices for
`MIN_INITIAL_TRANSFER_PACKETS`, the packets allocated at the start.

**`EventNotifyProofs`.** None of the safety invariants of `EventNotify` is
inductive. The argument is that an IRP and its record are at any time in one of
ten *modes* (`RecordLife`: not registered, registering, given up, queued, left
to the DPC, left to the cancel routine, owned by the DPC, owned by cleanup,
gone, event record). A mode fixes who completes the IRP and who frees the
record. An activity on one record moves it from one mode to another (`ModeStep`)
and leaves the other records alone (`ModeFrame`). With who holds the lock
(`LockHolder`), which handles are in use (`HandleInUse`, `FileContextAlive`),
what cleanup leaves behind, and the honesty of statuses, this is inductive
(`InductiveInvariant`), and each invariant of the run `event` follows from it:
`TypeCorrect`, `Completion`, `Ownership`, `MemorySafety`, `ListSafety`,
`Assertions`, `EventReferences`, `CleanupWorks`, `HandleSafety`, and also
`StatusesAreHonest`. The
conjuncts of the invariant were checked by TLC before they were proved.

**`EventContractProofs`.** `ContractKept`: `EventNotify` implements
`IrpContract`. Each action is mapped to a step of the contract or to a stutter,
using the mode of the IRP concerned.

**`IoCsqProofs`.** Lemmas on a queue without duplicates: what the removal of an
entry (`RemoveAtFacts`, `UnlinkFacts`), an insertion at the tail (`InsertFacts`)
and `CsampPeekNextIrp` (`PeekFacts`) do to the set of its entries.

**`StartIoProofs`.** A read is at any time in one of six modes (`ReadLife`: not
issued, being dispatched, queued, in the hands of its cancel routine, taken by
the device or by cleanup, completed). Besides, the device has an owner:
`OneInCharge` names the context in charge of it (the reader in
`CsampInitiateIo`, the armed timer, its DPC), `CurrentKnown` ties `currentIrp` to
what that context is doing, and `QueueServed` says that the device is idle only
if nothing in the queue can be taken. With the holder of `QueueLock`, cleanups
that do not meet and the use of handles this is inductive (`InductiveInvariant`),
which gives `TypeCorrect`, `ChargeOfDevice`, `ReadsServed`, `Completion` and
`HandleSafety`. `ContractKept` maps each action to a step of `IrpContract` or to a
stutter, by the mode of the read concerned.

**`CancelSafeProofs`.** The same six modes, with the polling thread in the place
of the device's owner (`ThreadPolls`). `WakeupNotLost`: the number of IRPs with a
cancel routine is compared with the wakeups on their way. The thread drops a
wakeup in two places: when it finds no IRP, when no IRP has a cancel routine
(`PeekFacts`), and when it stops, when no handle is open (`StoppedUnused`) and so
none is outstanding. `TypeCorrect`, `Completion`, `HandleSafety` and
`ContractKept` as above.

**`WskEchoProofs`.** `TypeCorrect`. `WakeupNotLost`: strengthened to `Awake`,
from the moment the worker has found the queue empty. `OperationsNotShared`: the
invariant `OnePlace` (an operation is once in the local list, or once on the
queue, or out with its IRP), together with `FoundIdle`: the accept callback and
unload, which enqueue operations they have not taken from anywhere, find them
idle. Two lemmas about sequences (`AppendFacts`, `TailFacts`) carry the list
reasoning. `ContextFreedLast` (`NoUseAfterFree`) and `SentOnOpenSocket`
(`CallsOnOpenSocket`) assume `AcceptHoldsSocket`, without which the comment at
`wsksmple.c:1334` is not true (section 3). Their invariant `FreeInv` says that a
socket is closed by one operation; that the close completes only when the other
operation of the socket is idle, or on the queue ahead of the one that will free
the context; and that this one is therefore the last of its socket. The order
of the queue is part of the invariant (`Behind`): it is what `FirstFirst`, the
reversal of the flushed list, is for.

**`SerialReadProofs`.** The read path, for any number of requests, sizes of the
ring and of reads, and number of characters. None of its invariants is inductive.
The invariant `Inv` has four parts besides `TypeOK`, each of which TLC checked
first. `RequestInv`: a request has a context from its arrival to its completion,
as the current one or once in the queue, and nothing but the current one is
known to timers, ISR and framework. `RingInv`: the ring holds its
characters from the first readable slot to the current one, less what was copied
and not yet subtracted, and a buffer that the ISR has is that of the current
request. `StartInv`: what `SerialStartRead`, a resize, the interval timer and a
purge computed before they let interrupts in is still true of the state they go
on with, which has more characters by then. The fourth is `RefCountTrue` itself.
They need each other: the ISR's reference is right only if the buffer it fills is
the current one, and the next request is started right only if nobody is left
from the last. From `Inv` follow `TypeCorrect`, `ReferencesTrue`, `CompletedOnce`
and `NoneLeftWaiting`. `ImplementsByteStream` (`KeepsStream`): each action is
mapped to a step of `ByteStream` or to a stutter, in one lemma for each kind
(`StreamReceives`, `StreamDelivers`, `StreamCompletes`, `StreamCopies` and
others). `held` is the number of characters that the current request has
(`InUserBuffer`); `aborting` holds only while the request was cancelled by its
owner, is being aborted by `SerialStartPurge`, or waits for the interval timer to
complete it as cancelled, so that no other completion may drop characters.
The characters not delivered yet are those in the user's buffer, then those in
the ring, and the work is in showing that a copy from the ring, which wraps, a
move to a larger ring, and a change of buffers leave their sequence as it is.

**`XferPacketProofs`.** The counts of classpnp are right for any number of
requests, packets and pieces: `TypeCorrect`, `CountsPieces`, `OutlivesUse` and
`ThrottleIsBalanced`. They depend on each other. A packet that comes back finds
its request active because the request counts it; the request counts its pieces
because `Send` runs out of packets and of buffer at the same time
(`HeldSuffice`, from the division that `NumPackets` does: `NumPacketsFacts`);
the release of a lock does not go below zero because who releases is counted
(`InUse`); and a failed acquisition does no harm because who fails relies on
someone who did not (`FailedWhileHeld`). A deferred request is nowhere else
(`DeferredWaits`), or its completion routine would serve it twice. The step of
the invariant is proved in one lemma for each conjunct (`TypeStep`,
`ServedStep`, `DeferredStep`, `OwnedStep`, `SufficesStep`, `CountedStep`,
`LockStep`, `ThrottleStep`), from what each action does to requests, to packets
and to `ServiceTransferRequest` (the lemmas named `...Effect`). `TransfersWhole`
(`WholeTransfer`): on top of it the invariant `WholeInv`, checked by TLC first.
`HandedOut` is how much of a request's buffer was given to packets. Each sector of
that part is transferred, or carried by one packet, now or in a later chunk, and
never both, unless a piece has failed for good; and no sector beyond it is. So
the assertion on `Information` at the end holds for every way to split, retry
and cut up a request: the last piece leaves nothing on its way.

Only model-checked: liveness, as TLAPS has no rule for fairness here. Every
invariant and every action property of the passing runs is proved, and each
refinement; two of the properties of `WskEcho` under the assumption above on when
WSK completes a close. The four runs that end in a violation are TLC's.

## 5. Environment assumptions

* `IoManager`: an IRP keeps its handle open; `IRP_MJ_CLOSE` comes when cleanup
  is over and all IRPs of the handle are complete; unload comes when no handle
  is open. `IoCancelIrp` calls a cancel routine at most once per
  `IoSetCancelRoutine`, possibly after it was told to.
* `IO_CSQ` sets the cancel routine under the lock of the queue and tests
  `Irp->Cancel` after it.
* WSK: requests on a closed or reset socket fail; a close completes when no
  request and no callback is outstanding on the socket; `WskDeregister` returns
  when all sockets are closed and the NPI is released, after which
  `WskCaptureProviderNPI` fails; the NULL accept is indicated once for each
  listening socket.

* WDF: callbacks of the UART driver exclude each other;
  `WdfRequestUnmarkCancelable` fails once the framework has begun to cancel;
  `WdfTimerStop` fails once the timer has expired; a request in a queue is
  completed by the framework if it is cancelled there.
* The lower driver of classpnp returns a packet once, and one that succeeds has
  moved the whole piece. `TransferPktComplete` adds the length that the SRB came
  back with (xferpkt.c:987) and asserts that the sum is the length of the request
  (xferpkt.c:1170), which nothing in the driver ensures if that length is shorter:
  `WholeTransfer` says that splitting, retries and chunks keep the assertion, and
  nothing of transfers that are cut short.
* Rundown protection cannot be acquired once the wait for it has begun.

## 6. Hazards

`PROJECT.json` lists, line by line, what the code is exposed to and which
properties would catch it going wrong. Two are not covered: the trace statement
in `WskSampleEnqueueOp` (`wsksmple.c:597`) reads the operation context after
the push, when the worker may have freed it, and the models leave out tracing;
and the UART driver takes away and restores the cancel routine around a power
transition (`utils.c:450`), which the model does not have.

## 7. Plan

Done: the modules above. `EventNotify` came first because it has the most races
over the least code, then the two variants of the cancel-safe queue, which share
`IoManager` and the contract, then the echo server, the UART driver's read path
and the transfer packets of classpnp.

Next, in this order:

1. `NdisFilter`: `network/ndis/filter`. Pause and restart against outstanding
   sends and receives, OID requests completed and cancelled under a spin lock.
2. `SerialWrite`: the write path and the immediate character, which use
   `SerialTryToCompleteCurrent` as well, and the power transitions that take the
   cancel routine of the current request away and give it back.
3. `MiniFilterCsq`: `filesys/miniFilter/cancelSafe`, on the operators of
   `IoCsq`, with instance teardown in the place of cleanup; `Inspect`:
   `network/trans/inspect`, packets queued by callouts, a worker thread, and
   unload.
