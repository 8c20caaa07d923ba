------------------------------- MODULE WskEcho -------------------------------
(***************************************************************************)
(* network/wsk/echosrv/wsksmple.c: an echo server in the kernel.  A socket *)
(* context embeds two operation contexts.  Each of them is, in turn, on    *)
(* the work queue with a handler, or out at WSK with its IRP; the IRP's    *)
(* completion routine puts it back with the next handler.  One worker      *)
(* thread runs the handlers, in order, without locks.                      *)
(*                                                                         *)
(* Completion routines, accept callbacks, the worker thread and unload     *)
(* interleave; WskSampleEnqueueOp is not atomic when it is called from     *)
(* outside the worker thread.                                              *)
(***************************************************************************)
EXTENDS Naturals, Sequences

CONSTANTS
  Conns,      \* connections accepted
  Listener,   \* the listening socket
  AcceptHoldsSocket,
    \* TRUE if WSK completes no close of an accepted socket before the
    \* accept callback that handed it over has returned
  MaxSignals
    \* bound: calls of WskSampleEnqueueOp preempted before they set the event

ASSUME WskAssumption ==
  /\ Listener \notin Conns
  /\ AcceptHoldsSocket \in BOOLEAN
  /\ MaxSignals \in Nat \ {0}

Sockets == Conns \cup {Listener}

\* OpContext[0] and OpContext[1] of each socket context
Ops == Sockets \X {0, 1}

VARIABLES
  queue,          \* WorkQueue.Head, oldest entry first
  event,          \* WorkQueue.Event
  stop,           \* WorkQueue.Stop
  worker,         \* where the worker thread stands
  batch,          \* its local list, after reversal
  handler,        \* OpHandler of each operation context
  irp,            \* the WSK request that its IRP is out with
  mem,            \* the socket contexts
  wsk,            \* WSK's state of the socket
  closing, disconnecting, stopListening,   \* the flags of the contexts
  accepting,      \* connections whose second operation is not enqueued yet
  signals,        \* calls of WskSampleEnqueueOp that will set the event
  peer,           \* the other end of each connection
  unload          \* progress of WskSampleUnload

queueVars == <<queue, event, handler, signals>>
workerVars == <<worker, batch>>
socketVars == <<mem, wsk, closing, disconnecting, stopListening, accepting>>
vars == <<queueVars, workerVars, stop, irp, socketVars, peer, unload>>

Handlers == {"none", "StartListen", "StopListen", "Receive", "Send",
             "Disconnect", "Close", "Free"}

Requests == {"none", "receive", "send", "disconnect", "close"}

\* "deaf": WSK has told that the listening socket is no longer functional
WskStates == {"none", "open", "deaf", "closing", "closed"}

TypeOK ==
  /\ queue \in Seq(Ops) /\ batch \in Seq(Ops)
  /\ event \in BOOLEAN /\ stop \in BOOLEAN
  /\ worker \in {"flush", "check", "wait", "run", "relisten", "exited"}
  /\ worker = "run" => batch # << >>
  /\ handler \in [Ops -> Handlers]
  /\ irp \in [Ops -> Requests]
  /\ mem \in [Sockets -> {"none", "live", "freed", "corrupt"}]
  /\ wsk \in [Sockets -> WskStates]
  /\ closing \in [Sockets -> BOOLEAN]
  /\ disconnecting \in [Sockets -> BOOLEAN]
  /\ stopListening \in BOOLEAN
  /\ accepting \subseteq Conns
  /\ signals \in 0 .. MaxSignals
  /\ peer \in [Conns -> {"sending", "fin", "gone"}]
  /\ unload \in {"no", "stop", "deregister", "stopping", "join", "done"}

\* DriverEntry has allocated the listening socket's context, started the
\* worker thread and enqueued the first operation.
Init ==
  /\ queue = << <<Listener, 0>> >> /\ batch = << >>
  /\ event = TRUE /\ stop = FALSE
  /\ worker = "flush"
  /\ handler = [o \in Ops |->
                  IF o = <<Listener, 0>> THEN "StartListen" ELSE "none"]
  /\ irp = [o \in Ops |-> "none"]
  /\ mem = [s \in Sockets |-> IF s = Listener THEN "live" ELSE "none"]
  /\ wsk = [s \in Sockets |-> "none"]
  /\ closing = [s \in Sockets |-> FALSE]
  /\ disconnecting = [s \in Sockets |-> FALSE]
  /\ stopListening = FALSE
  /\ accepting = {} /\ signals = 0
  /\ peer = [c \in Conns |-> "sending"]
  /\ unload = "no"

(***************************************************************************)
(* WskSampleEnqueueOp                                                      *)
(***************************************************************************)

Push(o, h) ==
  /\ handler' = [handler EXCEPT ![o] = h]
  /\ queue' = Append(queue, o)

\* Mutant: the result of the push is read the wrong way round.
FoundBusy == queue # << >>

\* InterlockedPushEntrySList tells that the queue was empty.
FoundEmpty == queue = << >>

\* The bound reached, the call goes on to KeSetEvent without preemption.
EnqueueOp(o, h) ==
  /\ Push(o, h)
  /\ IF FoundEmpty /\ signals < MaxSignals
     THEN signals' = signals + 1 /\ UNCHANGED event
     ELSE event' = (event \/ FoundEmpty) /\ UNCHANGED signals

\* KeSetEvent, after other threads may have run
SetEvent ==
  /\ signals > 0
  /\ signals' = signals - 1
  /\ event' = TRUE
  /\ UNCHANGED <<queue, handler, workerVars, stop, irp, socketVars, peer,
                 unload>>

\* The worker thread itself looks at neither before it returns.
EnqueueOpFromWorker(o, h) ==
  /\ Push(o, h)
  /\ event' = (event \/ FoundEmpty)
  /\ UNCHANGED signals

(***************************************************************************)
(* WskSampleWorkerThread                                                   *)
(***************************************************************************)

\* Mutant: the list is not reversed.
LastFirst == [i \in DOMAIN queue |-> queue[Len(queue) + 1 - i]]

\* What InterlockedFlushSList returns, reversed "to preserve the FIFO order"
FirstFirst == queue

WorkerFlush ==
  /\ worker = "flush"
  /\ IF queue = << >> THEN worker' = "check" ELSE worker' = "run"
  /\ batch' = FirstFirst
  /\ queue' = << >>
  /\ UNCHANGED <<event, handler, signals, stop, irp, socketVars, peer, unload>>

WorkerCheckStop ==
  /\ worker = "check"
  /\ worker' = IF stop THEN "exited" ELSE "wait"
  /\ UNCHANGED <<queueVars, batch, stop, irp, socketVars, peer, unload>>

WorkerWake ==
  /\ worker = "wait"
  /\ event
  /\ event' = FALSE
  /\ worker' = "flush"
  /\ UNCHANGED <<queue, handler, signals, batch, stop, irp, socketVars, peer,
                 unload>>

\* The next operation on the local list has the handler h.
Runs(o, h) ==
  /\ worker = "run"
  /\ o = Head(batch)
  /\ handler[o] = h
  /\ batch' = Tail(batch)

\* Mutant: the loop over the local list does not end.
RunsOn == "run"

\* while(listEntry)
AfterHandler == IF batch' = << >> THEN "flush" ELSE "run"

\* The handler returns.
Returns == worker' = AfterHandler

Request(o, r) == irp' = [irp EXCEPT ![o] = r]

Leaving(s) == closing[s] \/ disconnecting[s]

\* WskSampleOpReceive and WskSampleOpSend
OpTransfer(o) ==
  /\ \/ Runs(o, "Receive") /\ Request(o, "receive")
     \/ Runs(o, "Send") /\ Request(o, "send")
  /\ ~ Leaving(o[1])
  /\ Returns
  /\ UNCHANGED <<queueVars, stop, socketVars, peer, unload>>

OpDisconnect(o) ==
  /\ Runs(o, "Disconnect")
  /\ ~ Leaving(o[1])
  /\ disconnecting' = [disconnecting EXCEPT ![o[1]] = TRUE]
  /\ Request(o, "disconnect")
  /\ Returns
  /\ UNCHANGED <<queueVars, stop, mem, wsk, closing, stopListening, accepting,
                 peer, unload>>

\* "The operation context will not be used any more."
OpSkip(o) ==
  /\ \E h \in {"Receive", "Send", "Disconnect"} : Runs(o, h)
  /\ Leaving(o[1])
  /\ Returns
  /\ UNCHANGED <<queueVars, stop, irp, socketVars, peer, unload>>

\* Mutant: a socket may be closed once for every operation that failed.
ClosedAgain(s) == FALSE

AlreadyClosing(s) == closing[s]

OpClose(o) ==
  /\ Runs(o, "Close")
  /\ ~ AlreadyClosing(o[1])
  /\ closing' = [closing EXCEPT ![o[1]] = TRUE]
  /\ wsk' = [wsk EXCEPT ![o[1]] = "closing"]
  /\ Request(o, "close")
  /\ Returns
  /\ UNCHANGED <<queueVars, stop, mem, disconnecting, stopListening, accepting,
                 peer, unload>>

OpCloseSkip(o) ==
  /\ Runs(o, "Close")
  /\ AlreadyClosing(o[1])
  /\ Returns
  /\ UNCHANGED <<queueVars, stop, irp, socketVars, peer, unload>>

OpFree(o) ==
  /\ Runs(o, "Free")
  /\ mem' = [mem EXCEPT ![o[1]] = IF @ = "live" THEN "freed" ELSE "corrupt"]
  /\ Returns
  /\ UNCHANGED <<queueVars, stop, irp, wsk, closing, disconnecting,
                 stopListening, accepting, peer, unload>>

\* WskCaptureProviderNPI fails once WskDeregister was called.
Captures == unload \in {"no", "stop"}

OpStartListenFails(o) ==
  /\ Runs(o, "StartListen")
  /\ \/ ~ Captures
     \/ wsk[Listener] # "none" /\ stopListening
  /\ Returns
  /\ UNCHANGED <<queueVars, stop, irp, socketVars, peer, unload>>

\* WskSampleSetupListeningSocket, which may fail at each of its calls
OpStartListen(o) ==
  /\ Runs(o, "StartListen")
  /\ Captures
  /\ wsk[Listener] = "none"
  /\ \E w \in {"none", "open"} : wsk' = [wsk EXCEPT ![Listener] = w]
  /\ Returns
  /\ UNCHANGED <<queueVars, stop, irp, mem, closing, disconnecting,
                 stopListening, accepting, peer, unload>>

\* There is a socket already, which it closes first, and waits for that.
OpRestartListen(o) ==
  /\ Runs(o, "StartListen")
  /\ Captures
  /\ wsk[Listener] # "none"
  /\ ~ stopListening
  /\ wsk' = [wsk EXCEPT ![Listener] = "closing"]
  /\ worker' = "relisten"
  /\ UNCHANGED <<queueVars, stop, irp, mem, closing, disconnecting,
                 stopListening, accepting, peer, unload>>

OpRelisten ==
  /\ worker = "relisten"
  /\ accepting = {}
  /\ \E w \in {"none", "open"} : wsk' = [wsk EXCEPT ![Listener] = w]
  /\ UNCHANGED batch
  /\ Returns
  /\ UNCHANGED <<queueVars, stop, irp, mem, closing, disconnecting,
                 stopListening, accepting, peer, unload>>

\* if(socketContext->Socket == NULL)
AfterStopListen == IF wsk[Listener] = "none" THEN "Free" ELSE "Close"

OpStopListen(o) ==
  /\ Runs(o, "StopListen")
  /\ stopListening' = TRUE
  /\ EnqueueOpFromWorker(o, AfterStopListen)
  /\ Returns
  /\ UNCHANGED <<stop, irp, mem, wsk, closing, disconnecting, accepting, peer,
                 unload>>

(***************************************************************************)
(* WskSampleAcceptEvent                                                    *)
(***************************************************************************)

\* A connection arrives; its context is allocated, its first operation
\* enqueued.
AcceptFirst(c) ==
  /\ wsk[Listener] = "open"
  /\ mem[c] = "none"
  /\ mem' = [mem EXCEPT ![c] = "live"]
  /\ wsk' = [wsk EXCEPT ![c] = "open"]
  /\ EnqueueOp(<<c, 0>>, "Receive")
  /\ accepting' = accepting \cup {c}
  /\ UNCHANGED <<workerVars, stop, irp, closing, disconnecting, stopListening,
                 peer, unload>>

AcceptSecond(c) ==
  /\ c \in accepting
  /\ EnqueueOp(<<c, 1>>, "Receive")
  /\ accepting' = accepting \ {c}
  /\ UNCHANGED <<workerVars, stop, irp, mem, wsk, closing, disconnecting,
                 stopListening, peer, unload>>

\* AcceptSocket == NULL, indicated once for a listening socket
AcceptNull ==
  /\ wsk[Listener] = "open"
  /\ wsk' = [wsk EXCEPT ![Listener] = "deaf"]
  /\ EnqueueOp(<<Listener, 0>>, "StartListen")
  /\ UNCHANGED <<workerVars, stop, irp, mem, closing, disconnecting,
                 stopListening, accepting, peer, unload>>

(***************************************************************************)
(* WSK completes requests: the completion routines                         *)
(***************************************************************************)

\* The IRP of o comes back from request r; the routine enqueues h.
Completes(o, r, h) ==
  /\ irp[o] = r
  /\ irp' = [irp EXCEPT ![o] = "none"]
  /\ EnqueueOp(o, h)

\* WSK fails what is outstanding on a socket that is closed or reset.
Fails(c) == peer[c] = "gone" \/ wsk[c] = "closing"

ReceiveIrpCompletion(c, i) ==
  /\ \/ peer[c] = "sending" /\ Completes(<<c, i>>, "receive", "Send")
     \/ peer[c] = "fin" /\ Completes(<<c, i>>, "receive", "Disconnect")
     \/ Fails(c) /\ Completes(<<c, i>>, "receive", "Close")
  /\ UNCHANGED <<workerVars, stop, socketVars, peer, unload>>

SendIrpCompletion(c, i) ==
  /\ \/ peer[c] # "gone" /\ Completes(<<c, i>>, "send", "Receive")
     \/ Fails(c) /\ Completes(<<c, i>>, "send", "Close")
  /\ UNCHANGED <<workerVars, stop, socketVars, peer, unload>>

\* Mutant: a disconnect that succeeds leaves the socket open.
ThenNothing == "Receive"

AfterDisconnect == "Close"

DisconnectIrpCompletion(c, i) ==
  /\ Completes(<<c, i>>, "disconnect", AfterDisconnect)
  /\ UNCHANGED <<workerVars, stop, socketVars, peer, unload>>

\* No request and no callback is outstanding on the socket any more.
Quiesced(s, i) ==
  /\ irp[<<s, 1 - i>>] = "none"
  /\ s = Listener => accepting = {}
  /\ AcceptHoldsSocket => s \notin accepting

CloseIrpCompletion(s, i) ==
  /\ Quiesced(s, i)
  /\ Completes(<<s, i>>, "close", "Free")
  /\ wsk' = [wsk EXCEPT ![s] = "closed"]
  /\ UNCHANGED <<workerVars, stop, mem, closing, disconnecting, stopListening,
                 accepting, peer, unload>>

\* The peer closes its half of the connection, or resets it.
PeerLeaves(c) ==
  /\ wsk[c] = "open"
  /\ \/ peer[c] = "sending" /\ peer' = [peer EXCEPT ![c] = "fin"]
     \/ peer[c] # "gone" /\ peer' = [peer EXCEPT ![c] = "gone"]
  /\ UNCHANGED <<queueVars, workerVars, stop, irp, socketVars, unload>>

(***************************************************************************)
(* WskSampleUnload                                                         *)
(***************************************************************************)

\* Mutant: the operation context that StartListen uses.
StartOp == <<Listener, 0>>

StopOp == <<Listener, 1>>

UnloadStopListen ==
  /\ unload = "no"
  /\ unload' = "stop"
  /\ EnqueueOp(StopOp, "StopListen")
  /\ UNCHANGED <<workerVars, stop, irp, socketVars, peer>>

\* WskDeregister is called ...
UnloadDeregister ==
  /\ unload = "stop"
  /\ unload' = "deregister"
  /\ UNCHANGED <<queueVars, workerVars, stop, irp, socketVars, peer>>

\* ... and waits until all sockets are closed and the NPI is released.
AllClosed ==
  /\ \A s \in Sockets : wsk[s] \in {"none", "closed"}
  /\ worker # "relisten"

UnloadStop ==
  /\ unload = "deregister"
  /\ AllClosed
  /\ unload' = "stopping"
  /\ stop' = TRUE
  /\ UNCHANGED <<queueVars, workerVars, irp, socketVars, peer>>

\* Mutant: the worker thread is not woken.
StopSilently == UNCHANGED event

WakeForStop == event' = TRUE

UnloadSetEvent ==
  /\ unload = "stopping"
  /\ unload' = "join"
  /\ WakeForStop
  /\ UNCHANGED <<queue, handler, signals, workerVars, stop, irp, socketVars,
                 peer>>

UnloadJoin ==
  /\ unload = "join"
  /\ worker = "exited"
  /\ unload' = "done"
  /\ UNCHANGED <<queueVars, workerVars, stop, irp, socketVars, peer>>

Terminated ==
  /\ unload = "done"
  /\ UNCHANGED vars

(***************************************************************************)
(* The specification                                                       *)
(***************************************************************************)

OpHandler(o) ==
  \/ OpTransfer(o) \/ OpDisconnect(o) \/ OpSkip(o) \/ OpClose(o)
  \/ OpCloseSkip(o) \/ OpFree(o) \/ OpStartListenFails(o) \/ OpStartListen(o)
  \/ OpRestartListen(o) \/ OpStopListen(o)

WorkerThread ==
  \/ WorkerFlush \/ WorkerCheckStop \/ WorkerWake
  \/ OpRelisten
  \/ \E o \in Ops : OpHandler(o)

Completion(s, i) ==
  \/ /\ s \in Conns
     /\ \/ ReceiveIrpCompletion(s, i) \/ SendIrpCompletion(s, i)
        \/ DisconnectIrpCompletion(s, i)
  \/ CloseIrpCompletion(s, i)

UnloadGoesOn ==
  UnloadDeregister \/ UnloadStop \/ UnloadSetEvent \/ UnloadJoin

Next ==
  \/ WorkerThread
  \/ SetEvent
  \/ \E s \in Sockets, i \in {0, 1} : Completion(s, i)
  \/ \E c \in Conns : AcceptFirst(c) \/ AcceptSecond(c) \/ PeerLeaves(c)
  \/ AcceptNull
  \/ UnloadStopListen \/ UnloadGoesOn
  \/ Terminated

Spec == Init /\ [][Next]_vars

\* Threads are scheduled and WSK completes what it was asked to do.  That
\* peers leave is what the comment in WskSampleUnload counts on.
Fairness ==
  /\ WF_vars(WorkerThread)
  /\ WF_vars(SetEvent)
  /\ \A s \in Sockets, i \in {0, 1} : WF_vars(Completion(s, i))
  /\ \A c \in Conns : WF_vars(AcceptSecond(c)) /\ WF_vars(PeerLeaves(c))
  /\ WF_vars(UnloadGoesOn)

FairSpec == Spec /\ Fairness

(***************************************************************************)
(* Safety                                                                  *)
(***************************************************************************)

Pending == batch \o queue

Listed == {Pending[i] : i \in DOMAIN Pending}

\* An operation context is in one place at a time: once on the work queue,
\* or out at WSK.  It has one linkage and one IRP.
OpsNotShared ==
  /\ \A i, j \in DOMAIN Pending : Pending[i] = Pending[j] => i = j
  /\ \A o \in Listed : irp[o] = "none"

\* WskSampleFreeSocketContext is called once, when all WSK calls on the
\* socket are complete and all its operations are off the queue.
NoUseAfterFree ==
  /\ \A s \in Sockets : mem[s] # "corrupt"
  /\ \A o \in Ops : o \in Listed \/ irp[o] # "none" => mem[o[1]] = "live"

\* No request is made on a socket that is closed, or was never created; a
\* socket is closed once.
CallsOnOpenSocket ==
  [][\A o \in Ops : irp'[o] # "none" /\ irp'[o] # irp[o]
                      => wsk[o[1]] \in {"open", "deaf"}]_vars

\* The event is enough to wake the worker thread, although only the push
\* that finds the queue empty sets it, and later.
NoLostWakeup ==
  worker = "wait" /\ queue # << >>
    => event \/ signals > 0

\* The comment on WORK_QUEUE.Stop: the worker thread exits only when the
\* queue is empty.
WorkerExitsEmpty == worker = "exited" => queue = << >>

(***************************************************************************)
(* Liveness                                                                *)
(***************************************************************************)

\* Every connection is closed after its peer left, and its context freed
\* (but see WorkerExitsEmpty).
EventuallyFreed ==
  \A c \in Conns : []<>(mem[c] # "live" \/ worker = "exited")

\* Unload, once begun, does not stay on its way.
EventuallyUnloaded == []<>(unload \in {"no", "done"})
=============================================================================
