---------------------------- MODULE WskEchoProofs ----------------------------
(***************************************************************************)
(* Proofs about WskEcho, for any set of connections.                       *)
(***************************************************************************)
EXTENDS WskEcho, TLAPS

USE WskAssumption

\* WskSampleEnqueueOp keeps the types of what it changes.
LEMMA EnqueueOpType ==
  ASSUME TypeOK, NEW o \in Ops, NEW h \in Handlers, EnqueueOp(o, h)
  PROVE  /\ queue' \in Seq(Ops) /\ handler' \in [Ops -> Handlers]
         /\ signals' \in 0 .. MaxSignals /\ event' \in BOOLEAN
<1>1. queue' \in Seq(Ops) /\ handler' \in [Ops -> Handlers]
  BY DEF EnqueueOp, Push, TypeOK
<1>2. CASE FoundEmpty /\ signals < MaxSignals
  BY <1>1, <1>2 DEF EnqueueOp, TypeOK
<1>3. CASE ~ (FoundEmpty /\ signals < MaxSignals)
  <2>1. event' = (event \/ FoundEmpty)
    BY <1>3 DEF EnqueueOp
  <2>2. event' \in BOOLEAN
    BY <2>1, Zenon
  <2> QED
    BY <1>1, <1>3, <2>2 DEF EnqueueOp, TypeOK
<1> QED
  BY <1>2, <1>3

\* What a completion routine changes by EnqueueOp and by taking its request.
LEMMA CompletesType ==
  ASSUME TypeOK, NEW o \in Ops, NEW r \in Requests, NEW h \in Handlers,
         Completes(o, r, h)
  PROVE  /\ queue' \in Seq(Ops) /\ handler' \in [Ops -> Handlers]
         /\ signals' \in 0 .. MaxSignals /\ event' \in BOOLEAN
         /\ irp' \in [Ops -> Requests]
<1>1. EnqueueOp(o, h)
  BY DEF Completes
<1>2. irp' \in [Ops -> Requests]
  BY DEF Completes, TypeOK, Requests
<1> QED
  BY <1>1, <1>2, EnqueueOpType

LEMMA ReceiveType ==
  ASSUME TypeOK, NEW s \in Conns, NEW i \in {0, 1}, ReceiveIrpCompletion(s, i)
  PROVE  /\ queue' \in Seq(Ops) /\ handler' \in [Ops -> Handlers]
         /\ signals' \in 0 .. MaxSignals /\ event' \in BOOLEAN
         /\ irp' \in [Ops -> Requests]
<1>1. <<s, i>> \in Ops
  BY DEF Sockets, Ops
<1>2. PICK h \in Handlers : Completes(<<s, i>>, "receive", h)
  BY Zenon DEF ReceiveIrpCompletion, Handlers
<1>3. "receive" \in Requests
  BY DEF Requests
<1> QED
  BY <1>1, <1>2, <1>3, CompletesType

LEMMA SendType ==
  ASSUME TypeOK, NEW s \in Conns, NEW i \in {0, 1}, SendIrpCompletion(s, i)
  PROVE  /\ queue' \in Seq(Ops) /\ handler' \in [Ops -> Handlers]
         /\ signals' \in 0 .. MaxSignals /\ event' \in BOOLEAN
         /\ irp' \in [Ops -> Requests]
<1>1. <<s, i>> \in Ops
  BY DEF Sockets, Ops
<1>2. PICK h \in Handlers : Completes(<<s, i>>, "send", h)
  BY Zenon DEF SendIrpCompletion, Handlers
<1>3. "send" \in Requests
  BY DEF Requests
<1> QED
  BY <1>1, <1>2, <1>3, CompletesType

\* Every variable keeps its type, and the worker thread runs a handler only
\* while its local list is not empty.
THEOREM TypeCorrect == Spec => []TypeOK
<1> USE DEF TypeOK, vars, queueVars, workerVars, socketVars, Sockets, Ops,
            Handlers, Requests, WskStates
<1>1. Init => TypeOK
  <2>1. << <<Listener, 0>> >> \in Seq(Ops) /\ << >> \in Seq(Ops)
    OBVIOUS
  <2>2. ASSUME Init
        PROVE  /\ handler \in [Ops -> Handlers] /\ irp \in [Ops -> Requests]
               /\ wsk \in [Sockets -> WskStates]
               /\ mem \in [Sockets -> {"none", "live", "freed", "corrupt"}]
    BY <2>2 DEF Init
  <2>3. ASSUME Init
        PROVE  /\ closing \in [Sockets -> BOOLEAN]
               /\ disconnecting \in [Sockets -> BOOLEAN]
               /\ event \in BOOLEAN /\ stop \in BOOLEAN
               /\ stopListening \in BOOLEAN
    BY <2>3, Zenon DEF Init
  <2>4. ASSUME Init
        PROVE  /\ accepting \subseteq Conns /\ signals \in 0 .. MaxSignals
               /\ peer \in [Conns -> {"sending", "fin", "gone"}]
    BY <2>4 DEF Init
  <2> QED
    BY <2>1, <2>2, <2>3, <2>4 DEF Init
<1>2. TypeOK /\ [Next]_vars => TypeOK'
  <2> SUFFICES ASSUME TypeOK, [Next]_vars
               PROVE  TypeOK'
    OBVIOUS
  <2> USE DEF Runs, Returns, AfterHandler
  <2>1. CASE WorkerFlush
    BY <2>1 DEF WorkerFlush, FirstFirst
  <2>2. CASE WorkerCheckStop
    BY <2>2 DEF WorkerCheckStop
  <2>3. CASE WorkerWake
    BY <2>3 DEF WorkerWake
  <2>4. CASE OpRelisten
    BY <2>4 DEF OpRelisten
  <2>5. ASSUME NEW o \in Ops, OpTransfer(o)
        PROVE  TypeOK'
    <3>1. batch' \in Seq(Ops)
      <4>1. PICK h : Runs(o, h)
        BY <2>5, Zenon DEF OpTransfer
      <4> QED
        BY <4>1
    <3>2. irp' \in [Ops -> Requests]
      BY <2>5 DEF OpTransfer, Request
    <3> QED
      BY <2>5, <3>1, <3>2 DEF OpTransfer
  <2>6. ASSUME NEW o \in Ops, OpDisconnect(o)
        PROVE  TypeOK'
    BY <2>6 DEF OpDisconnect, Request
  <2>7. ASSUME NEW o \in Ops, OpSkip(o)
        PROVE  TypeOK'
    BY <2>7 DEF OpSkip
  <2>8. ASSUME NEW o \in Ops, OpClose(o)
        PROVE  TypeOK'
    BY <2>8 DEF OpClose, Request
  <2>9. ASSUME NEW o \in Ops, OpCloseSkip(o)
        PROVE  TypeOK'
    BY <2>9 DEF OpCloseSkip
  <2>10. ASSUME NEW o \in Ops, OpFree(o)
         PROVE  TypeOK'
    BY <2>10 DEF OpFree
  <2>11. ASSUME NEW o \in Ops, OpStartListenFails(o)
         PROVE  TypeOK'
    BY <2>11 DEF OpStartListenFails
  <2>12. ASSUME NEW o \in Ops, OpStartListen(o)
         PROVE  TypeOK'
    BY <2>12 DEF OpStartListen
  <2>13. ASSUME NEW o \in Ops, OpRestartListen(o)
         PROVE  TypeOK'
    BY <2>13 DEF OpRestartListen
  <2>14. ASSUME NEW o \in Ops, OpStopListen(o)
         PROVE  TypeOK'
    BY <2>14 DEF OpStopListen, AfterStopListen, EnqueueOpFromWorker, Push
  <2>15. CASE SetEvent
    BY <2>15 DEF SetEvent
  <2>16. ASSUME NEW s \in Conns, NEW i \in {0, 1}, ReceiveIrpCompletion(s, i)
         PROVE  TypeOK'
    <3>1. UNCHANGED <<workerVars, stop, socketVars, peer, unload>>
      BY <2>16, Zenon DEF ReceiveIrpCompletion
    <3> QED
      BY <2>16, <3>1, ReceiveType
  <2>17. ASSUME NEW s \in Conns, NEW i \in {0, 1}, SendIrpCompletion(s, i)
         PROVE  TypeOK'
    <3>1. UNCHANGED <<workerVars, stop, socketVars, peer, unload>>
      BY <2>17, Zenon DEF SendIrpCompletion
    <3> QED
      BY <2>17, <3>1, SendType
  <2>18. ASSUME NEW s \in Conns, NEW i \in {0, 1}, DisconnectIrpCompletion(s,
                i)
         PROVE  TypeOK'
    BY <2>18, EnqueueOpType
       DEF DisconnectIrpCompletion, Completes, AfterDisconnect
  <2>19. ASSUME NEW s \in Sockets, NEW i \in {0, 1}, CloseIrpCompletion(s, i)
         PROVE  TypeOK'
    BY <2>19, EnqueueOpType DEF CloseIrpCompletion, Completes
  <2>20. ASSUME NEW c \in Conns, AcceptFirst(c)
         PROVE  TypeOK'
    BY <2>20, EnqueueOpType DEF AcceptFirst
  <2>21. ASSUME NEW c \in Conns, AcceptSecond(c)
         PROVE  TypeOK'
    BY <2>21, EnqueueOpType DEF AcceptSecond
  <2>22. ASSUME NEW c \in Conns, PeerLeaves(c)
         PROVE  TypeOK'
    BY <2>22 DEF PeerLeaves
  <2>23. CASE AcceptNull
    BY <2>23, EnqueueOpType DEF AcceptNull
  <2>24. CASE UnloadStopListen
    BY <2>24, EnqueueOpType DEF UnloadStopListen, StopOp
  <2>25. CASE UnloadDeregister
    BY <2>25 DEF UnloadDeregister
  <2>26. CASE UnloadStop
    BY <2>26 DEF UnloadStop
  <2>27. CASE UnloadSetEvent
    BY <2>27 DEF UnloadSetEvent, WakeForStop
  <2>28. CASE UnloadJoin
    BY <2>28 DEF UnloadJoin
  <2>29. CASE UNCHANGED vars
    BY <2>29
  <2>30. CASE WorkerThread
    BY <2>1, <2>2, <2>3, <2>4, <2>5, <2>6, <2>7, <2>8, <2>9, <2>10, <2>11,
       <2>12, <2>13, <2>14, <2>30, Zenon DEF WorkerThread, OpHandler
  <2>31. ASSUME NEW s \in Sockets, NEW i \in {0, 1}, Completion(s, i)
         PROVE  TypeOK'
    <3>1. CASE CloseIrpCompletion(s, i)
      BY <2>19, <3>1
    <3>2. CASE ~ CloseIrpCompletion(s, i)
      <4>1. s \in Conns
        BY <2>31, <3>2 DEF Completion
      <4>2. \/ ReceiveIrpCompletion(s, i) \/ SendIrpCompletion(s, i)
            \/ DisconnectIrpCompletion(s, i)
        BY <2>31, <3>2, Zenon DEF Completion
      <4> QED
        BY <4>1, <4>2, <2>16, <2>17, <2>18
    <3> QED
      BY <3>1, <3>2
  <2>32. CASE UnloadGoesOn
    BY <2>25, <2>26, <2>27, <2>28, <2>32, Zenon DEF UnloadGoesOn
  <2>33. CASE Terminated
    BY <2>29, <2>33, Zenon DEF Terminated
  <2> QED
    BY <2>15, <2>20, <2>21, <2>22, <2>23, <2>24, <2>29, <2>30, <2>31, <2>32,
       <2>33, Zenon DEF Next
<1> QED
  BY <1>1, <1>2, PTL DEF Spec

(***************************************************************************)
(* The wakeup of the worker thread.                                        *)
(***************************************************************************)

\* Once the worker thread has found the queue empty, whoever fills it sets
\* the event, or is about to: inductive with TypeOK.
Awake ==
  worker \in {"check", "wait"} /\ queue # << >> => event \/ signals > 0

\* The worker thread never sleeps on a queue that is not empty unless its
\* event is set or about to be set.
THEOREM WakeupNotLost == Spec => []NoLostWakeup
<1> USE DEF TypeOK, Awake, vars, queueVars, workerVars, socketVars, Sockets,
            Ops
<1>1. Init => Awake
  BY DEF Init
<1>2. TypeOK /\ Awake /\ [Next]_vars => Awake'
  <2> SUFFICES ASSUME TypeOK, Awake, [Next]_vars
               PROVE  Awake'
    OBVIOUS
  <2> USE DEF Runs, Returns, AfterHandler, FoundEmpty
  <2>1. CASE WorkerFlush
    BY <2>1 DEF WorkerFlush, FirstFirst
  <2>2. CASE WorkerCheckStop
    BY <2>2 DEF WorkerCheckStop
  <2>3. CASE WorkerWake
    BY <2>3 DEF WorkerWake
  <2>4. CASE OpRelisten
    BY <2>4 DEF OpRelisten
  <2>5. ASSUME NEW o \in Ops, OpTransfer(o)
        PROVE  Awake'
    BY <2>5 DEF OpTransfer, Request
  <2>6. ASSUME NEW o \in Ops, OpDisconnect(o)
        PROVE  Awake'
    BY <2>6 DEF OpDisconnect, Request
  <2>7. ASSUME NEW o \in Ops, OpSkip(o)
        PROVE  Awake'
    BY <2>7 DEF OpSkip
  <2>8. ASSUME NEW o \in Ops, OpClose(o)
        PROVE  Awake'
    BY <2>8 DEF OpClose, Request
  <2>9. ASSUME NEW o \in Ops, OpCloseSkip(o)
        PROVE  Awake'
    BY <2>9 DEF OpCloseSkip
  <2>10. ASSUME NEW o \in Ops, OpFree(o)
         PROVE  Awake'
    BY <2>10 DEF OpFree
  <2>11. ASSUME NEW o \in Ops, OpStartListenFails(o)
         PROVE  Awake'
    BY <2>11 DEF OpStartListenFails
  <2>12. ASSUME NEW o \in Ops, OpStartListen(o)
         PROVE  Awake'
    BY <2>12 DEF OpStartListen
  <2>13. ASSUME NEW o \in Ops, OpRestartListen(o)
         PROVE  Awake'
    BY <2>13 DEF OpRestartListen
  <2>14. ASSUME NEW o \in Ops, OpStopListen(o)
         PROVE  Awake'
    BY <2>14 DEF OpStopListen, AfterStopListen, EnqueueOpFromWorker, Push
  <2>15. CASE SetEvent
    BY <2>15 DEF SetEvent
  <2>16. ASSUME NEW s \in Conns, NEW i \in {0, 1}, ReceiveIrpCompletion(s, i)
         PROVE  Awake'
    BY <2>16 DEF ReceiveIrpCompletion, Completes, EnqueueOp, Push
  <2>17. ASSUME NEW s \in Conns, NEW i \in {0, 1}, SendIrpCompletion(s, i)
         PROVE  Awake'
    BY <2>17 DEF SendIrpCompletion, Completes, EnqueueOp, Push
  <2>18. ASSUME NEW s \in Conns, NEW i \in {0, 1}, DisconnectIrpCompletion(s,
                i)
         PROVE  Awake'
    BY <2>18
       DEF DisconnectIrpCompletion, Completes, AfterDisconnect, EnqueueOp, Push
  <2>19. ASSUME NEW s \in Sockets, NEW i \in {0, 1}, CloseIrpCompletion(s, i)
         PROVE  Awake'
    BY <2>19 DEF CloseIrpCompletion, Completes, EnqueueOp, Push
  <2>20. ASSUME NEW c \in Conns, AcceptFirst(c)
         PROVE  Awake'
    BY <2>20 DEF AcceptFirst, EnqueueOp, Push
  <2>21. ASSUME NEW c \in Conns, AcceptSecond(c)
         PROVE  Awake'
    BY <2>21 DEF AcceptSecond, EnqueueOp, Push
  <2>22. ASSUME NEW c \in Conns, PeerLeaves(c)
         PROVE  Awake'
    BY <2>22 DEF PeerLeaves
  <2>23. CASE AcceptNull
    BY <2>23 DEF AcceptNull, EnqueueOp, Push
  <2>24. CASE UnloadStopListen
    BY <2>24 DEF UnloadStopListen, StopOp, EnqueueOp, Push
  <2>25. CASE UnloadDeregister
    BY <2>25 DEF UnloadDeregister
  <2>26. CASE UnloadStop
    BY <2>26 DEF UnloadStop
  <2>27. CASE UnloadSetEvent
    BY <2>27 DEF UnloadSetEvent, WakeForStop
  <2>28. CASE UnloadJoin
    BY <2>28 DEF UnloadJoin
  <2>29. CASE UNCHANGED vars
    BY <2>29
  <2> QED
    BY <2>1, <2>2, <2>3, <2>4, <2>5, <2>6, <2>7, <2>8, <2>9, <2>10, <2>11,
       <2>12, <2>13, <2>14, <2>15, <2>16, <2>17, <2>18, <2>19, <2>20, <2>21,
       <2>22, <2>23, <2>24, <2>25, <2>26, <2>27, <2>28, <2>29
       DEF Next, WorkerThread, OpHandler, Completion, UnloadGoesOn, Terminated
<1>3. Awake => NoLostWakeup
  BY DEF NoLostWakeup
<1> QED
  BY <1>1, <1>2, <1>3, TypeCorrect, PTL DEF Spec
(***************************************************************************)
(* Where an operation context is.                                          *)
(***************************************************************************)

In(x, s) == \E i \in 1 .. Len(s) : s[i] = x

Distinct(s) == \A i, j \in 1 .. Len(s) : s[i] = s[j] => i = j

Idle(o) == ~ In(o, batch) /\ ~ In(o, queue) /\ irp[o] = "none"

\* An operation context is in one place at a time.
OnePlace ==
  /\ Distinct(batch) /\ Distinct(queue)
  /\ \A o \in Ops : In(o, batch) => ~ In(o, queue) /\ irp[o] = "none"
  /\ \A o \in Ops : In(o, queue) => irp[o] = "none"

\* Who enqueues an operation without having taken it from somewhere (the
\* accept callback, for a connection or for a socket that went deaf, and
\* unload) finds it idle.
FoundIdle ==
  /\ \A c \in Conns : mem[c] = "none" => Idle(<<c, 0>>) /\ Idle(<<c, 1>>)
  /\ \A c \in accepting : mem[c] # "none" /\ Idle(<<c, 1>>)
  /\ wsk[Listener] = "open" \/ worker = "relisten" => Idle(<<Listener, 0>>)
  /\ worker = "relisten" => wsk[Listener] # "open"
  /\ unload = "no" => Idle(<<Listener, 1>>)
  /\ \A o \in Ops : handler[o] = "StartListen" => o = <<Listener, 0>>

\* An entry put behind a list that it is not in.
LEMMA AppendFacts ==
  ASSUME NEW S, NEW s \in Seq(S), NEW x \in S, Distinct(s), ~ In(x, s)
  PROVE  /\ Distinct(Append(s, x))
         /\ \A y : In(y, Append(s, x)) <=> In(y, s) \/ y = x
<1> DEFINE t == Append(s, x)
<1>1. /\ Len(t) = Len(s) + 1 /\ t[Len(s) + 1] = x /\ Len(s) \in Nat
      /\ \A i \in 1 .. Len(s) : t[i] = s[i]
  OBVIOUS
<1> HIDE DEF t
<1>2. Distinct(t)
  BY <1>1 DEF Distinct, In
<1>3. ASSUME NEW y
      PROVE  In(y, t) <=> In(y, s) \/ y = x
  <2>1. ASSUME NEW i \in 1 .. Len(s), s[i] = y
        PROVE  In(y, t)
    <3>1. i \in 1 .. Len(t) /\ t[i] = y
      BY <1>1, <2>1
    <3> QED
      BY <3>1 DEF In
  <2>2. In(x, t)
    <3>1. Len(s) + 1 \in 1 .. Len(t)
      BY <1>1
    <3> QED
      BY <1>1, <3>1 DEF In
  <2>3. ASSUME NEW i \in 1 .. Len(t), t[i] = y, y # x
        PROVE  In(y, s)
    <3>1. i \in 1 .. Len(s) /\ s[i] = y
      BY <1>1, <2>3
    <3> QED
      BY <3>1 DEF In
  <2> QED
    BY <2>1, <2>2, <2>3 DEF In
<1> QED
  BY <1>2, <1>3 DEF t

\* The first entry taken from a list.
LEMMA TailFacts ==
  ASSUME NEW S, NEW s \in Seq(S), s # << >>, Distinct(s)
  PROVE  /\ Distinct(Tail(s)) /\ In(Head(s), s) /\ ~ In(Head(s), Tail(s))
         /\ \A y : In(y, Tail(s)) => In(y, s)
<1> DEFINE t == Tail(s)
<1>1. /\ Len(s) \in Nat /\ Len(s) > 0 /\ Len(t) = Len(s) - 1
      /\ Head(s) = s[1] /\ \A i \in 1 .. Len(t) : t[i] = s[i + 1]
  OBVIOUS
<1> HIDE DEF t
<1>2. \A i \in 1 .. Len(t) : i + 1 \in 1 .. Len(s) /\ 1 \in 1 .. Len(s)
  BY <1>1
<1>3. In(Head(s), s)
  BY <1>1 DEF In
<1>4. Distinct(t) /\ ~ In(Head(s), t)
  BY <1>1, <1>2 DEF Distinct, In
<1>5. \A y : In(y, t) => In(y, s)
  BY <1>1, <1>2 DEF In
<1> QED
  BY <1>3, <1>4, <1>5 DEF t

\* Nothing is in the empty list.
LEMMA EmptyFacts == Distinct(<< >>) /\ \A y : ~ In(y, << >>)
BY DEF Distinct, In

\* WskSampleWorkerThread takes an operation from its local list.
LEMMA RunsFacts ==
  ASSUME TypeOK, OnePlace, NEW o \in Ops, NEW h, Runs(o, h)
  PROVE  /\ Distinct(batch') /\ In(o, batch) /\ ~ In(o, batch')
         /\ \A y : In(y, batch') => In(y, batch)
BY TailFacts DEF Runs, TypeOK, OnePlace

\* WskSampleEnqueueOp puts one that is in no list on the queue.
LEMMA PushFacts ==
  ASSUME TypeOK, OnePlace, NEW o \in Ops, NEW h, Push(o, h), ~ In(o, queue)
  PROVE  /\ Distinct(queue')
         /\ \A y : In(y, queue') <=> In(y, queue) \/ y = o
BY AppendFacts DEF Push, TypeOK, OnePlace

\* The work queue's entries are the local list's and, behind them, the list
\* head's.
LEMMA OnePlaceEnough == TypeOK /\ OnePlace => OpsNotShared
<1> SUFFICES ASSUME TypeOK, OnePlace
             PROVE  OpsNotShared
  OBVIOUS
<1>1. /\ Len(batch) \in Nat /\ Len(queue) \in Nat
      /\ DOMAIN Pending = 1 .. Len(batch) + Len(queue)
      /\ \A i \in DOMAIN Pending :
           Pending[i] = IF i <= Len(batch) THEN batch[i]
                        ELSE queue[i - Len(batch)]
  BY DEF Pending, TypeOK
<1>2. \A i \in 1 .. Len(batch) : batch[i] \in Ops /\ In(batch[i], batch)
  BY DEF In, TypeOK
<1>3. \A i \in 1 .. Len(queue) : queue[i] \in Ops /\ In(queue[i], queue)
  BY DEF In, TypeOK
<1>4. ASSUME NEW i \in DOMAIN Pending
      PROVE  \/ i \in 1 .. Len(batch) /\ Pending[i] = batch[i]
             \/ /\ i - Len(batch) \in 1 .. Len(queue)
                /\ Pending[i] = queue[i - Len(batch)]
  BY <1>1
<1>5. ASSUME NEW i \in DOMAIN Pending, NEW j \in DOMAIN Pending,
             Pending[i] = Pending[j]
      PROVE  i = j
  <2>1. i \in Nat /\ j \in Nat
    BY <1>1
  <2> QED
    BY <1>1, <1>2, <1>3, <1>4, <1>5, <2>1 DEF OnePlace, Distinct
<1>6. ASSUME NEW o \in Listed
      PROVE  irp[o] = "none"
  BY <1>2, <1>3, <1>4 DEF Listed, OnePlace
<1> QED
  BY <1>5, <1>6 DEF OpsNotShared
\* A handler runs: its operation context leaves the local list, and goes
\* nowhere unless its IRP is sent.
LEMMA TakeFacts ==
  ASSUME TypeOK, OnePlace, NEW o \in Ops, NEW h, Runs(o, h), queue' = queue,
         \A p \in Ops : p # o => irp'[p] = irp[p]
  PROVE  /\ OnePlace' /\ ~ Idle(o)
         /\ irp'[o] = "none" => Idle(o)'
         /\ \A p \in Ops : p # o /\ Idle(p) => Idle(p)'
<1>1. /\ Distinct(batch') /\ In(o, batch) /\ ~ In(o, batch')
      /\ \A y : In(y, batch') => In(y, batch)
  BY RunsFacts
<1>2. OnePlace'
  BY <1>1 DEF OnePlace
<1>3. ~ Idle(o) /\ (irp'[o] = "none" => Idle(o)')
  BY <1>1 DEF Idle, OnePlace
<1>4. ASSUME NEW p \in Ops, p # o, Idle(p)
      PROVE  Idle(p)'
  BY <1>1, <1>4 DEF Idle
<1> QED
  BY <1>2, <1>3, <1>4

\* An operation context that is in no list goes to the queue.
LEMMA QueueFacts ==
  ASSUME TypeOK, OnePlace, NEW o \in Ops, NEW h, Push(o, h),
         batch' = batch, ~ In(o, batch), ~ In(o, queue), irp'[o] = "none",
         \A p \in Ops : p # o => irp'[p] = irp[p]
  PROVE  /\ OnePlace'
         /\ \A p \in Ops : p # o /\ Idle(p) => Idle(p)'
<1>1. /\ Distinct(queue')
      /\ \A y : In(y, queue') <=> In(y, queue) \/ y = o
  BY PushFacts
<1>2. OnePlace'
  BY <1>1 DEF OnePlace
<1>3. ASSUME NEW p \in Ops, p # o, Idle(p)
      PROVE  Idle(p)'
  BY <1>1, <1>3 DEF Idle
<1> QED
  BY <1>2, <1>3

\* A completion routine puts the operation context of its IRP on the queue.
LEMMA CompletesFacts ==
  ASSUME TypeOK, OnePlace, NEW o \in Ops, NEW r, r # "none", NEW h,
         Completes(o, r, h), batch' = batch
  PROVE  /\ OnePlace' /\ ~ Idle(o)
         /\ \A p \in Ops : p # o /\ Idle(p) => Idle(p)'
         /\ handler' = [handler EXCEPT ![o] = h]
<1>1. /\ ~ In(o, batch) /\ ~ In(o, queue) /\ ~ Idle(o)
      /\ irp'[o] = "none" /\ \A p \in Ops : p # o => irp'[p] = irp[p]
  BY DEF Completes, OnePlace, Idle, TypeOK
<1>2. Push(o, h)
  BY DEF Completes, EnqueueOp
<1> QED
  BY <1>1, <1>2, QueueFacts DEF Push

\* An operation context that is idle goes to the queue.
LEMMA EnqueueFacts ==
  ASSUME TypeOK, OnePlace, NEW o \in Ops, NEW h, EnqueueOp(o, h), Idle(o),
         batch' = batch, irp' = irp
  PROVE  /\ OnePlace'
         /\ \A p \in Ops : p # o /\ Idle(p) => Idle(p)'
         /\ handler' = [handler EXCEPT ![o] = h]
<1>1. ~ In(o, batch) /\ ~ In(o, queue) /\ irp'[o] = "none"
  BY DEF Idle
<1>2. Push(o, h)
  BY DEF EnqueueOp
<1> QED
  BY <1>1, <1>2, QueueFacts DEF Push

\* Every step finds its operation context in one place, and leaves it in one.
LEMMA PlacesKept == Spec => [](OnePlace /\ FoundIdle)
<1> DEFINE L0 == <<Listener, 0>>
<1> DEFINE L1 == <<Listener, 1>>
<1>1. Init => OnePlace /\ FoundIdle
  <2> SUFFICES ASSUME Init
               PROVE  OnePlace /\ FoundIdle
    OBVIOUS
  <2>1. Distinct(queue) /\ \A y : In(y, queue) => y = L0
    BY DEF Init, Distinct, In
  <2>2. OnePlace
    BY <2>1, EmptyFacts DEF Init, OnePlace
  <2>3. \A o \in Ops : o # L0 => Idle(o)
    BY <2>1, EmptyFacts DEF Init, Idle
  <2>4. \A c \in Conns : /\ <<c, 0>> \in Ops \ {L0} /\ <<c, 1>> \in Ops \ {L0}
    BY DEF Ops, Sockets
  <2>5. L1 \in Ops \ {L0}
    BY DEF Ops, Sockets
  <2>6. wsk[Listener] # "open" /\ worker # "relisten" /\ accepting = {}
    BY DEF Init, Sockets
  <2>7. \A o \in Ops : handler[o] = "StartListen" => o = L0
    BY DEF Init
  <2>8. FoundIdle
    BY <2>3, <2>4, <2>5, <2>6, <2>7 DEF FoundIdle
  <2> QED
    BY <2>2, <2>8
<1>2. TypeOK /\ OnePlace /\ FoundIdle /\ [Next]_vars => OnePlace' /\ FoundIdle'
  <2> SUFFICES ASSUME TypeOK, OnePlace, FoundIdle, [Next]_vars
               PROVE  OnePlace' /\ FoundIdle'
    OBVIOUS
  <2> USE DEF vars, queueVars, workerVars, socketVars
  <2>1. /\ L0 \in Ops /\ L1 \in Ops /\ L0 # L1
        /\ \A c \in Conns : /\ <<c, 0>> \in Ops /\ <<c, 1>> \in Ops
                           /\ <<c, 0>> # <<c, 1>>
                           /\ <<c, 0>> \notin {L0, L1}
                           /\ <<c, 1>> \notin {L0, L1}
        /\ \A c, d \in Conns :
             /\ c # d => <<c, 0>> # <<d, 0>> /\ <<c, 1>> # <<d, 1>>
             /\ <<c, 0>> # <<d, 1>>
        /\ Listener \in Sockets
        /\ Conns \subseteq Sockets
        /\ Listener \notin Conns
        /\ \A o \in Ops : o[1] \in Sockets
    BY DEF Ops, Sockets
  <2>2. CASE WorkerFlush
    BY <2>2, EmptyFacts DEF WorkerFlush, FirstFirst, OnePlace, FoundIdle, Idle
  <2>3. CASE WorkerCheckStop
    BY <2>3 DEF WorkerCheckStop, OnePlace, FoundIdle, Idle
  <2>4. CASE WorkerWake
    BY <2>4 DEF WorkerWake, OnePlace, FoundIdle, Idle
  <2>5. CASE OpRelisten
    <3>1. OnePlace' /\ \A p : Idle(p)' <=> Idle(p)
      BY <2>5 DEF OpRelisten, OnePlace, Idle
    <3> QED
      BY <2>5, <3>1 DEF OpRelisten, Returns, AfterHandler, FoundIdle, TypeOK
  <2>6. ASSUME NEW o \in Ops, OpTransfer(o)
        PROVE  OnePlace' /\ FoundIdle'
    <3>1. PICK h : Runs(o, h)
      BY <2>6, Zenon DEF OpTransfer
    <3>2. queue' = queue /\ \A p \in Ops : p # o => irp'[p] = irp[p]
      BY <2>6 DEF OpTransfer, Request, TypeOK
    <3>3. /\ OnePlace' /\ ~ Idle(o) /\ (irp'[o] = "none" => Idle(o)')
          /\ \A p \in Ops : p # o /\ Idle(p) => Idle(p)'
      BY <3>1, <3>2, TakeFacts
    <3> QED
      BY <2>6, <2>1, <3>3
         DEF OpTransfer, Returns, AfterHandler, FoundIdle, TypeOK
  <2>7. ASSUME NEW o \in Ops, OpDisconnect(o)
        PROVE  OnePlace' /\ FoundIdle'
    <3>1. PICK h : Runs(o, h)
      BY <2>7, Zenon DEF OpDisconnect
    <3>2. queue' = queue /\ \A p \in Ops : p # o => irp'[p] = irp[p]
      BY <2>7 DEF OpDisconnect, Request, TypeOK
    <3>3. /\ OnePlace' /\ ~ Idle(o) /\ (irp'[o] = "none" => Idle(o)')
          /\ \A p \in Ops : p # o /\ Idle(p) => Idle(p)'
      BY <3>1, <3>2, TakeFacts
    <3> QED
      BY <2>7, <2>1, <3>3
         DEF OpDisconnect, Returns, AfterHandler, FoundIdle, TypeOK
  <2>8. ASSUME NEW o \in Ops, OpSkip(o)
        PROVE  OnePlace' /\ FoundIdle'
    <3>1. PICK h : Runs(o, h)
      BY <2>8, Zenon DEF OpSkip
    <3>2. queue' = queue /\ \A p \in Ops : p # o => irp'[p] = irp[p]
      BY <2>8 DEF OpSkip, TypeOK
    <3>3. /\ OnePlace' /\ ~ Idle(o) /\ (irp'[o] = "none" => Idle(o)')
          /\ \A p \in Ops : p # o /\ Idle(p) => Idle(p)'
      BY <3>1, <3>2, TakeFacts
    <3> QED
      BY <2>8, <2>1, <3>3 DEF OpSkip, Returns, AfterHandler, FoundIdle, TypeOK
  <2>9. ASSUME NEW o \in Ops, OpClose(o)
        PROVE  OnePlace' /\ FoundIdle'
    <3>1. PICK h : Runs(o, h)
      BY <2>9, Zenon DEF OpClose
    <3>2. queue' = queue /\ \A p \in Ops : p # o => irp'[p] = irp[p]
      BY <2>9 DEF OpClose, Request, TypeOK
    <3>3. /\ OnePlace' /\ ~ Idle(o) /\ (irp'[o] = "none" => Idle(o)')
          /\ \A p \in Ops : p # o /\ Idle(p) => Idle(p)'
      BY <3>1, <3>2, TakeFacts
    <3> QED
      BY <2>9, <2>1, <3>3 DEF OpClose, Returns, AfterHandler, FoundIdle, TypeOK
  <2>10. ASSUME NEW o \in Ops, OpCloseSkip(o)
         PROVE  OnePlace' /\ FoundIdle'
    <3>1. PICK h : Runs(o, h)
      BY <2>10, Zenon DEF OpCloseSkip
    <3>2. queue' = queue /\ \A p \in Ops : p # o => irp'[p] = irp[p]
      BY <2>10 DEF OpCloseSkip, TypeOK
    <3>3. /\ OnePlace' /\ ~ Idle(o) /\ (irp'[o] = "none" => Idle(o)')
          /\ \A p \in Ops : p # o /\ Idle(p) => Idle(p)'
      BY <3>1, <3>2, TakeFacts
    <3> QED
      BY <2>10, <2>1, <3>3
         DEF OpCloseSkip, Returns, AfterHandler, FoundIdle, TypeOK
  <2>11. ASSUME NEW o \in Ops, OpFree(o)
         PROVE  OnePlace' /\ FoundIdle'
    <3>1. PICK h : Runs(o, h)
      BY <2>11, Zenon DEF OpFree
    <3>2. queue' = queue /\ \A p \in Ops : p # o => irp'[p] = irp[p]
      BY <2>11 DEF OpFree, TypeOK
    <3>3. /\ OnePlace' /\ ~ Idle(o) /\ (irp'[o] = "none" => Idle(o)')
          /\ \A p \in Ops : p # o /\ Idle(p) => Idle(p)'
      BY <3>1, <3>2, TakeFacts
    <3> QED
      BY <2>11, <2>1, <3>3 DEF OpFree, Returns, AfterHandler, FoundIdle, TypeOK
  <2>12. ASSUME NEW o \in Ops, OpStartListenFails(o)
         PROVE  OnePlace' /\ FoundIdle'
    <3>1. PICK h : Runs(o, h)
      BY <2>12, Zenon DEF OpStartListenFails
    <3>2. queue' = queue /\ \A p \in Ops : p # o => irp'[p] = irp[p]
      BY <2>12 DEF OpStartListenFails, TypeOK
    <3>3. /\ OnePlace' /\ ~ Idle(o) /\ (irp'[o] = "none" => Idle(o)')
          /\ \A p \in Ops : p # o /\ Idle(p) => Idle(p)'
      BY <3>1, <3>2, TakeFacts
    <3>4. irp[o] = "none"
      BY <3>1, RunsFacts DEF OnePlace
    <3> QED
      BY <2>12, <2>1, <3>3, <3>4
         DEF OpStartListenFails, Runs, Returns, AfterHandler, FoundIdle, TypeOK
  <2>13. ASSUME NEW o \in Ops, OpStartListen(o)
         PROVE  OnePlace' /\ FoundIdle'
    <3>1. PICK h : Runs(o, h)
      BY <2>13, Zenon DEF OpStartListen
    <3>2. queue' = queue /\ \A p \in Ops : p # o => irp'[p] = irp[p]
      BY <2>13 DEF OpStartListen, TypeOK
    <3>3. /\ OnePlace' /\ ~ Idle(o) /\ (irp'[o] = "none" => Idle(o)')
          /\ \A p \in Ops : p # o /\ Idle(p) => Idle(p)'
      BY <3>1, <3>2, TakeFacts
    <3>4. irp[o] = "none"
      BY <3>1, RunsFacts DEF OnePlace
    <3> QED
      BY <2>13, <2>1, <3>3, <3>4
         DEF OpStartListen, Runs, Returns, AfterHandler, FoundIdle, TypeOK
  <2>14. ASSUME NEW o \in Ops, OpRestartListen(o)
         PROVE  OnePlace' /\ FoundIdle'
    <3>1. PICK h : Runs(o, h)
      BY <2>14, Zenon DEF OpRestartListen
    <3>2. queue' = queue /\ \A p \in Ops : p # o => irp'[p] = irp[p]
      BY <2>14 DEF OpRestartListen, TypeOK
    <3>3. /\ OnePlace' /\ ~ Idle(o) /\ (irp'[o] = "none" => Idle(o)')
          /\ \A p \in Ops : p # o /\ Idle(p) => Idle(p)'
      BY <3>1, <3>2, TakeFacts
    <3>4. irp[o] = "none"
      BY <3>1, RunsFacts DEF OnePlace
    <3> QED
      BY <2>14, <2>1, <3>3, <3>4
         DEF OpRestartListen, Runs, Returns, AfterHandler, FoundIdle, TypeOK
  <2>15. ASSUME NEW o \in Ops, OpStopListen(o)
         PROVE  OnePlace' /\ FoundIdle'
    <3>1. Runs(o, "StopListen") /\ Push(o, AfterStopListen) /\ irp' = irp
      BY <2>15 DEF OpStopListen, EnqueueOpFromWorker
    <3>2. /\ Distinct(batch') /\ In(o, batch) /\ ~ In(o, batch')
          /\ \A y : In(y, batch') => In(y, batch)
      BY <3>1, RunsFacts
    <3>3. ~ In(o, queue) /\ irp[o] = "none"
      BY <3>2 DEF OnePlace
    <3>4. /\ Distinct(queue')
          /\ \A y : In(y, queue') <=> In(y, queue) \/ y = o
      BY <3>1, <3>3, PushFacts
    <3>5. OnePlace'
      BY <3>1, <3>2, <3>3, <3>4 DEF OnePlace
    <3>6. ~ Idle(o) /\ \A p \in Ops : p # o /\ Idle(p) => Idle(p)'
      BY <3>1, <3>2, <3>4 DEF Idle
    <3>7. handler' = [handler EXCEPT ![o] = AfterStopListen]
      BY <3>1 DEF Push
    <3> QED
      BY <2>15, <2>1, <3>5, <3>6, <3>7
         DEF OpStopListen, AfterStopListen, Returns, AfterHandler, FoundIdle,
             TypeOK
  <2>16. CASE SetEvent
    BY <2>16 DEF SetEvent, OnePlace, FoundIdle, Idle
  <2>17. ASSUME NEW s \in Conns, NEW i \in {0, 1}, ReceiveIrpCompletion(s, i)
         PROVE  OnePlace' /\ FoundIdle'
    <3>1. PICK h : Completes(<<s, i>>, "receive", h) /\ h # "StartListen"
      BY <2>17 DEF ReceiveIrpCompletion
    <3>2. <<s, i>> \in Ops /\ batch' = batch
      BY <2>17 DEF ReceiveIrpCompletion, Ops, Sockets
    <3>3. /\ OnePlace' /\ ~ Idle(<<s, i>>)
          /\ \A p \in Ops : p # <<s, i>> /\ Idle(p) => Idle(p)'
          /\ handler' = [handler EXCEPT ![<<s, i>>] = h]
      BY <3>1, <3>2, CompletesFacts
    <3> QED
      BY <2>17, <2>1, <3>1, <3>2, <3>3
         DEF ReceiveIrpCompletion, FoundIdle, TypeOK
  <2>18. ASSUME NEW s \in Conns, NEW i \in {0, 1}, SendIrpCompletion(s, i)
         PROVE  OnePlace' /\ FoundIdle'
    <3>1. PICK h : Completes(<<s, i>>, "send", h) /\ h # "StartListen"
      BY <2>18 DEF SendIrpCompletion
    <3>2. <<s, i>> \in Ops /\ batch' = batch
      BY <2>18 DEF SendIrpCompletion, Ops, Sockets
    <3>3. /\ OnePlace' /\ ~ Idle(<<s, i>>)
          /\ \A p \in Ops : p # <<s, i>> /\ Idle(p) => Idle(p)'
          /\ handler' = [handler EXCEPT ![<<s, i>>] = h]
      BY <3>1, <3>2, CompletesFacts
    <3> QED
      BY <2>18, <2>1, <3>1, <3>2, <3>3 DEF SendIrpCompletion, FoundIdle, TypeOK
  <2>19. ASSUME NEW s \in Conns, NEW i \in {0, 1}, DisconnectIrpCompletion(s,
                i)
         PROVE  OnePlace' /\ FoundIdle'
    <3>1. PICK h : Completes(<<s, i>>, "disconnect", h) /\ h # "StartListen"
      BY <2>19 DEF DisconnectIrpCompletion, AfterDisconnect
    <3>2. <<s, i>> \in Ops /\ batch' = batch
      BY <2>19 DEF DisconnectIrpCompletion, Ops, Sockets
    <3>3. /\ OnePlace' /\ ~ Idle(<<s, i>>)
          /\ \A p \in Ops : p # <<s, i>> /\ Idle(p) => Idle(p)'
          /\ handler' = [handler EXCEPT ![<<s, i>>] = h]
      BY <3>1, <3>2, CompletesFacts
    <3> QED
      BY <2>19, <2>1, <3>1, <3>2, <3>3
         DEF DisconnectIrpCompletion, FoundIdle, TypeOK
  <2>20. ASSUME NEW s \in Sockets, NEW i \in {0, 1}, CloseIrpCompletion(s, i)
         PROVE  OnePlace' /\ FoundIdle'
    <3>1. PICK h : Completes(<<s, i>>, "close", h) /\ h # "StartListen"
      BY <2>20 DEF CloseIrpCompletion
    <3>2. <<s, i>> \in Ops /\ batch' = batch
      BY <2>20 DEF CloseIrpCompletion, Ops, Sockets
    <3>3. /\ OnePlace' /\ ~ Idle(<<s, i>>)
          /\ \A p \in Ops : p # <<s, i>> /\ Idle(p) => Idle(p)'
          /\ handler' = [handler EXCEPT ![<<s, i>>] = h]
      BY <3>1, <3>2, CompletesFacts
    <3> QED
      BY <2>20, <2>1, <3>1, <3>2, <3>3
         DEF CloseIrpCompletion, FoundIdle, TypeOK
  <2>21. ASSUME NEW c \in Conns, AcceptFirst(c)
         PROVE  OnePlace' /\ FoundIdle'
    <3>1. /\ EnqueueOp(<<c, 0>>, "Receive")
          /\ Idle(<<c, 0>>)
          /\ batch' = batch
          /\ irp' = irp
      BY <2>21 DEF AcceptFirst, FoundIdle
    <3>2. /\ OnePlace'
          /\ \A p \in Ops : p # <<c, 0>> /\ Idle(p) => Idle(p)'
          /\ handler' = [handler EXCEPT ![<<c, 0>>] = "Receive"]
      BY <2>1, <3>1, EnqueueFacts
    <3> QED
      BY <2>21, <2>1, <3>2 DEF AcceptFirst, FoundIdle, TypeOK
  <2>22. ASSUME NEW c \in Conns, AcceptSecond(c)
         PROVE  OnePlace' /\ FoundIdle'
    <3>1. /\ EnqueueOp(<<c, 1>>, "Receive")
          /\ Idle(<<c, 1>>)
          /\ batch' = batch
          /\ irp' = irp
      BY <2>22 DEF AcceptSecond, FoundIdle
    <3>2. /\ OnePlace'
          /\ \A p \in Ops : p # <<c, 1>> /\ Idle(p) => Idle(p)'
          /\ handler' = [handler EXCEPT ![<<c, 1>>] = "Receive"]
      BY <2>1, <3>1, EnqueueFacts
    <3> QED
      BY <2>22, <2>1, <3>2 DEF AcceptSecond, FoundIdle, TypeOK
  <2>23. ASSUME NEW c \in Conns, PeerLeaves(c)
         PROVE  OnePlace' /\ FoundIdle'
    BY <2>23 DEF PeerLeaves, OnePlace, FoundIdle, Idle
  <2>24. CASE AcceptNull
    <3>1. /\ EnqueueOp(L0, "StartListen")
          /\ Idle(L0)
          /\ batch' = batch
          /\ irp' = irp
      BY <2>24 DEF AcceptNull, FoundIdle
    <3>2. /\ OnePlace'
          /\ \A p \in Ops : p # L0 /\ Idle(p) => Idle(p)'
          /\ handler' = [handler EXCEPT ![L0] = "StartListen"]
      BY <2>1, <3>1, EnqueueFacts
    <3> QED
      BY <2>24, <2>1, <3>2 DEF AcceptNull, FoundIdle, TypeOK
  <2>25. CASE UnloadStopListen
    <3>1. /\ EnqueueOp(L1, "StopListen")
          /\ Idle(L1)
          /\ batch' = batch
          /\ irp' = irp
      BY <2>25 DEF UnloadStopListen, StopOp, FoundIdle
    <3>2. /\ OnePlace'
          /\ \A p \in Ops : p # L1 /\ Idle(p) => Idle(p)'
          /\ handler' = [handler EXCEPT ![L1] = "StopListen"]
      BY <2>1, <3>1, EnqueueFacts
    <3> QED
      BY <2>25, <2>1, <3>2 DEF UnloadStopListen, FoundIdle, TypeOK
  <2>26. CASE UnloadDeregister
    BY <2>26 DEF UnloadDeregister, OnePlace, FoundIdle, Idle
  <2>27. CASE UnloadStop
    BY <2>27 DEF UnloadStop, OnePlace, FoundIdle, Idle
  <2>28. CASE UnloadSetEvent
    BY <2>28 DEF UnloadSetEvent, WakeForStop, OnePlace, FoundIdle, Idle
  <2>29. CASE UnloadJoin
    BY <2>29 DEF UnloadJoin, OnePlace, FoundIdle, Idle
  <2>30. CASE UNCHANGED vars
    BY <2>30 DEF OnePlace, FoundIdle, Idle
  <2> QED
    BY <2>2, <2>3, <2>4, <2>5, <2>6, <2>7, <2>8, <2>9, <2>10, <2>11, <2>12,
       <2>13, <2>14, <2>15, <2>16, <2>17, <2>18, <2>19, <2>20, <2>21, <2>22,
       <2>23, <2>24, <2>25, <2>26, <2>27, <2>28, <2>29, <2>30
       DEF Next, WorkerThread, OpHandler, Completion, UnloadGoesOn, Terminated
<1> QED
  BY <1>1, <1>2, TypeCorrect, PTL DEF Spec

\* Its linkage and its IRP serve one purpose at a time: an operation context
\* is never put on the work queue, or sent to WSK, when it is already there.
THEOREM OperationsNotShared == Spec => []OpsNotShared
BY PlacesKept, OnePlaceEnough, TypeCorrect, PTL

(***************************************************************************)
(* When a socket context is freed.                                         *)
(***************************************************************************)

\* p stands behind o on the work queue: the worker thread takes it later.
LaterIn(p, o, s) == \E i, j \in 1 .. Len(s) : i < j /\ s[i] = o /\ s[j] = p

Behind(p, o) ==
  \/ In(o, batch) /\ In(p, queue)
  \/ LaterIn(p, o, batch)
  \/ LaterIn(p, o, queue)

\* o waits on the work queue, or is taken from it, with the handler h.
Waits(o, h) == (In(o, batch) \/ In(o, queue)) /\ handler[o] = h

\* The other operation context of the same socket
Other(o) == <<o[1], 1 - o[2]>>

\* What an operation context is used for
OwnHandlers ==
  /\ \A o \in Ops :
       o[1] \in Conns => handler[o] \notin {"StartListen", "StopListen"}
  /\ handler[<<Listener, 0>>] \in {"none", "StartListen"}
  /\ handler[<<Listener, 1>>] \in {"none", "StopListen", "Close", "Free"}
  /\ irp[<<Listener, 0>>] = "none"
  /\ irp[<<Listener, 1>>] \in {"none", "close"}

\* What is used is allocated, and was freed at most once.
LiveInUse ==
  /\ \A s \in Sockets : mem[s] # "corrupt"
  /\ \A o \in Ops : ~ Idle(o) => mem[o[1]] = "live"
  /\ \A c \in accepting : mem[c] = "live"
  /\ unload = "no" \/ wsk[Listener] \in {"open", "deaf"} \/ worker = "relisten"
       => mem[Listener] = "live"

\* A connection's socket is open until OpClose marks the context.
ConnOpen ==
  \A c \in Conns :
    /\ mem[c] = "live" /\ ~ closing[c] => wsk[c] = "open"
    /\ closing[c] => wsk[c] \in {"closing", "closed"} /\ mem[c] # "none"

\* The listening socket is closed only when it is stopped, and only StartListen
\* creates it.
ListenerOpen ==
  /\ worker = "relisten" => wsk[Listener] = "closing" /\ ~ stopListening
  /\ closing[Listener] => stopListening
  /\ unload = "no" => handler[<<Listener, 1>>] = "none"
  /\ stopListening => handler[<<Listener, 1>>] \in {"Close", "Free"}
  /\ Waits(<<Listener, 1>>, "StopListen") => ~ closing[Listener]
  /\ Waits(<<Listener, 1>>, "Close") =>
       /\ wsk[Listener] \in {"open", "deaf"}
       /\ ~ closing[Listener]
       /\ stopListening
  /\ wsk[Listener] \in {"closing", "closed"} =>
       closing[Listener] \/ worker = "relisten"
  /\ wsk[Listener] = "none" => ~ Behind(<<Listener, 0>>, <<Listener, 1>>)

\* WSK was asked, by one of the two operations, to close the socket.
Closes(o) ==
  /\ closing[o[1]] /\ wsk[o[1]] = "closing"
  /\ o[1] = Listener => stopListening
  /\ irp[Other(o)] # "close" /\ ~ Waits(Other(o), "Free")

OneCloses == \A o \in Ops : irp[o] = "close" => Closes(o)

\* Nobody uses the context any more when o is handled: the accept callback
\* has returned, the other operation is not out and does not come later.
LastUse(o) ==
  /\ o[1] \in Conns => closing[o[1]] /\ o[1] \notin accepting
  /\ o[1] = Listener => stopListening
  /\ wsk[o[1]] \in {"none", "closed"}
  /\ irp[Other(o)] = "none"
  /\ ~ Behind(Other(o), o) /\ ~ Waits(Other(o), "Free")
  /\ o[1] = Listener /\ wsk[Listener] = "none" => Idle(<<Listener, 0>>)

FreedLast == \A o \in Ops : Waits(o, "Free") => LastUse(o)

FreeInv ==
  /\ OwnHandlers /\ LiveInUse /\ ConnOpen /\ ListenerOpen
  /\ OneCloses /\ FreedLast

\* The two operation contexts of a socket
Pair(p, q) ==
  /\ p \in Ops /\ q \in Ops /\ q = Other(p) /\ p = Other(q) /\ q # p
  /\ q[1] = p[1] /\ p[1] \in Sockets
  /\ \/ p[1] \in Conns /\ p[1] # Listener
     \/ p[1] = Listener /\ p = <<Listener, 0>> /\ q = <<Listener, 1>>
     \/ p[1] = Listener /\ p = <<Listener, 1>> /\ q = <<Listener, 0>>
  /\ irp[p] = "close" => Closes(p) /\ p # <<Listener, 0>>
  /\ irp[q] = "close" => Closes(q) /\ q # <<Listener, 0>>
  /\ Waits(p, "Free") => LastUse(p) /\ p # <<Listener, 0>>
  /\ Waits(q, "Free") => LastUse(q) /\ q # <<Listener, 0>>

\* The listening socket's two operation contexts, and a connection's
LEMMA OtherFacts ==
  /\ \A o \in Ops : /\ Other(o) \in Ops /\ Other(o) # o
                    /\ Other(o)[1] = o[1] /\ Other(Other(o)) = o
                    /\ o[1] \in Sockets
                    /\ o[1] = Listener =>
                         o \in {<<Listener, 0>>, <<Listener, 1>>}
                    /\ o[1] # Listener => o[1] \in Conns
                    /\ \A p \in Ops : p[1] = o[1] => p = o \/ p = Other(o)
  /\ \A s \in Sockets, i \in {0, 1} : <<s, i>> \in Ops
  /\ \A c \in Conns : c \in Sockets /\ c # Listener
  /\ Other(<<Listener, 0>>) = <<Listener, 1>>
  /\ Other(<<Listener, 1>>) = <<Listener, 0>>
  /\ Listener \in Sockets
BY DEF Other, Ops, Sockets

\* The order in a list is kept when its first entry is taken.
LEMMA TailOrder ==
  ASSUME NEW S, NEW s \in Seq(S), s # << >>
  PROVE  /\ \A p, q : LaterIn(p, q, Tail(s)) => LaterIn(p, q, s)
         /\ \A p : In(p, s) => p = Head(s) \/ LaterIn(p, Head(s), s)
<1> DEFINE t == Tail(s)
<1>1. /\ Len(s) \in Nat /\ Len(s) > 0 /\ Len(t) = Len(s) - 1
      /\ Head(s) = s[1] /\ \A i \in 1 .. Len(t) : t[i] = s[i + 1]
  OBVIOUS
<1> HIDE DEF t
<1>2. ASSUME NEW p, NEW q, LaterIn(p, q, t)
      PROVE  LaterIn(p, q, s)
  <2>1. PICK i, j \in 1 .. Len(t) : i < j /\ t[i] = q /\ t[j] = p
    BY <1>2 DEF LaterIn
  <2>2. /\ i + 1 \in 1 .. Len(s) /\ j + 1 \in 1 .. Len(s) /\ i + 1 < j + 1
        /\ s[i + 1] = q /\ s[j + 1] = p
    BY <1>1, <2>1
  <2> QED
    BY <2>2 DEF LaterIn
<1>3. ASSUME NEW p, NEW j \in 1 .. Len(s), s[j] = p, p # Head(s)
      PROVE  LaterIn(p, Head(s), s)
  <2>1. 1 \in 1 .. Len(s) /\ 1 < j /\ s[1] = Head(s)
    BY <1>1, <1>3
  <2> QED
    BY <1>3, <2>1 DEF LaterIn
<1> QED
  BY <1>2, <1>3 DEF t, In

\* What is put behind a list stands behind all that is in it.
LEMMA AppendOrder ==
  ASSUME NEW S, NEW s \in Seq(S), NEW x \in S, ~ In(x, s)
  PROVE  /\ \A p, q : p # x /\ LaterIn(p, q, Append(s, x)) => LaterIn(p, q, s)
         /\ \A p : p # x => ~ LaterIn(p, x, Append(s, x))
<1> DEFINE t == Append(s, x)
<1>1. /\ Len(t) = Len(s) + 1 /\ t[Len(s) + 1] = x /\ Len(s) \in Nat
      /\ \A i \in 1 .. Len(s) : t[i] = s[i]
  OBVIOUS
<1> HIDE DEF t
<1>2. ASSUME NEW p, NEW q, p # x, NEW i \in 1 .. Len(t), NEW j \in 1 .. Len(t),
             i < j, t[i] = q, t[j] = p
      PROVE  LaterIn(p, q, s) /\ q # x
  <2>1. j \in 1 .. Len(s) /\ i \in 1 .. Len(s)
    BY <1>1, <1>2
  <2>2. s[i] = q /\ s[j] = p
    BY <1>1, <1>2, <2>1
  <2> QED
    BY <1>2, <2>1, <2>2 DEF LaterIn, In
<1>3. \A p, q : p # x /\ LaterIn(p, q, t) => LaterIn(p, q, s) /\ q # x
  BY <1>2 DEF LaterIn
<1> QED
  BY <1>3 DEF t

LEMMA EmptyOrder == \A p, q : ~ LaterIn(p, q, << >>)
BY DEF LaterIn

\* What is not on the work queue stands behind nothing there.
LEMMA IdleNotBehind == \A p, q : Idle(p) => ~ Behind(p, q)
BY DEF Idle, Behind, LaterIn, In

\* The worker thread moves the whole queue to its local list.
LEMMA FlushOrder ==
  ASSUME WorkerFlush
  PROVE  /\ \A p, q : Behind(p, q)' => Behind(p, q)
         /\ \A p, h : Waits(p, h)' => Waits(p, h)
         /\ \A p : Idle(p) => Idle(p)'
<1>1. batch' = queue /\ queue' = << >> /\ handler' = handler /\ irp' = irp
  BY DEF WorkerFlush, FirstFirst
<1>2. \A p : ~ In(p, queue')
  BY <1>1, EmptyFacts
<1>3. \A p, q : ~ LaterIn(p, q, queue')
  BY <1>1, EmptyOrder
<1> QED
  BY <1>1, <1>2, <1>3 DEF Behind, Waits, Idle

\* The worker thread takes an operation.
LEMMA TakeOrder ==
  ASSUME TypeOK, OnePlace, NEW o \in Ops, NEW h, Runs(o, h),
         queue' = queue, handler' = handler
  PROVE  /\ \A p, q : Behind(p, q)' => Behind(p, q)
         /\ \A p, k : Waits(p, k)' => Waits(p, k) /\ p # o
         /\ Waits(o, h)
         /\ \A p \in Ops : p # o /\ ~ Behind(p, o) /\ irp[p] = "none" =>
              Idle(p)
<1>1. /\ Distinct(batch') /\ In(o, batch) /\ ~ In(o, batch')
      /\ \A y : In(y, batch') => In(y, batch)
  BY RunsFacts
<1>2. ~ In(o, queue)
  BY <1>1 DEF OnePlace
<1>3. /\ \A p, q : LaterIn(p, q, batch') => LaterIn(p, q, batch)
      /\ \A p : In(p, batch) => p = o \/ LaterIn(p, o, batch)
  BY TailOrder DEF Runs, TypeOK
<1>4. \A p, q : Behind(p, q)' => Behind(p, q)
  BY <1>1, <1>3 DEF Behind
<1>5. \A p, k : Waits(p, k)' => Waits(p, k) /\ p # o
  BY <1>1, <1>2 DEF Waits
<1>6. Waits(o, h)
  BY <1>1 DEF Waits, Runs
<1>7. ASSUME NEW p \in Ops, p # o, ~ Behind(p, o), irp[p] = "none"
      PROVE  Idle(p)
  BY <1>1, <1>3, <1>7 DEF Behind, Idle
<1> QED
  BY <1>4, <1>5, <1>6, <1>7

\* An operation is enqueued.
LEMMA QueueOrder ==
  ASSUME TypeOK, NEW o \in Ops, NEW h, Push(o, h), batch' = batch,
         ~ In(o, batch), ~ In(o, queue)
  PROVE  /\ \A p, q : p # o /\ Behind(p, q)' => Behind(p, q)
         /\ \A p \in Ops : p # o => ~ Behind(p, o)'
         /\ \A p \in Ops : \A k : p # o /\ Waits(p, k)' => Waits(p, k)
         /\ \A k : Waits(o, k)' => k = h
<1>1. /\ queue' = Append(queue, o) /\ queue \in Seq(Ops)
      /\ handler'[o] = h /\ \A p \in Ops : p # o => handler'[p] = handler[p]
  BY DEF Push, TypeOK
<1>2. \A y : In(y, queue') => In(y, queue) \/ y = o
  <2>1. ASSUME NEW y, NEW i \in 1 .. Len(queue'), queue'[i] = y, y # o
        PROVE  In(y, queue)
    BY <1>1, <2>1 DEF In
  <2> QED
    BY <2>1 DEF In
<1>3. /\ \A p, q : p # o /\ LaterIn(p, q, queue') => LaterIn(p, q, queue)
      /\ \A p : p # o => ~ LaterIn(p, o, queue')
  BY <1>1, AppendOrder
<1>4. \A p, q : p # o /\ Behind(p, q)' => Behind(p, q)
  BY <1>2, <1>3 DEF Behind
<1>5. ASSUME NEW p \in Ops, p # o
      PROVE  ~ Behind(p, o)'
  <2>1. ~ LaterIn(p, o, batch)
    BY DEF LaterIn, In
  <2> QED
    BY <1>2, <1>3, <1>5, <2>1 DEF Behind
<1>6. \A p \in Ops : \A k : p # o /\ Waits(p, k)' => Waits(p, k)
  BY <1>1, <1>2 DEF Waits
<1>7. \A k : Waits(o, k)' => k = h
  BY <1>1 DEF Waits
<1> QED
  BY <1>4, <1>5, <1>6, <1>7

LEMMA PairFacts ==
  ASSUME FreeInv, NEW p \in Ops
  PROVE  \E q : Pair(p, q)
<1>1. p[1] \in Conns \/ p = <<Listener, 0>> \/ p = <<Listener, 1>>
  BY OtherFacts
<1>2. ~ Waits(<<Listener, 0>>, "Free") /\ irp[<<Listener, 0>>] # "close"
  BY DEF FreeInv, OwnHandlers, Waits
<1>3. \A o \in Ops : /\ irp[o] = "close" => Closes(o)
                     /\ Waits(o, "Free") => LastUse(o)
  BY DEF FreeInv, OneCloses, FreedLast
<1>4. /\ Other(p) \in Ops /\ p = Other(Other(p)) /\ Other(p) # p
      /\ Other(p)[1] = p[1] /\ p[1] \in Sockets
  BY OtherFacts
<1>5. \/ p[1] \in Conns /\ p[1] # Listener
      \/ p[1] = Listener /\ p = <<Listener, 0>> /\ Other(p) = <<Listener, 1>>
      \/ p[1] = Listener /\ p = <<Listener, 1>> /\ Other(p) = <<Listener, 0>>
  BY <1>1, OtherFacts
<1>6. Pair(p, Other(p))
  BY <1>2, <1>3, <1>4, <1>5 DEF Pair
<1> QED
  BY <1>6

\* A step of the system keeps what is said of the memory and its users.
LEMMA FreeStep ==
  ASSUME AcceptHoldsSocket, TypeOK, OnePlace, FoundIdle, FreeInv, [Next]_vars
  PROVE  FreeInv'
<1> DEFINE L0 == <<Listener, 0>>
<1> DEFINE L1 == <<Listener, 1>>
<1> USE DEF vars, queueVars, workerVars, socketVars
<1>1. /\ \A o \in Ops : /\ Other(o) \in Ops /\ Other(o) # o
                         /\ Other(o)[1] = o[1] /\ Other(Other(o)) = o
                         /\ o[1] \in Sockets
                         /\ (o[1] = Listener => o \in {L0, L1})
                         /\ (o[1] # Listener => o[1] \in Conns)
                         /\ \A p \in Ops : (p[1] = o[1] =>
                              p = o \/ p = Other(o))
      /\ \A s \in Sockets, i \in {0, 1} : <<s, i>> \in Ops
      /\ \A c \in Conns : c \in Sockets /\ c # Listener
      /\ Other(L0) = L1 /\ Other(L1) = L0 /\ L0 # L1
      /\ L0 \in Ops /\ L1 \in Ops /\ L0[1] = Listener /\ L1[1] = Listener
      /\ Listener \in Sockets
      /\ \A s \in Sockets : <<s, 0>>[1] = s /\ <<s, 1>>[1] = s
                           /\ Other(<<s, 0>>) = <<s, 1>>
                           /\ Other(<<s, 1>>) = <<s, 0>>
  BY OtherFacts DEF Other
<1>2. /\ OwnHandlers /\ LiveInUse /\ ConnOpen /\ ListenerOpen
     /\ OneCloses /\ FreedLast
  BY DEF FreeInv
<1>3. CASE WorkerFlush
  <2>1. /\ \A p, q : Behind(p, q)' => Behind(p, q)
        /\ \A p, h : Waits(p, h)' => Waits(p, h)
        /\ \A p : Idle(p) => Idle(p)'
    BY <1>3, FlushOrder
  <2>2. OwnHandlers'
    BY <1>2, <1>3 DEF WorkerFlush, OwnHandlers
  <2>3. LiveInUse'
    BY <1>2, <1>3, <2>1 DEF WorkerFlush, LiveInUse
  <2>4. ConnOpen'
    BY <1>2, <1>3 DEF WorkerFlush, ConnOpen
  <2>5. ListenerOpen'
    BY <1>2, <1>3, <2>1 DEF WorkerFlush, ListenerOpen
  <2>6. OneCloses'
    <3> SUFFICES ASSUME NEW p \in Ops, irp'[p] = "close"
                 PROVE  Closes(p)'
      BY DEF OneCloses
    <3>1. PICK q : Pair(p, q)
      BY PairFacts
    <3> QED
      BY <1>3, <2>1, <3>1 DEF WorkerFlush, Pair, Closes
  <2>7. FreedLast'
    <3> SUFFICES ASSUME NEW p \in Ops, Waits(p, "Free")'
                 PROVE  LastUse(p)'
      BY DEF FreedLast
    <3>1. PICK q : Pair(p, q)
      BY PairFacts
    <3> QED
      BY <1>3, <2>1, <3>1 DEF WorkerFlush, Pair, LastUse
  <2> QED
    BY <2>2, <2>3, <2>4, <2>5, <2>6, <2>7 DEF FreeInv
<1>4. CASE WorkerCheckStop
  BY <1>4
     DEF WorkerCheckStop, FreeInv, OwnHandlers, LiveInUse, ConnOpen,
         ListenerOpen, OneCloses, FreedLast, Closes, LastUse, Behind, Waits,
         Idle
<1>5. CASE WorkerWake
  BY <1>5
     DEF WorkerWake, FreeInv, OwnHandlers, LiveInUse, ConnOpen, ListenerOpen,
         OneCloses, FreedLast, Closes, LastUse, Behind, Waits, Idle
<1>6. CASE OpRelisten
  <2>1. /\ \A p, q : Behind(p, q)' <=> Behind(p, q)
        /\ \A p, h : Waits(p, h)' <=> Waits(p, h)
        /\ \A p : Idle(p)' <=> Idle(p)
    BY <1>6 DEF OpRelisten, Behind, Waits, Idle
  <2>2. ~ stopListening /\ ~ Behind(L0, L1) /\ wsk[Listener] = "closing"
    BY <1>6, <1>2, IdleNotBehind DEF OpRelisten, FoundIdle, ListenerOpen
  <2>3. OwnHandlers'
    BY <1>2, <1>6 DEF OpRelisten, OwnHandlers
  <2>4. LiveInUse'
    BY <1>2, <1>6, <2>1 DEF OpRelisten, LiveInUse
  <2>5. ConnOpen'
    BY <1>2, <1>6 DEF OpRelisten, ConnOpen
  <2>6. ListenerOpen'
    BY <1>1, <1>2, <1>6, <2>1, <2>2
       DEF OpRelisten, Returns, AfterHandler, TypeOK, ListenerOpen
  <2>7. OneCloses'
    <3> SUFFICES ASSUME NEW p \in Ops, irp'[p] = "close"
                 PROVE  Closes(p)'
      BY DEF OneCloses
    <3>1. PICK q : Pair(p, q)
      BY PairFacts
    <3> QED
      BY <1>6, <2>1, <2>2, <3>1 DEF OpRelisten, Pair, Closes
  <2>8. FreedLast'
    <3> SUFFICES ASSUME NEW p \in Ops, Waits(p, "Free")'
                 PROVE  LastUse(p)'
      BY DEF FreedLast
    <3>1. PICK q : Pair(p, q)
      BY PairFacts
    <3> QED
      BY <1>6, <2>1, <2>2, <3>1 DEF OpRelisten, Pair, LastUse
  <2> QED
    BY <2>3, <2>4, <2>5, <2>6, <2>7, <2>8 DEF FreeInv
<1>7. ASSUME NEW o \in Ops, OpTransfer(o)
      PROVE  FreeInv'
  <2>1. PICK h : Runs(o, h) /\ h \in {"Receive", "Send"}
    BY <1>7 DEF OpTransfer
  <2>2. /\ queue' = queue /\ handler' = handler
        /\ \A p \in Ops : p # o => irp'[p] = irp[p]
    BY <1>7 DEF OpTransfer, Request, TypeOK
  <2>3. /\ ~ Idle(o) /\ (irp'[o] = "none" => Idle(o)')
        /\ \A p \in Ops : p # o /\ Idle(p) => Idle(p)'
    BY <2>1, <2>2, TakeFacts
  <2>4. /\ \A p, q : Behind(p, q)' => Behind(p, q)
        /\ \A p, k : Waits(p, k)' => Waits(p, k) /\ p # o
        /\ Waits(o, h)
        /\ \A p \in Ops : p # o /\ ~ Behind(p, o) /\ irp[p] = "none" => Idle(p)
    BY <2>1, <2>2, TakeOrder
  <2>5. o[1] \in Conns /\ o[1] # Listener
    BY <1>1, <2>1, <1>2 DEF Runs, OwnHandlers
  <2>6. OwnHandlers'
    BY <1>1, <1>2, <2>2, <2>5 DEF OwnHandlers
  <2>7. LiveInUse'
    BY <1>2, <1>7, <2>3 DEF OpTransfer, Returns, AfterHandler, LiveInUse
  <2>8. ConnOpen'
    BY <1>2, <1>7 DEF OpTransfer, ConnOpen
  <2>9. ListenerOpen'
    BY <1>2, <1>7, <2>4
       DEF OpTransfer, Returns, AfterHandler, Runs, ListenerOpen
  <2>10. OneCloses'
    <3> SUFFICES ASSUME NEW p \in Ops, irp'[p] = "close"
                 PROVE  Closes(p)'
      BY DEF OneCloses
    <3>1. PICK q : Pair(p, q)
      BY PairFacts
    <3> QED
      BY <1>7, <2>4, <3>1 DEF OpTransfer, Request, TypeOK, Pair, Closes
  <2>11. FreedLast'
    <3> SUFFICES ASSUME NEW p \in Ops, Waits(p, "Free")'
                 PROVE  LastUse(p)'
      BY DEF FreedLast
    <3>1. PICK q : Pair(p, q)
      BY PairFacts
    <3> QED
      BY <1>7, <2>2, <2>3, <2>4, <2>5, <3>1
         DEF OpTransfer, Leaving, Pair, LastUse
  <2> QED
    BY <2>6, <2>7, <2>8, <2>9, <2>10, <2>11 DEF FreeInv
<1>8. ASSUME NEW o \in Ops, OpDisconnect(o)
      PROVE  FreeInv'
  <2>1. PICK h : Runs(o, h) /\ h = "Disconnect"
    BY <1>8 DEF OpDisconnect
  <2>2. /\ queue' = queue /\ handler' = handler
        /\ \A p \in Ops : p # o => irp'[p] = irp[p]
    BY <1>8 DEF OpDisconnect, Request
  <2>3. /\ ~ Idle(o) /\ (irp'[o] = "none" => Idle(o)')
        /\ \A p \in Ops : p # o /\ Idle(p) => Idle(p)'
    BY <2>1, <2>2, TakeFacts
  <2>4. /\ \A p, q : Behind(p, q)' => Behind(p, q)
        /\ \A p, k : Waits(p, k)' => Waits(p, k) /\ p # o
        /\ Waits(o, h)
        /\ \A p \in Ops : p # o /\ ~ Behind(p, o) /\ irp[p] = "none" => Idle(p)
    BY <2>1, <2>2, TakeOrder
  <2>5. o[1] \in Conns /\ o[1] # Listener
    BY <1>1, <2>1, <1>2 DEF Runs, OwnHandlers
  <2>6. OwnHandlers'
    BY <1>1, <1>2, <2>2, <2>5 DEF OwnHandlers
  <2>7. LiveInUse'
    BY <1>2, <1>8, <2>3 DEF OpDisconnect, Returns, AfterHandler, LiveInUse
  <2>8. ConnOpen'
    BY <1>2, <1>8 DEF OpDisconnect, ConnOpen
  <2>9. ListenerOpen'
    BY <1>2, <1>8, <2>4
       DEF OpDisconnect, Returns, AfterHandler, Runs, ListenerOpen
  <2>10. OneCloses'
    <3> SUFFICES ASSUME NEW p \in Ops, irp'[p] = "close"
                 PROVE  Closes(p)'
      BY DEF OneCloses
    <3>1. PICK q : Pair(p, q)
      BY PairFacts
    <3> QED
      BY <1>8, <2>4, <3>1 DEF OpDisconnect, Request, Pair, Closes
  <2>11. FreedLast'
    <3> SUFFICES ASSUME NEW p \in Ops, Waits(p, "Free")'
                 PROVE  LastUse(p)'
      BY DEF FreedLast
    <3>1. PICK q : Pair(p, q)
      BY PairFacts
    <3> QED
      BY <1>8, <2>2, <2>3, <2>4, <2>5, <3>1
         DEF OpDisconnect, Leaving, Pair, LastUse
  <2> QED
    BY <2>6, <2>7, <2>8, <2>9, <2>10, <2>11 DEF FreeInv
<1>9. ASSUME NEW o \in Ops, OpSkip(o)
      PROVE  FreeInv'
  <2>1. PICK h : Runs(o, h) /\ h \in {"Receive", "Send", "Disconnect"}
    BY <1>9 DEF OpSkip
  <2>2. /\ queue' = queue /\ handler' = handler
        /\ \A p \in Ops : p # o => irp'[p] = irp[p]
    BY <1>9 DEF OpSkip
  <2>3. /\ ~ Idle(o) /\ (irp'[o] = "none" => Idle(o)')
        /\ \A p \in Ops : p # o /\ Idle(p) => Idle(p)'
    BY <2>1, <2>2, TakeFacts
  <2>4. /\ \A p, q : Behind(p, q)' => Behind(p, q)
        /\ \A p, k : Waits(p, k)' => Waits(p, k) /\ p # o
        /\ Waits(o, h)
        /\ \A p \in Ops : p # o /\ ~ Behind(p, o) /\ irp[p] = "none" => Idle(p)
    BY <2>1, <2>2, TakeOrder
  <2>5. o[1] \in Conns /\ o[1] # Listener
    BY <1>1, <2>1, <1>2 DEF Runs, OwnHandlers
  <2>6. OwnHandlers'
    BY <1>1, <1>2, <2>2, <2>5 DEF OwnHandlers
  <2>7. LiveInUse'
    BY <1>2, <1>9, <2>3 DEF OpSkip, Returns, AfterHandler, LiveInUse
  <2>8. ConnOpen'
    BY <1>2, <1>9 DEF OpSkip, ConnOpen
  <2>9. ListenerOpen'
    BY <1>2, <1>9, <2>4 DEF OpSkip, Returns, AfterHandler, Runs, ListenerOpen
  <2>10. OneCloses'
    <3> SUFFICES ASSUME NEW p \in Ops, irp'[p] = "close"
                 PROVE  Closes(p)'
      BY DEF OneCloses
    <3>1. PICK q : Pair(p, q)
      BY PairFacts
    <3> QED
      BY <1>9, <2>4, <3>1 DEF OpSkip, Pair, Closes
  <2>11. FreedLast'
    <3> SUFFICES ASSUME NEW p \in Ops, Waits(p, "Free")'
                 PROVE  LastUse(p)'
      BY DEF FreedLast
    <3>1. PICK q : Pair(p, q)
      BY PairFacts
    <3> QED
      BY <1>9, <2>3, <2>4, <3>1 DEF OpSkip, Pair, LastUse
  <2> QED
    BY <2>6, <2>7, <2>8, <2>9, <2>10, <2>11 DEF FreeInv
<1>10. ASSUME NEW o \in Ops, OpClose(o)
       PROVE  FreeInv'
  <2>1. PICK h : Runs(o, h) /\ h = "Close"
    BY <1>10 DEF OpClose
  <2>2. /\ queue' = queue /\ handler' = handler
        /\ \A p \in Ops : p # o => irp'[p] = irp[p]
    BY <1>10 DEF OpClose, Request
  <2>3. /\ ~ Idle(o) /\ (irp'[o] = "none" => Idle(o)')
        /\ \A p \in Ops : p # o /\ Idle(p) => Idle(p)'
    BY <2>1, <2>2, TakeFacts
  <2>4. /\ \A p, q : Behind(p, q)' => Behind(p, q)
        /\ \A p, k : Waits(p, k)' => Waits(p, k) /\ p # o
        /\ Waits(o, h)
        /\ \A p \in Ops : p # o /\ ~ Behind(p, o) /\ irp[p] = "none" => Idle(p)
    BY <2>1, <2>2, TakeOrder
  <2>5. \/ o[1] \in Conns /\ mem[o[1]] = "live" /\ o[1] # Listener
        \/ o = L1 /\ o[1] = Listener
    BY <1>1, <2>1, <2>3, <1>2 DEF Runs, OwnHandlers, LiveInUse
  <2>6. OwnHandlers'
    BY <1>2, <1>10, <2>5 DEF OpClose, Request, OwnHandlers
  <2>7. LiveInUse'
    BY <1>2, <1>10, <2>3 DEF OpClose, Returns, AfterHandler, LiveInUse
  <2>8. ConnOpen'
    BY <1>2, <1>10, <2>5 DEF OpClose, TypeOK, ConnOpen
  <2>9. ListenerOpen'
    BY <1>1, <1>2, <1>10, <2>1, <2>3, <2>4, <2>5
       DEF OpClose, Request, Returns, AfterHandler, TypeOK, AlreadyClosing,
           Runs, ListenerOpen
  <2>10. OneCloses'
    <3> SUFFICES ASSUME NEW p \in Ops, irp'[p] = "close"
                 PROVE  Closes(p)'
      BY DEF OneCloses
    <3>1. PICK q : Pair(p, q)
      BY PairFacts
    <3>2. ~ closing[o[1]] /\ (o[1] = Listener => stopListening)
      BY <1>10, <2>1, <2>4, <2>5, <1>2
         DEF OpClose, AlreadyClosing, ListenerOpen
    <3>3. CASE p = o
      <4>1. irp[q] # "close" /\ irp'[q] = irp[q]
        BY <2>2, <3>1, <3>2 DEF Pair, Closes
      <4>2. ~ Waits(q, "Free")'
        BY <2>4, <2>5, <3>1, <3>2, <3>3 DEF Pair, LastUse
      <4> QED
        BY <1>10, <3>1, <3>2, <3>3, <4>1, <4>2
           DEF OpClose, Closes, Pair, TypeOK
    <3>4. CASE p # o
      <4>1. Closes(p) /\ p[1] # o[1]
        BY <2>2, <3>1, <3>2, <3>4 DEF Pair, Closes
      <4>2. q # o /\ irp'[q] = irp[q]
        BY <2>2, <3>1, <4>1 DEF Pair
      <4> QED
        BY <1>10, <2>4, <3>1, <4>1, <4>2 DEF OpClose, Closes, Pair
    <3> QED
      BY <3>3, <3>4
  <2>11. FreedLast'
    <3> SUFFICES ASSUME NEW p \in Ops, Waits(p, "Free")'
                 PROVE  LastUse(p)'
      BY DEF FreedLast
    <3>1. PICK q : Pair(p, q)
      BY PairFacts
    <3>2. p # o /\ Waits(p, "Free") /\ LastUse(p)
      BY <2>4, <3>1 DEF Pair
    <3>3. p[1] = o[1] => q = o
      BY <1>1, <3>1, <3>2 DEF Pair
    <3>4. p[1] # o[1]
      BY <1>10, <2>5, <3>1, <3>2 DEF OpClose, AlreadyClosing, LastUse, Pair
    <3>5. /\ q # o
          /\ irp'[q] = irp[q]
          /\ wsk'[p[1]] = wsk[p[1]]
          /\ closing'[p[1]] = closing[p[1]]
      BY <1>10, <2>2, <3>1, <3>4 DEF OpClose, Pair
    <3>6. o[1] = Listener => p[1] # Listener
      BY <3>4
    <3> QED
      BY <1>10, <2>3, <2>4, <3>1, <3>5 DEF OpClose, LastUse, Pair
  <2> QED
    BY <2>6, <2>7, <2>8, <2>9, <2>10, <2>11 DEF FreeInv
<1>11. ASSUME NEW o \in Ops, OpCloseSkip(o)
       PROVE  FreeInv'
  <2>1. PICK h : Runs(o, h) /\ h = "Close"
    BY <1>11 DEF OpCloseSkip
  <2>2. /\ queue' = queue /\ handler' = handler
        /\ \A p \in Ops : p # o => irp'[p] = irp[p]
    BY <1>11 DEF OpCloseSkip
  <2>3. /\ ~ Idle(o) /\ (irp'[o] = "none" => Idle(o)')
        /\ \A p \in Ops : p # o /\ Idle(p) => Idle(p)'
    BY <2>1, <2>2, TakeFacts
  <2>4. /\ \A p, q : Behind(p, q)' => Behind(p, q)
        /\ \A p, k : Waits(p, k)' => Waits(p, k) /\ p # o
        /\ Waits(o, h)
        /\ \A p \in Ops : p # o /\ ~ Behind(p, o) /\ irp[p] = "none" => Idle(p)
    BY <2>1, <2>2, TakeOrder
  <2>5. o[1] \in Conns \/ (o = L1 /\ o[1] = Listener)
    BY <1>1, <2>1, <1>2 DEF Runs, OwnHandlers
  <2>6. OwnHandlers'
    BY <1>2, <1>11 DEF OpCloseSkip, OwnHandlers
  <2>7. LiveInUse'
    BY <1>2, <1>11, <2>3 DEF OpCloseSkip, Returns, AfterHandler, LiveInUse
  <2>8. ConnOpen'
    BY <1>2, <1>11 DEF OpCloseSkip, ConnOpen
  <2>9. ListenerOpen'
    BY <1>2, <1>11, <2>4
       DEF OpCloseSkip, Returns, AfterHandler, Runs, ListenerOpen
  <2>10. OneCloses'
    <3> SUFFICES ASSUME NEW p \in Ops, irp'[p] = "close"
                 PROVE  Closes(p)'
      BY DEF OneCloses
    <3>1. PICK q : Pair(p, q)
      BY PairFacts
    <3> QED
      BY <1>11, <2>4, <3>1 DEF OpCloseSkip, Pair, Closes
  <2>11. FreedLast'
    <3> SUFFICES ASSUME NEW p \in Ops, Waits(p, "Free")'
                 PROVE  LastUse(p)'
      BY DEF FreedLast
    <3>1. PICK q : Pair(p, q)
      BY PairFacts
    <3> QED
      BY <1>11, <2>3, <2>4, <3>1 DEF OpCloseSkip, Pair, LastUse
  <2> QED
    BY <2>6, <2>7, <2>8, <2>9, <2>10, <2>11 DEF FreeInv
<1>12. ASSUME NEW o \in Ops, OpFree(o)
      PROVE  FreeInv'
  <2>1. PICK h : Runs(o, h) /\ h = "Free"
    BY <1>12 DEF OpFree
  <2>2. /\ queue' = queue /\ handler' = handler
        /\ \A p \in Ops : p # o => irp'[p] = irp[p]
    BY <1>12 DEF OpFree
  <2>3. /\ ~ Idle(o) /\ (irp'[o] = "none" => Idle(o)')
        /\ \A p \in Ops : p # o /\ Idle(p) => Idle(p)'
    BY <2>1, <2>2, TakeFacts
  <2>4. /\ \A p, q : Behind(p, q)' => Behind(p, q)
        /\ \A p, k : Waits(p, k)' => Waits(p, k) /\ p # o
        /\ Waits(o, h)
        /\ \A p \in Ops : p # o /\ ~ Behind(p, o) /\ irp[p] = "none" => Idle(p)
    BY <2>1, <2>2, TakeOrder
  <2>5. /\ (o[1] \in Conns /\ o[1] # Listener) \/ o[1] = Listener
        /\ Idle(Other(o)) /\ o[1] \notin accepting
        /\ wsk[o[1]] \in {"none", "closed"}
    BY <1>1, <2>1, <2>4, <1>2 DEF FreedLast, LastUse, TypeOK
  <2>6. OwnHandlers'
    BY <1>2, <1>12 DEF OpFree, OwnHandlers
  <2>7. LiveInUse'
    <3>1. /\ mem[o[1]] = "live" /\ mem'[o[1]] = "freed"
          /\ \A s \in Sockets : s # o[1] => mem'[s] = mem[s]
      BY <1>1, <1>12, <2>3, <1>2 DEF OpFree, LiveInUse, TypeOK
    <3>2. \A s \in Sockets : mem'[s] # "corrupt"
      BY <3>1, <1>2 DEF LiveInUse
    <3>3. ASSUME NEW p \in Ops, ~ Idle(p)'
          PROVE  mem'[p[1]] = "live"
      <4>1. irp'[o] = "none"
        BY <1>12, RunsFacts DEF OpFree, OnePlace
      <4>2. Idle(o)' /\ Idle(Other(o))'
        BY <1>1, <2>3, <2>5, <4>1
      <4>3. p[1] # o[1] /\ ~ Idle(p)
        BY <1>1, <2>3, <3>3, <4>2
      <4> QED
        BY <1>1, <3>1, <4>3, <1>2 DEF LiveInUse
    <3>4. \A c \in accepting' : mem'[c] = "live"
      BY <1>12, <2>5, <1>2 DEF OpFree, LiveInUse
    <3>5. (\/ unload' = "no" \/ wsk'[Listener] \in {"open", "deaf"}
           \/ worker' = "relisten") => mem'[Listener] = "live"
      <4>1. worker' # "relisten" /\ unload' = unload /\ wsk' = wsk
        BY <1>12 DEF OpFree, Returns, AfterHandler
      <4>2. unload = "no" => o # L1
        BY <2>3 DEF FoundIdle
      <4>3. o # L0
        BY <2>1, <1>2 DEF Runs, OwnHandlers
      <4>4. CASE o[1] = Listener
        BY <1>1, <2>5, <4>1, <4>2, <4>3, <4>4
      <4>5. CASE o[1] # Listener
        BY <1>1, <3>1, <4>1, <4>5, <1>2 DEF LiveInUse
      <4> QED
        BY <4>4, <4>5
    <3> QED
      BY <3>2, <3>3, <3>4, <3>5 DEF LiveInUse
  <2>8. ConnOpen'
    BY <1>2, <1>12 DEF OpFree, ConnOpen
  <2>9. ListenerOpen'
    BY <1>2, <1>12, <2>4 DEF OpFree, Returns, AfterHandler, Runs, ListenerOpen
  <2>10. OneCloses'
    <3> SUFFICES ASSUME NEW p \in Ops, irp'[p] = "close"
                 PROVE  Closes(p)'
      BY DEF OneCloses
    <3>1. PICK q : Pair(p, q)
      BY PairFacts
    <3> QED
      BY <1>12, <2>4, <3>1 DEF OpFree, Pair, Closes
  <2>11. FreedLast'
    <3> SUFFICES ASSUME NEW p \in Ops, Waits(p, "Free")'
                 PROVE  LastUse(p)'
      BY DEF FreedLast
    <3>1. PICK q : Pair(p, q)
      BY PairFacts
    <3> QED
      BY <1>12, <2>3, <2>4, <3>1 DEF OpFree, Pair, LastUse
  <2> QED
    BY <2>6, <2>7, <2>8, <2>9, <2>10, <2>11 DEF FreeInv
<1>13. ASSUME NEW o \in Ops, OpStartListenFails(o)
      PROVE  FreeInv'
  <2>1. PICK h : Runs(o, h) /\ h = "StartListen"
    BY <1>13 DEF OpStartListenFails
  <2>2. /\ queue' = queue /\ handler' = handler
        /\ \A p \in Ops : p # o => irp'[p] = irp[p]
    BY <1>13 DEF OpStartListenFails
  <2>3. /\ ~ Idle(o) /\ (irp'[o] = "none" => Idle(o)')
        /\ \A p \in Ops : p # o /\ Idle(p) => Idle(p)'
    BY <2>1, <2>2, TakeFacts
  <2>4. /\ \A p, q : Behind(p, q)' => Behind(p, q)
        /\ \A p, k : Waits(p, k)' => Waits(p, k) /\ p # o
        /\ Waits(o, h)
        /\ \A p \in Ops : p # o /\ ~ Behind(p, o) /\ irp[p] = "none" => Idle(p)
    BY <2>1, <2>2, TakeOrder
  <2>5. o = L0 /\ o[1] = Listener
    BY <2>1 DEF Runs, FoundIdle
  <2>6. OwnHandlers'
    BY <1>2, <1>13 DEF OpStartListenFails, OwnHandlers
  <2>7. LiveInUse'
    BY <1>2, <1>13, <2>3, <2>5 DEF OpStartListenFails, LiveInUse
  <2>8. ConnOpen'
    BY <1>2, <1>13 DEF OpStartListenFails, ConnOpen
  <2>9. ListenerOpen'
    BY <1>2, <1>13, <2>4
       DEF OpStartListenFails, Returns, AfterHandler, Runs, ListenerOpen
  <2>10. OneCloses'
    <3> SUFFICES ASSUME NEW p \in Ops, irp'[p] = "close"
                 PROVE  Closes(p)'
      BY DEF OneCloses
    <3>1. PICK q : Pair(p, q)
      BY PairFacts
    <3> QED
      BY <1>13, <2>4, <3>1 DEF OpStartListenFails, Pair, Closes
  <2>11. FreedLast'
    <3> SUFFICES ASSUME NEW p \in Ops, Waits(p, "Free")'
                 PROVE  LastUse(p)'
      BY DEF FreedLast
    <3>1. PICK q : Pair(p, q)
      BY PairFacts
    <3> QED
      BY <1>13, <2>3, <2>4, <3>1 DEF OpStartListenFails, Pair, LastUse
  <2> QED
    BY <2>6, <2>7, <2>8, <2>9, <2>10, <2>11 DEF FreeInv
<1>14. ASSUME NEW o \in Ops, OpStartListen(o)
      PROVE  FreeInv'
  <2>1. PICK h : Runs(o, h) /\ h = "StartListen"
    BY <1>14 DEF OpStartListen
  <2>2. /\ queue' = queue /\ handler' = handler
        /\ \A p \in Ops : p # o => irp'[p] = irp[p]
    BY <1>14 DEF OpStartListen
  <2>3. /\ ~ Idle(o) /\ (irp'[o] = "none" => Idle(o)')
        /\ \A p \in Ops : p # o /\ Idle(p) => Idle(p)'
    BY <2>1, <2>2, TakeFacts
  <2>4. /\ \A p, q : Behind(p, q)' => Behind(p, q)
        /\ \A p, k : Waits(p, k)' => Waits(p, k) /\ p # o
        /\ Waits(o, h)
        /\ \A p \in Ops : p # o /\ ~ Behind(p, o) /\ irp[p] = "none" => Idle(p)
    BY <2>1, <2>2, TakeOrder
  <2>5. o = L0 /\ o[1] = Listener
    BY <2>1 DEF Runs, FoundIdle
  <2>6. OwnHandlers'
    BY <1>2, <1>14 DEF OpStartListen, OwnHandlers
  <2>7. LiveInUse'
    BY <1>2, <1>14, <2>3, <2>5 DEF OpStartListen, LiveInUse
  <2>8. ConnOpen'
    BY <1>2, <1>14 DEF OpStartListen, ConnOpen
  <2>9. ListenerOpen'
    BY <1>2, <1>14, <2>4 DEF OpStartListen, Returns, AfterHandler, ListenerOpen
  <2>10. OneCloses'
    <3> SUFFICES ASSUME NEW p \in Ops, irp'[p] = "close"
                 PROVE  Closes(p)'
      BY DEF OneCloses
    <3>1. PICK q : Pair(p, q)
      BY PairFacts
    <3> QED
      BY <1>14, <2>4, <3>1 DEF OpStartListen, Pair, Closes
  <2>11. FreedLast'
    <3> SUFFICES ASSUME NEW p \in Ops, Waits(p, "Free")'
                 PROVE  LastUse(p)'
      BY DEF FreedLast
    <3>1. PICK q : Pair(p, q)
      BY PairFacts
    <3> QED
      BY <1>14, <2>3, <2>4, <2>5, <3>1 DEF OpStartListen, Pair, LastUse
  <2> QED
    BY <2>6, <2>7, <2>8, <2>9, <2>10, <2>11 DEF FreeInv
<1>15. ASSUME NEW o \in Ops, OpRestartListen(o)
      PROVE  FreeInv'
  <2>1. PICK h : Runs(o, h) /\ h = "StartListen"
    BY <1>15 DEF OpRestartListen
  <2>2. /\ queue' = queue /\ handler' = handler
        /\ \A p \in Ops : p # o => irp'[p] = irp[p]
    BY <1>15 DEF OpRestartListen
  <2>3. /\ ~ Idle(o) /\ (irp'[o] = "none" => Idle(o)')
        /\ \A p \in Ops : p # o /\ Idle(p) => Idle(p)'
    BY <2>1, <2>2, TakeFacts
  <2>4. /\ \A p, q : Behind(p, q)' => Behind(p, q)
        /\ \A p, k : Waits(p, k)' => Waits(p, k) /\ p # o
        /\ Waits(o, h)
        /\ \A p \in Ops : p # o /\ ~ Behind(p, o) /\ irp[p] = "none" => Idle(p)
    BY <2>1, <2>2, TakeOrder
  <2>5. o = L0 /\ o[1] = Listener
    BY <2>1 DEF Runs, FoundIdle
  <2>6. OwnHandlers'
    BY <1>2, <1>15 DEF OpRestartListen, OwnHandlers
  <2>7. LiveInUse'
    BY <1>2, <1>15, <2>3, <2>5 DEF OpRestartListen, LiveInUse
  <2>8. ConnOpen'
    BY <1>2, <1>15 DEF OpRestartListen, ConnOpen
  <2>9. ListenerOpen'
    BY <1>1, <1>2, <1>15, <2>4 DEF OpRestartListen, TypeOK, ListenerOpen
  <2>10. OneCloses'
    <3> SUFFICES ASSUME NEW p \in Ops, irp'[p] = "close"
                 PROVE  Closes(p)'
      BY DEF OneCloses
    <3>1. PICK q : Pair(p, q)
      BY PairFacts
    <3> QED
      BY <1>15, <2>4, <3>1 DEF OpRestartListen, Pair, Closes
  <2>11. FreedLast'
    <3> SUFFICES ASSUME NEW p \in Ops, Waits(p, "Free")'
                 PROVE  LastUse(p)'
      BY DEF FreedLast
    <3>1. PICK q : Pair(p, q)
      BY PairFacts
    <3> QED
      BY <1>15, <2>4, <3>1 DEF OpRestartListen, Pair, LastUse
  <2> QED
    BY <2>6, <2>7, <2>8, <2>9, <2>10, <2>11 DEF FreeInv
<1>16. ASSUME NEW o \in Ops, OpStopListen(o)
       PROVE  FreeInv'
  <2>1. Runs(o, "StopListen") /\ Push(o, AfterStopListen) /\ irp' = irp
    BY <1>16 DEF OpStopListen, EnqueueOpFromWorker
  <2>2. o = L1 /\ handler[L1] = "StopListen"
    BY <1>1, <2>1, <1>2 DEF Runs, OwnHandlers
  <2>3. /\ Distinct(batch') /\ In(o, batch) /\ ~ In(o, batch')
        /\ \A y : In(y, batch') => In(y, batch)
    BY <2>1, RunsFacts
  <2>4. /\ ~ In(o, queue)
        /\ irp[o] = "none"
        /\ ~ Idle(o)
        /\ Waits(o, "StopListen")
    BY <2>1, <2>3 DEF OnePlace, Idle, Waits, Runs
  <2>5. /\ queue' = Append(queue, o) /\ queue \in Seq(Ops)
        /\ \A y : In(y, queue') <=> In(y, queue) \/ y = o
        /\ handler' = [handler EXCEPT ![o] = AfterStopListen]
    BY <2>1, <2>4, PushFacts DEF Push, TypeOK
  <2>6. /\ \A p, q : LaterIn(p, q, batch') => LaterIn(p, q, batch)
        /\ \A p : In(p, batch) => p = o \/ LaterIn(p, o, batch)
    BY <2>1, TailOrder DEF Runs, TypeOK
  <2>7. /\ \A p, q : p # o /\ LaterIn(p, q, queue') => LaterIn(p, q, queue)
        /\ \A p : p # o => ~ LaterIn(p, o, queue')
    BY <2>4, <2>5, AppendOrder
  <2>8. \A p, q : p # o /\ Behind(p, q)' => Behind(p, q)
    BY <2>3, <2>5, <2>6, <2>7 DEF Behind
  <2>9. \A p \in Ops : p # o => ~ Behind(p, o)'
    <3>1. \A p : ~ LaterIn(p, o, batch')
      BY <2>3 DEF LaterIn, In
    <3> QED
      BY <2>3, <2>7, <3>1 DEF Behind
  <2>10. /\ \A p \in Ops : \A k : p # o /\ Waits(p, k)' => Waits(p, k)
         /\ \A k : Waits(o, k)' => k = AfterStopListen
    BY <2>3, <2>5 DEF Waits, TypeOK
  <2>11. \A p \in Ops : p # o /\ Idle(p) => Idle(p)'
    BY <2>1, <2>3, <2>5 DEF Idle
  <2>12. wsk[Listener] \in {"none", "open", "deaf"}
    BY <1>1, <2>1, <2>2, <1>2 DEF ListenerOpen, Runs, TypeOK, WskStates
  <2>13. wsk[Listener] = "none" => Idle(L0)
    BY <2>2, <2>3, <2>6, <1>2 DEF ListenerOpen, Behind, Idle, OwnHandlers
  <2>14. OwnHandlers'
    BY <1>2, <2>1, <2>2, <2>5 DEF AfterStopListen, OwnHandlers
  <2>15. LiveInUse'
    BY <1>2, <1>16, <2>2, <2>4, <2>11 DEF OpStopListen, LiveInUse
  <2>16. ConnOpen'
    BY <1>2, <1>16 DEF OpStopListen, ConnOpen
  <2>17. ListenerOpen'
    BY <1>2, <1>16, <2>2, <2>4, <2>5, <2>8, <2>10, <2>12, <2>13
       DEF OpStopListen, AfterStopListen, TypeOK, Returns, AfterHandler,
           ListenerOpen
  <2>18. OneCloses'
    <3> SUFFICES ASSUME NEW p \in Ops, irp'[p] = "close"
                 PROVE  Closes(p)'
      BY DEF OneCloses
    <3>1. PICK q : Pair(p, q)
      BY PairFacts
    <3> QED
      BY <1>16, <2>2, <2>10, <3>1 DEF OpStopListen, Pair, Closes
  <2>19. FreedLast'
    <3> SUFFICES ASSUME NEW p \in Ops, Waits(p, "Free")'
                 PROVE  LastUse(p)'
      BY DEF FreedLast
    <3>1. PICK q : Pair(p, q)
      BY PairFacts
    <3>2. CASE p = o
      <4>1. wsk[Listener] = "none"
        BY <2>10, <3>2 DEF AfterStopListen
      <4>2. /\ q = L0
            /\ p[1] = Listener
            /\ L0 \in Ops
            /\ L0 # o
            /\ Listener \notin Conns
        BY <2>2, <3>1, <3>2 DEF Pair
      <4>3. Idle(L0)' /\ irp'[L0] = "none" /\ ~ Waits(L0, "Free")'
        BY <2>11, <2>13, <4>1, <4>2 DEF Idle, Waits
      <4>4. wsk' = wsk /\ stopListening' = TRUE /\ closing' = closing
        BY <1>16 DEF OpStopListen
      <4> QED
        BY <2>9, <3>1, <3>2, <4>1, <4>2, <4>3, <4>4 DEF LastUse, Pair
    <3>3. CASE p # o
      <4>1. Waits(p, "Free") /\ LastUse(p) /\ p # L0
        BY <2>10, <3>1, <3>3 DEF Pair
      <4>2. p[1] # Listener /\ q # o
        BY <2>2, <3>1, <3>3, <4>1 DEF Pair
      <4> QED
        BY <1>16, <2>8, <2>10, <3>1, <4>1, <4>2 DEF OpStopListen, LastUse, Pair
    <3> QED
      BY <3>2, <3>3
  <2> QED
    BY <2>14, <2>15, <2>16, <2>17, <2>18, <2>19 DEF FreeInv
<1>17. CASE SetEvent
  BY <1>17
     DEF SetEvent, FreeInv, OwnHandlers, LiveInUse, ConnOpen, ListenerOpen,
         OneCloses, FreedLast, Closes, LastUse, Behind, Waits, Idle
<1>18. ASSUME NEW s \in Conns, NEW i \in {0, 1}, ReceiveIrpCompletion(s, i)
       PROVE  FreeInv'
  <2>1. PICK h : /\ Completes(<<s, i>>, "receive", h)
                 /\ h \in {"Send", "Disconnect", "Close"}
    BY <1>18 DEF ReceiveIrpCompletion
  <2>2. <<s, i>> \in Ops /\ batch' = batch
    BY <1>18, <1>1 DEF ReceiveIrpCompletion
  <2>3. /\ ~ Idle(<<s, i>>)
        /\ irp[<<s, i>>] = "receive"
        /\ irp'[<<s, i>>] = "none"
        /\ \A p \in Ops : p # <<s, i>> => irp'[p] = irp[p]
        /\ \A p \in Ops : p # <<s, i>> /\ Idle(p) => Idle(p)'
        /\ handler' = [handler EXCEPT ![<<s, i>>] = h]
    BY <2>1, <2>2, CompletesFacts DEF Completes, TypeOK
  <2>4. /\ ~ In(<<s, i>>, batch) /\ ~ In(<<s, i>>, queue) /\ Push(<<s, i>>, h)
    BY <2>1, <2>2 DEF OnePlace, Completes, EnqueueOp
  <2>5. /\ \A p, q : p # <<s, i>> /\ Behind(p, q)' => Behind(p, q)
        /\ \A p \in Ops : p # <<s, i>> => ~ Behind(p, <<s, i>>)'
        /\ \A p \in Ops : \A k : p # <<s, i>> /\ Waits(p, k)' => Waits(p, k)
        /\ \A k : Waits(<<s, i>>, k)' => k = h
    BY <2>2, <2>4, QueueOrder
  <2>6. <<s, i>>[1] = s /\ s \in Conns /\ s # Listener
    BY <1>1
  <2>7. OwnHandlers'
    BY <1>1, <1>2, <2>1, <2>3 DEF OwnHandlers
  <2>8. LiveInUse'
    BY <1>2, <1>18, <2>3 DEF ReceiveIrpCompletion, LiveInUse
  <2>9. ConnOpen'
    BY <1>2, <1>18 DEF ReceiveIrpCompletion, ConnOpen
  <2>10. ListenerOpen'
    BY <1>1, <1>2, <1>18, <2>3, <2>5 DEF ReceiveIrpCompletion, ListenerOpen
  <2>11. OneCloses'
    <3> SUFFICES ASSUME NEW p \in Ops, irp'[p] = "close"
                 PROVE  Closes(p)'
      BY DEF OneCloses
    <3>1. PICK q : Pair(p, q)
      BY PairFacts
    <3> QED
      BY <1>18, <2>1, <2>3, <2>5, <3>1 DEF ReceiveIrpCompletion, Pair, Closes
  <2>12. FreedLast'
    <3> SUFFICES ASSUME NEW p \in Ops, Waits(p, "Free")'
                 PROVE  LastUse(p)'
      BY DEF FreedLast
    <3>1. PICK q : Pair(p, q)
      BY PairFacts
    <3> QED
      BY <1>18, <2>1, <2>3, <2>5, <3>1 DEF ReceiveIrpCompletion, Pair, LastUse
  <2> QED
    BY <2>7, <2>8, <2>9, <2>10, <2>11, <2>12 DEF FreeInv
<1>19. ASSUME NEW s \in Conns, NEW i \in {0, 1}, SendIrpCompletion(s, i)
       PROVE  FreeInv'
  <2>1. PICK h : Completes(<<s, i>>, "send", h) /\ h \in {"Receive", "Close"}
    BY <1>19 DEF SendIrpCompletion
  <2>2. <<s, i>> \in Ops /\ batch' = batch
    BY <1>19, <1>1 DEF SendIrpCompletion
  <2>3. /\ ~ Idle(<<s, i>>)
        /\ irp[<<s, i>>] = "send"
        /\ irp'[<<s, i>>] = "none"
        /\ \A p \in Ops : p # <<s, i>> => irp'[p] = irp[p]
        /\ \A p \in Ops : p # <<s, i>> /\ Idle(p) => Idle(p)'
        /\ handler' = [handler EXCEPT ![<<s, i>>] = h]
    BY <2>1, <2>2, CompletesFacts DEF Completes, TypeOK
  <2>4. /\ ~ In(<<s, i>>, batch) /\ ~ In(<<s, i>>, queue) /\ Push(<<s, i>>, h)
    BY <2>1, <2>2 DEF OnePlace, Completes, EnqueueOp
  <2>5. /\ \A p, q : p # <<s, i>> /\ Behind(p, q)' => Behind(p, q)
        /\ \A p \in Ops : p # <<s, i>> => ~ Behind(p, <<s, i>>)'
        /\ \A p \in Ops : \A k : p # <<s, i>> /\ Waits(p, k)' => Waits(p, k)
        /\ \A k : Waits(<<s, i>>, k)' => k = h
    BY <2>2, <2>4, QueueOrder
  <2>6. <<s, i>>[1] = s /\ s \in Conns /\ s # Listener
    BY <1>1
  <2>7. OwnHandlers'
    BY <1>1, <1>2, <2>1, <2>3 DEF OwnHandlers
  <2>8. LiveInUse'
    BY <1>2, <1>19, <2>3 DEF SendIrpCompletion, LiveInUse
  <2>9. ConnOpen'
    BY <1>2, <1>19 DEF SendIrpCompletion, ConnOpen
  <2>10. ListenerOpen'
    BY <1>1, <1>2, <1>19, <2>3, <2>5 DEF SendIrpCompletion, ListenerOpen
  <2>11. OneCloses'
    <3> SUFFICES ASSUME NEW p \in Ops, irp'[p] = "close"
                 PROVE  Closes(p)'
      BY DEF OneCloses
    <3>1. PICK q : Pair(p, q)
      BY PairFacts
    <3> QED
      BY <1>19, <2>1, <2>3, <2>5, <3>1 DEF SendIrpCompletion, Pair, Closes
  <2>12. FreedLast'
    <3> SUFFICES ASSUME NEW p \in Ops, Waits(p, "Free")'
                 PROVE  LastUse(p)'
      BY DEF FreedLast
    <3>1. PICK q : Pair(p, q)
      BY PairFacts
    <3> QED
      BY <1>19, <2>1, <2>3, <2>5, <3>1 DEF SendIrpCompletion, Pair, LastUse
  <2> QED
    BY <2>7, <2>8, <2>9, <2>10, <2>11, <2>12 DEF FreeInv
<1>20. ASSUME NEW s \in Conns, NEW i \in {0, 1}, DisconnectIrpCompletion(s, i)
       PROVE  FreeInv'
  <2>1. PICK h : Completes(<<s, i>>, "disconnect", h) /\ h \in {"Close"}
    BY <1>20 DEF DisconnectIrpCompletion, AfterDisconnect
  <2>2. <<s, i>> \in Ops /\ batch' = batch
    BY <1>20, <1>1 DEF DisconnectIrpCompletion
  <2>3. /\ ~ Idle(<<s, i>>)
        /\ irp[<<s, i>>] = "disconnect"
        /\ irp'[<<s, i>>] = "none"
        /\ \A p \in Ops : p # <<s, i>> => irp'[p] = irp[p]
        /\ \A p \in Ops : p # <<s, i>> /\ Idle(p) => Idle(p)'
        /\ handler' = [handler EXCEPT ![<<s, i>>] = h]
    BY <2>1, <2>2, CompletesFacts DEF Completes, TypeOK
  <2>4. /\ ~ In(<<s, i>>, batch) /\ ~ In(<<s, i>>, queue) /\ Push(<<s, i>>, h)
    BY <2>1, <2>2 DEF OnePlace, Completes, EnqueueOp
  <2>5. /\ \A p, q : p # <<s, i>> /\ Behind(p, q)' => Behind(p, q)
        /\ \A p \in Ops : p # <<s, i>> => ~ Behind(p, <<s, i>>)'
        /\ \A p \in Ops : \A k : p # <<s, i>> /\ Waits(p, k)' => Waits(p, k)
        /\ \A k : Waits(<<s, i>>, k)' => k = h
    BY <2>2, <2>4, QueueOrder
  <2>6. <<s, i>>[1] = s /\ s \in Conns /\ s # Listener
    BY <1>1
  <2>7. OwnHandlers'
    BY <1>1, <1>2, <2>1, <2>3 DEF OwnHandlers
  <2>8. LiveInUse'
    BY <1>2, <1>20, <2>3 DEF DisconnectIrpCompletion, LiveInUse
  <2>9. ConnOpen'
    BY <1>2, <1>20 DEF DisconnectIrpCompletion, ConnOpen
  <2>10. ListenerOpen'
    BY <1>1, <1>2, <1>20, <2>3, <2>5 DEF DisconnectIrpCompletion, ListenerOpen
  <2>11. OneCloses'
    <3> SUFFICES ASSUME NEW p \in Ops, irp'[p] = "close"
                 PROVE  Closes(p)'
      BY DEF OneCloses
    <3>1. PICK q : Pair(p, q)
      BY PairFacts
    <3> QED
      BY <1>20, <2>1, <2>3, <2>5, <3>1
         DEF DisconnectIrpCompletion, Pair, Closes
  <2>12. FreedLast'
    <3> SUFFICES ASSUME NEW p \in Ops, Waits(p, "Free")'
                 PROVE  LastUse(p)'
      BY DEF FreedLast
    <3>1. PICK q : Pair(p, q)
      BY PairFacts
    <3> QED
      BY <1>20, <2>1, <2>3, <2>5, <3>1
         DEF DisconnectIrpCompletion, Pair, LastUse
  <2> QED
    BY <2>7, <2>8, <2>9, <2>10, <2>11, <2>12 DEF FreeInv
<1>21. ASSUME NEW s \in Sockets, NEW i \in {0, 1}, CloseIrpCompletion(s, i)
       PROVE  FreeInv'
  <2>1. PICK h : Completes(<<s, i>>, "close", h) /\ h \in {"Free"}
    BY <1>21 DEF CloseIrpCompletion
  <2>2. <<s, i>> \in Ops /\ batch' = batch
    BY <1>21, <1>1 DEF CloseIrpCompletion
  <2>3. /\ ~ Idle(<<s, i>>)
        /\ irp[<<s, i>>] = "close"
        /\ irp'[<<s, i>>] = "none"
        /\ \A p \in Ops : p # <<s, i>> => irp'[p] = irp[p]
        /\ \A p \in Ops : p # <<s, i>> /\ Idle(p) => Idle(p)'
        /\ handler' = [handler EXCEPT ![<<s, i>>] = h]
    BY <2>1, <2>2, CompletesFacts DEF Completes, TypeOK
  <2>4. /\ ~ In(<<s, i>>, batch) /\ ~ In(<<s, i>>, queue) /\ Push(<<s, i>>, h)
    BY <2>1, <2>2 DEF OnePlace, Completes, EnqueueOp
  <2>5. /\ \A p, q : p # <<s, i>> /\ Behind(p, q)' => Behind(p, q)
        /\ \A p \in Ops : p # <<s, i>> => ~ Behind(p, <<s, i>>)'
        /\ \A p \in Ops : \A k : p # <<s, i>> /\ Waits(p, k)' => Waits(p, k)
        /\ \A k : Waits(<<s, i>>, k)' => k = h
    BY <2>2, <2>4, QueueOrder
  <2>6. /\ <<s, i>>[1] = s /\ irp[Other(<<s, i>>)] = "none"
        /\ \/ /\ s \in Conns /\ s # Listener
              /\ mem[s] = "live" /\ s \notin accepting
           \/ s = Listener /\ i = 1 /\ stopListening
        /\ closing[s] /\ wsk[s] = "closing"
    BY <1>1, <1>21, <2>3, <1>2
       DEF CloseIrpCompletion, Quiesced, OwnHandlers, LiveInUse, OneCloses,
           Closes
  <2>7. OwnHandlers'
    BY <1>1, <1>2, <2>1, <2>3 DEF OwnHandlers
  <2>8. LiveInUse'
    BY <1>2, <1>21, <2>3 DEF CloseIrpCompletion, LiveInUse
  <2>9. ConnOpen'
    BY <1>2, <1>21, <2>6 DEF CloseIrpCompletion, ConnOpen
  <2>10. ListenerOpen'
    BY <1>1, <1>2, <1>21, <2>1, <2>3, <2>5, <2>6
       DEF CloseIrpCompletion, ListenerOpen
  <2>11. OneCloses'
    <3> SUFFICES ASSUME NEW p \in Ops, irp'[p] = "close"
                 PROVE  Closes(p)'
      BY DEF OneCloses
    <3>1. PICK q : Pair(p, q)
      BY PairFacts
    <3>2. p # <<s, i>> /\ irp[p] = "close" /\ Closes(p)
      BY <2>3, <3>1 DEF Pair
    <3>3. p[1] # s
      <4>1. p # Other(<<s, i>>)
        BY <2>6, <3>2
      <4> QED
        BY <1>1, <2>2, <3>2, <4>1
    <3>4. q # <<s, i>> /\ irp'[q] = irp[q] /\ wsk'[p[1]] = wsk[p[1]]
      BY <1>21, <2>3, <3>1, <3>3 DEF CloseIrpCompletion, Pair
    <3> QED
      BY <1>21, <2>5, <3>1, <3>2, <3>4 DEF CloseIrpCompletion, Closes, Pair
  <2>12. FreedLast'
    <3> SUFFICES ASSUME NEW p \in Ops, Waits(p, "Free")'
                 PROVE  LastUse(p)'
      BY DEF FreedLast
    <3>1. PICK q : Pair(p, q)
      BY PairFacts
    <3>2. CASE p = <<s, i>>
      <4>1. irp'[q] = "none"
        BY <2>3, <2>6, <3>1, <3>2 DEF Pair
      <4>2. ~ Waits(q, "Free")'
        BY <2>3, <2>5, <3>1, <3>2 DEF Pair, Closes
      <4>3. wsk'[s] = "closed" /\ closing' = closing /\ accepting' = accepting
            /\ stopListening' = stopListening
        BY <1>21 DEF CloseIrpCompletion, TypeOK
      <4> QED
        BY <2>5, <2>6, <3>1, <3>2, <4>1, <4>3 DEF LastUse, Pair
    <3>3. CASE p # <<s, i>>
      <4>1. Waits(p, "Free") /\ LastUse(p)
        BY <2>5, <3>1, <3>3 DEF Pair
      <4>2. p[1] # s
        BY <2>6, <4>1 DEF LastUse
      <4>3. q # <<s, i>> /\ irp'[q] = irp[q] /\ wsk'[p[1]] = wsk[p[1]]
        BY <1>21, <2>3, <3>1, <4>2 DEF CloseIrpCompletion, Pair
      <4>4. closing' = closing /\ accepting' = accepting
            /\ stopListening' = stopListening
        BY <1>21 DEF CloseIrpCompletion
      <4>5. wsk'[Listener] = "none" => wsk[Listener] = "none"
        BY <1>21 DEF CloseIrpCompletion
      <4>6. p[1] = Listener /\ wsk[Listener] = "none" => Idle(L0)'
        BY <1>1, <2>3, <4>1 DEF LastUse
      <4> QED
        BY <2>5, <3>1, <4>1, <4>3, <4>4, <4>6 DEF LastUse, Pair
    <3> QED
      BY <3>2, <3>3
  <2> QED
    BY <2>7, <2>8, <2>9, <2>10, <2>11, <2>12 DEF FreeInv
<1>22. ASSUME NEW c \in Conns, AcceptFirst(c)
       PROVE  FreeInv'
  <2>1. /\ EnqueueOp(<<c, 0>>, "Receive") /\ Idle(<<c, 0>>) /\ <<c, 0>> \in Ops
        /\ batch' = batch /\ irp' = irp
    BY <1>1, <1>22 DEF AcceptFirst, FoundIdle
  <2>2. /\ \A p \in Ops : p # <<c, 0>> /\ Idle(p) => Idle(p)'
        /\ handler' = [handler EXCEPT ![<<c, 0>>] = "Receive"]
    BY <2>1, EnqueueFacts
  <2>3. /\ ~ In(<<c, 0>>, batch)
        /\ ~ In(<<c, 0>>, queue)
        /\ Push(<<c, 0>>, "Receive")
    BY <2>1 DEF Idle, EnqueueOp
  <2>4. /\ \A p, q : p # <<c, 0>> /\ Behind(p, q)' => Behind(p, q)
        /\ \A p \in Ops : p # <<c, 0>> => ~ Behind(p, <<c, 0>>)'
        /\ \A p \in Ops : \A k : p # <<c, 0>> /\ Waits(p, k)' => Waits(p, k)
        /\ \A k : Waits(<<c, 0>>, k)' => k = "Receive"
    BY <2>1, <2>3, QueueOrder
  <2>5. /\ <<c, 0>>[1] = c /\ c # Listener
        /\ \A p \in Ops : p[1] = c => irp[p] = "none" /\ \A k : ~ Waits(p, k)
    BY <1>1, <1>22 DEF AcceptFirst, FoundIdle, Idle, Waits, Ops
  <2>6. OwnHandlers'
    BY <1>2, <2>1, <2>2 DEF OwnHandlers
  <2>7. LiveInUse'
    BY <1>1, <1>2, <1>22, <2>2 DEF AcceptFirst, TypeOK, LiveInUse
  <2>8. ConnOpen'
    BY <1>2, <1>22 DEF AcceptFirst, TypeOK, ConnOpen
  <2>9. ListenerOpen'
    BY <1>1, <1>2, <1>22, <2>2, <2>4 DEF AcceptFirst, ListenerOpen
  <2>10. OneCloses'
    <3> SUFFICES ASSUME NEW p \in Ops, irp'[p] = "close"
                 PROVE  Closes(p)'
      BY DEF OneCloses
    <3>1. PICK q : Pair(p, q)
      BY PairFacts
    <3> QED
      BY <1>22, <2>4, <2>5, <3>1 DEF AcceptFirst, Pair, Closes
  <2>11. FreedLast'
    <3> SUFFICES ASSUME NEW p \in Ops, Waits(p, "Free")'
                 PROVE  LastUse(p)'
      BY DEF FreedLast
    <3>1. PICK q : Pair(p, q)
      BY PairFacts
    <3> QED
      BY <1>22, <2>4, <2>5, <3>1 DEF AcceptFirst, Pair, LastUse
  <2> QED
    BY <2>6, <2>7, <2>8, <2>9, <2>10, <2>11 DEF FreeInv
<1>23. ASSUME NEW c \in Conns, AcceptSecond(c)
       PROVE  FreeInv'
  <2>1. /\ EnqueueOp(<<c, 1>>, "Receive") /\ Idle(<<c, 1>>) /\ <<c, 1>> \in Ops
        /\ batch' = batch /\ irp' = irp
    BY <1>1, <1>23 DEF AcceptSecond, FoundIdle
  <2>2. /\ \A p \in Ops : p # <<c, 1>> /\ Idle(p) => Idle(p)'
        /\ handler' = [handler EXCEPT ![<<c, 1>>] = "Receive"]
    BY <2>1, EnqueueFacts
  <2>3. /\ ~ In(<<c, 1>>, batch)
        /\ ~ In(<<c, 1>>, queue)
        /\ Push(<<c, 1>>, "Receive")
    BY <2>1 DEF Idle, EnqueueOp
  <2>4. /\ \A p, q : p # <<c, 1>> /\ Behind(p, q)' => Behind(p, q)
        /\ \A p \in Ops : p # <<c, 1>> => ~ Behind(p, <<c, 1>>)'
        /\ \A p \in Ops : \A k : p # <<c, 1>> /\ Waits(p, k)' => Waits(p, k)
        /\ \A k : Waits(<<c, 1>>, k)' => k = "Receive"
    BY <2>1, <2>3, QueueOrder
  <2>5. <<c, 1>>[1] = c /\ c \in Conns /\ c # Listener
    BY <1>1
  <2>6. OwnHandlers'
    BY <1>2, <2>1, <2>2 DEF OwnHandlers
  <2>7. LiveInUse'
    BY <1>2, <1>23, <2>2 DEF AcceptSecond, LiveInUse
  <2>8. ConnOpen'
    BY <1>2, <1>23 DEF AcceptSecond, ConnOpen
  <2>9. ListenerOpen'
    BY <1>1, <1>2, <1>23, <2>2, <2>4 DEF AcceptSecond, ListenerOpen
  <2>10. OneCloses'
    <3> SUFFICES ASSUME NEW p \in Ops, irp'[p] = "close"
                 PROVE  Closes(p)'
      BY DEF OneCloses
    <3>1. PICK q : Pair(p, q)
      BY PairFacts
    <3> QED
      BY <1>23, <2>4, <3>1 DEF AcceptSecond, Pair, Closes
  <2>11. FreedLast'
    <3> SUFFICES ASSUME NEW p \in Ops, Waits(p, "Free")'
                 PROVE  LastUse(p)'
      BY DEF FreedLast
    <3>1. PICK q : Pair(p, q)
      BY PairFacts
    <3> QED
      BY <1>23, <2>2, <2>4, <3>1 DEF AcceptSecond, Pair, LastUse
  <2> QED
    BY <2>6, <2>7, <2>8, <2>9, <2>10, <2>11 DEF FreeInv
<1>24. ASSUME NEW c \in Conns, PeerLeaves(c)
       PROVE  FreeInv'
  BY <1>24
     DEF PeerLeaves, FreeInv, OwnHandlers, LiveInUse, ConnOpen, ListenerOpen,
         OneCloses, FreedLast, Closes, LastUse, Behind, Waits, Idle
<1>25. CASE AcceptNull
  <2>1. /\ EnqueueOp(L0, "StartListen") /\ Idle(L0) /\ L0 \in Ops
        /\ batch' = batch /\ irp' = irp
    BY <1>1, <1>25 DEF AcceptNull, FoundIdle
  <2>2. /\ \A p \in Ops : p # L0 /\ Idle(p) => Idle(p)'
        /\ handler' = [handler EXCEPT ![L0] = "StartListen"]
    BY <2>1, EnqueueFacts
  <2>3. /\ ~ In(L0, batch) /\ ~ In(L0, queue) /\ Push(L0, "StartListen")
    BY <2>1 DEF Idle, EnqueueOp
  <2>4. /\ \A p, q : p # L0 /\ Behind(p, q)' => Behind(p, q)
        /\ \A p \in Ops : p # L0 => ~ Behind(p, L0)'
        /\ \A p \in Ops : \A k : p # L0 /\ Waits(p, k)' => Waits(p, k)
        /\ \A k : Waits(L0, k)' => k = "StartListen"
    BY <2>1, <2>3, QueueOrder
  <2>5. L0[1] = Listener
    BY <1>1
  <2>6. OwnHandlers'
    BY <1>2, <2>1, <2>2 DEF OwnHandlers
  <2>7. LiveInUse'
    BY <1>2, <1>25, <2>2 DEF AcceptNull, LiveInUse
  <2>8. ConnOpen'
    BY <1>2, <1>25 DEF AcceptNull, ConnOpen
  <2>9. ListenerOpen'
    BY <1>1, <1>2, <1>25, <2>2, <2>4 DEF AcceptNull, ListenerOpen
  <2>10. OneCloses'
    <3> SUFFICES ASSUME NEW p \in Ops, irp'[p] = "close"
                 PROVE  Closes(p)'
      BY DEF OneCloses
    <3>1. PICK q : Pair(p, q)
      BY PairFacts
    <3> QED
      BY <1>25, <2>4, <3>1 DEF AcceptNull, Pair, Closes
  <2>11. FreedLast'
    <3> SUFFICES ASSUME NEW p \in Ops, Waits(p, "Free")'
                 PROVE  LastUse(p)'
      BY DEF FreedLast
    <3>1. PICK q : Pair(p, q)
      BY PairFacts
    <3> QED
      BY <1>25, <2>4, <3>1 DEF AcceptNull, Pair, LastUse
  <2> QED
    BY <2>6, <2>7, <2>8, <2>9, <2>10, <2>11 DEF FreeInv
<1>26. CASE UnloadStopListen
  <2>1. /\ EnqueueOp(L1, "StopListen") /\ Idle(L1) /\ L1 \in Ops
        /\ batch' = batch /\ irp' = irp
    BY <1>1, <1>26 DEF UnloadStopListen, FoundIdle, StopOp
  <2>2. /\ \A p \in Ops : p # L1 /\ Idle(p) => Idle(p)'
        /\ handler' = [handler EXCEPT ![L1] = "StopListen"]
    BY <2>1, EnqueueFacts
  <2>3. /\ ~ In(L1, batch) /\ ~ In(L1, queue) /\ Push(L1, "StopListen")
    BY <2>1 DEF Idle, EnqueueOp
  <2>4. /\ \A p, q : p # L1 /\ Behind(p, q)' => Behind(p, q)
        /\ \A p \in Ops : p # L1 => ~ Behind(p, L1)'
        /\ \A p \in Ops : \A k : p # L1 /\ Waits(p, k)' => Waits(p, k)
        /\ \A k : Waits(L1, k)' => k = "StopListen"
    BY <2>1, <2>3, QueueOrder
  <2>5. L1[1] = Listener
    BY <1>1
  <2>6. OwnHandlers'
    BY <1>2, <2>1, <2>2 DEF OwnHandlers
  <2>7. LiveInUse'
    BY <1>2, <1>26, <2>2 DEF UnloadStopListen, LiveInUse
  <2>8. ConnOpen'
    BY <1>2, <1>26 DEF UnloadStopListen, ConnOpen
  <2>9. ListenerOpen'
    BY <1>2, <1>26, <2>4 DEF UnloadStopListen, ListenerOpen
  <2>10. OneCloses'
    <3> SUFFICES ASSUME NEW p \in Ops, irp'[p] = "close"
                 PROVE  Closes(p)'
      BY DEF OneCloses
    <3>1. PICK q : Pair(p, q)
      BY PairFacts
    <3> QED
      BY <1>26, <2>4, <3>1 DEF UnloadStopListen, Pair, Closes
  <2>11. FreedLast'
    <3> SUFFICES ASSUME NEW p \in Ops, Waits(p, "Free")'
                 PROVE  LastUse(p)'
      BY DEF FreedLast
    <3>1. PICK q : Pair(p, q)
      BY PairFacts
    <3> QED
      BY <1>26, <2>4, <3>1 DEF UnloadStopListen, Pair, LastUse
  <2> QED
    BY <2>6, <2>7, <2>8, <2>9, <2>10, <2>11 DEF FreeInv
<1>27. CASE UnloadDeregister
  BY <1>27
     DEF UnloadDeregister, FreeInv, OwnHandlers, LiveInUse, ConnOpen,
         ListenerOpen, OneCloses, FreedLast, Closes, LastUse, Behind, Waits,
         Idle
<1>28. CASE UnloadStop
  BY <1>28
     DEF UnloadStop, FreeInv, OwnHandlers, LiveInUse, ConnOpen, ListenerOpen,
         OneCloses, FreedLast, Closes, LastUse, Behind, Waits, Idle
<1>29. CASE UnloadSetEvent
  BY <1>29
     DEF UnloadSetEvent, FreeInv, OwnHandlers, LiveInUse, ConnOpen,
         ListenerOpen, OneCloses, FreedLast, Closes, LastUse, Behind, Waits,
         Idle
<1>30. CASE UnloadJoin
  BY <1>30
     DEF UnloadJoin, FreeInv, OwnHandlers, LiveInUse, ConnOpen, ListenerOpen,
         OneCloses, FreedLast, Closes, LastUse, Behind, Waits, Idle
<1>31. CASE UNCHANGED vars
  BY <1>31
     DEF FreeInv, OwnHandlers, LiveInUse, ConnOpen, ListenerOpen, OneCloses,
         FreedLast, Closes, LastUse, Behind, Waits, Idle
<1> QED
  BY <1>3, <1>4, <1>5, <1>6, <1>7, <1>8, <1>9, <1>10, <1>11, <1>12, <1>13,
     <1>14, <1>15, <1>16, <1>17, <1>18, <1>19, <1>20, <1>21, <1>22, <1>23,
     <1>24, <1>25, <1>26, <1>27, <1>28, <1>29, <1>30, <1>31
     DEF Next, WorkerThread, OpHandler, Completion, UnloadGoesOn, Terminated

\* When the driver has loaded, only the listening socket's context exists.
LEMMA FreeInit == Init => FreeInv
<1> SUFFICES ASSUME Init
             PROVE  FreeInv
  OBVIOUS
<1>1. \A o \in Ops : In(o, batch) \/ In(o, queue) => o = <<Listener, 0>>
  BY DEF Init, In
<1>2. /\ \A o \in Ops : irp[o] = "none"
      /\ \A o \in Ops : o # <<Listener, 0>> => handler[o] = "none"
      /\ handler[<<Listener, 0>>] = "StartListen"
      /\ \A s \in Sockets : ~ closing[s] /\ wsk[s] = "none"
      /\ mem[Listener] = "live" /\ \A c \in Conns : mem[c] = "none"
      /\ accepting = {} /\ ~ stopListening /\ worker = "flush"
  BY OtherFacts DEF Init, Sockets
<1>3. \A o \in Ops : Idle(o) \/ o = <<Listener, 0>>
  BY <1>1, <1>2 DEF Idle
<1>4. \A o \in Ops : ~ Waits(o, "Free") /\ ~ Waits(o, "Close")
                     /\ ~ Waits(o, "StopListen")
  BY <1>1, <1>2 DEF Waits
<1>5. ~ Behind(<<Listener, 0>>, <<Listener, 1>>)
  <2>1. batch = << >> /\ queue = << <<Listener, 0>> >>
    BY DEF Init
  <2>2. Len(queue) = 1 /\ queue[1] = <<Listener, 0>> /\ Len(batch) = 0
    BY <2>1
  <2> QED
    BY <2>2 DEF Behind, In, LaterIn
<1>6. OwnHandlers
  BY <1>2, OtherFacts DEF OwnHandlers
<1>7. LiveInUse
  BY <1>2, <1>3, OtherFacts DEF LiveInUse, Sockets
<1>8. ConnOpen
  BY <1>2, OtherFacts DEF ConnOpen
<1>9. ListenerOpen
  BY <1>2, <1>4, <1>5, OtherFacts DEF ListenerOpen
<1>10. OneCloses /\ FreedLast
  BY <1>2, <1>4 DEF OneCloses, FreedLast
<1> QED
  BY <1>6, <1>7, <1>8, <1>9, <1>10 DEF FreeInv

\* The named parts give what the runs check.
LEMMA FreeEnough == TypeOK /\ FreeInv => NoUseAfterFree
<1> SUFFICES ASSUME TypeOK, FreeInv
             PROVE  NoUseAfterFree
  OBVIOUS
<1>1. ASSUME NEW o \in Ops, o \in Listed \/ irp[o] # "none"
      PROVE  ~ Idle(o)
  <2>1. CASE irp[o] # "none"
    BY <2>1 DEF Idle
  <2>2. CASE o \in Listed
    <3>1. PICK k \in DOMAIN Pending : Pending[k] = o
      BY <2>2 DEF Listed
    <3>2. /\ Len(batch) \in Nat /\ Len(queue) \in Nat
          /\ DOMAIN Pending = 1 .. Len(batch) + Len(queue)
          /\ Pending[k] = IF k <= Len(batch) THEN batch[k]
                          ELSE queue[k - Len(batch)]
      BY <3>1 DEF Pending, TypeOK
    <3>3. CASE k <= Len(batch)
      <4>1. k \in 1 .. Len(batch) /\ batch[k] = o
        BY <3>1, <3>2, <3>3
      <4> QED
        BY <4>1 DEF Idle, In
    <3>4. CASE ~ k <= Len(batch)
      <4>1. k - Len(batch) \in 1 .. Len(queue) /\ queue[k - Len(batch)] = o
        BY <3>1, <3>2, <3>4
      <4> QED
        BY <4>1 DEF Idle, In
    <3> QED
      BY <3>3, <3>4
  <2> QED
    BY <1>1, <2>1, <2>2
<1> QED
  BY <1>1 DEF NoUseAfterFree, FreeInv, LiveInUse

\* Provided that WSK completes no close of an accepted socket before the
\* accept callback has returned: when WskSampleFreeSocketContext is called,
\* the context is allocated, it is called once, and neither a handler, a
\* completion routine nor the accept callback uses the context afterwards.
THEOREM ContextFreedLast ==
  ASSUME AcceptHoldsSocket
  PROVE  Spec => []NoUseAfterFree
<1>1. Init => FreeInv
  BY FreeInit
<1>2. /\ TypeOK /\ OnePlace /\ FoundIdle /\ FreeInv /\ [Next]_vars
      => FreeInv'
  BY FreeStep
<1>3. TypeOK /\ FreeInv => NoUseAfterFree
  BY FreeEnough
<1> QED
  BY <1>1, <1>2, <1>3, PlacesKept, TypeCorrect, PTL DEF Spec

\* What a step sends to WSK, it sends on a socket that is open.
LEMMA SentOnOpen ==
  ASSUME TypeOK, OnePlace, FoundIdle, FreeInv, [Next]_vars, NEW o \in Ops,
         irp'[o] # "none", irp'[o] # irp[o]
  PROVE  wsk[o[1]] \in {"open", "deaf"}
<1> USE DEF vars, queueVars, workerVars, socketVars
<1>1. /\ o[1] \in Conns \/ o = <<Listener, 0>> \/ o = <<Listener, 1>>
      /\ Listener \notin Conns
  BY OtherFacts
<1>2. PICK p \in Ops : OpTransfer(p) \/ OpDisconnect(p) \/ OpClose(p)
  <2>1. CASE \E p \in Ops : OpHandler(p)
    BY <2>1
       DEF OpHandler, OpSkip, OpCloseSkip, OpFree, OpStartListenFails,
           OpStartListen, OpRestartListen, OpStopListen
  <2>2. CASE \E s \in Sockets, i \in {0, 1} : Completion(s, i)
    <3>1. PICK s \in Sockets, i \in {0, 1} : Completion(s, i)
      BY <2>2
    <3>2. irp' = [irp EXCEPT ![<<s, i>>] = "none"]
      BY <3>1, Zenon
         DEF Completion, ReceiveIrpCompletion, SendIrpCompletion,
             DisconnectIrpCompletion, CloseIrpCompletion, Completes
    <3> QED
      BY <3>2 DEF TypeOK
  <2>3. CASE irp' = irp
    BY <2>3
  <2> QED
    BY <2>1, <2>2, <2>3
       DEF Next, WorkerThread, WorkerFlush, WorkerCheckStop, WorkerWake,
           OpRelisten, SetEvent, AcceptFirst, AcceptSecond, PeerLeaves,
           AcceptNull, UnloadStopListen, UnloadGoesOn, UnloadDeregister,
           UnloadStop, UnloadSetEvent, UnloadJoin, Terminated
<1>3. o = p
  BY <1>2 DEF OpTransfer, OpDisconnect, OpClose, Request, TypeOK
<1>4. PICK h : Runs(o, h) /\ h \in {"Receive", "Send", "Disconnect", "Close"}
                /\ ~ closing[o[1]] /\ (h # "Close" => ~ Leaving(o[1]))
  BY <1>2, <1>3, Zenon
     DEF OpTransfer, OpDisconnect, OpClose, AlreadyClosing, Leaving
<1>5. Waits(o, h) /\ ~ Idle(o) /\ handler[o] = h
  BY <1>4, RunsFacts DEF Runs, Waits, Idle
<1>6. CASE o[1] \in Conns
  BY <1>4, <1>5, <1>6 DEF FreeInv, LiveInUse, ConnOpen
<1>7. CASE o[1] \notin Conns
  <2>1. o = <<Listener, 1>> /\ h = "Close"
    BY <1>1, <1>4, <1>5, <1>7 DEF FreeInv, OwnHandlers
  <2> QED
    BY <1>5, <2>1 DEF FreeInv, ListenerOpen
<1> QED
  BY <1>6, <1>7

\* WskReceive, WskSend, WskDisconnect and WskCloseSocket are called only on
\* sockets that are open, the last once for each: the flags Closing and
\* Disconnecting tell enough of what WSK was asked before.
THEOREM SentOnOpenSocket ==
  ASSUME AcceptHoldsSocket
  PROVE  Spec => CallsOnOpenSocket
<1>1. Init => FreeInv
  BY FreeInit
<1>2. /\ TypeOK /\ OnePlace /\ FoundIdle /\ FreeInv /\ [Next]_vars
      => FreeInv'
  BY FreeStep
<1>3. TypeOK /\ OnePlace /\ FoundIdle /\ FreeInv /\ [Next]_vars
      => [\A o \in Ops : irp'[o] # "none" /\ irp'[o] # irp[o]
                           => wsk[o[1]] \in {"open", "deaf"}]_vars
  BY SentOnOpen
<1> QED
  BY <1>1, <1>2, <1>3, PlacesKept, TypeCorrect, PTL DEF Spec, CallsOnOpenSocket
=============================================================================
