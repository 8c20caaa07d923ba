----------------------------- MODULE SerialRead -----------------------------
(***************************************************************************)
(* serial/serial: how a UART driver reads (read.c, isr.c, utils.c,         *)
(* purge.c, error.c).                                                      *)
(*                                                                         *)
(* One request at a time is current; the others wait in ReadQueue.  Up to  *)
(* four parties work on the current request without knowing of each other: *)
(* the ISR (and the DPC it queues when it is done), the total timer, the   *)
(* interval timer, and cancellation.  Each has a bit in RefCount.  Whoever *)
(* wants to complete the request revokes what it can of the others, and    *)
(* completes it if no bit is left; else the last of them will.             *)
(*                                                                         *)
(* The framework runs the driver's callbacks one at a time, under the lock *)
(* of the device: queue callbacks, DPCs, timers, cancel routines.  The     *)
(* ISR, the expiry of a timer and the request to cancel come any time.     *)
(***************************************************************************)
EXTENDS RxBuffer, SequencesExt

CONSTANTS
  Modes,       \* what SERIAL_TIMEOUTS may ask of a read
  ErrorAbort   \* SERIAL_ERROR_ABORT in the handshake flags

VARIABLES
  queue,          \* ReadQueue
  current,        \* CurrentReadRequest
  ctx,            \* REQUEST_CONTEXT of each request
  asked,          \* requests that were cancelled by their owner
  cancelable,     \* requests with a cancel routine, to be called if asked
  completions,    \* how often each request was completed
  delivered,      \* characters in completed reads, oldest read first
  pc,             \* where the holder of the device lock stands
  start,          \* local variables of SerialStartRead
  totTimer,       \* ReadRequestTotalTimer
  intTimer,       \* ReadRequestIntervalTimer
  quiet,          \* IntervalTime has passed since LastReadTime
  countOnLast,    \* CountOnLastRead
  readByIsr,      \* ReadByIsr # 0
  readDpc,        \* CompleteReadDpc is queued
  errorDpc        \* CommErrorDpc is queued

requestVars == <<queue, current, ctx, completions, delivered, cancelable>>
timerVars == <<totTimer, intTimer, quiet>>
countVars == <<countOnLast, readByIsr>>
dpcVars == <<readDpc, errorDpc>>
vars == <<bufferVars, requestVars, asked, pc, start, timerVars, countVars,
          dpcVars>>

\* SERIAL_REF_...
RefTypes == {"isr", "cancel", "total", "interval"}

\* useTotalTimer, useIntervalTimer, returnWithWhatsPresent, os2ssreturn,
\* crunchDownToOne
ModeType == [total : BOOLEAN, interval : BOOLEAN, now : BOOLEAN,
             some : BOOLEAN, one : BOOLEAN]

NoMode == [total |-> FALSE, interval |-> FALSE, now |-> FALSE,
           some |-> FALSE, one |-> FALSE]

\* The combinations that SerialStartRead computes
ModeAllowed(m) ==
  /\ m.interval => ~ m.now /\ ~ m.some
  /\ m.now => ~ m.total /\ ~ m.some
  /\ m.some => m.total
  /\ m.one => m.some

ASSUME SerialAssumption ==
  /\ Modes \subseteq {m \in ModeType : ModeAllowed(m)}
  /\ ErrorAbort \in BOOLEAN

\* "free": nobody has the lock.  SerialStartRead: "start" before it copies
\* from the interrupt buffer; then "update" in a read that returns at once,
\* "switch" in one that goes on, "arm" after the ISR was given the buffer,
\* "resize" in a resize request.  "expire": the interval timer has decided
\* to end the read.  "abort", "abortclear", "clear": SerialStartPurge.
PCs == {"free", "start", "update", "switch", "arm", "resize", "expire",
        "abort", "abortclear", "clear"}

Timer == {"idle", "armed", "expired"}

NoContext == [kind |-> "none", len |-> 0, info |-> 0, refs |-> {},
              routine |-> FALSE]

NoStart == [mode |-> NoMode, needed |-> 0, copied |-> 0]

TypeOK ==
  /\ RxTypeOK
  /\ queue \in Seq(Reqs)
  /\ current \in Reqs \cup {NoReq}
  /\ ctx \in [Reqs -> [kind : {"none", "read", "resize"}, len : 0 .. MaxLen,
                       info : 0 .. MaxLen, refs : SUBSET RefTypes,
                       routine : BOOLEAN]]
  /\ asked \subseteq Reqs
  /\ cancelable \subseteq Reqs
  /\ completions \in [Reqs -> Nat]
  /\ delivered \in Seq(Chars)
  /\ pc \in PCs
  /\ start \in [mode : Modes \cup {NoMode}, needed : 0 .. MaxLen,
                copied : 0 .. Larger(BufSize, NewSize)]
  /\ totTimer \in Timer
  /\ intTimer \in Timer
  /\ countOnLast \in {"none", "some", "total", "complete", "cancel"}
  /\ quiet \in BOOLEAN
  /\ readByIsr \in BOOLEAN
  /\ readDpc \in BOOLEAN
  /\ errorDpc \in BOOLEAN

Init ==
  /\ RxInit
  /\ queue = <<>>
  /\ current = NoReq
  /\ ctx = [r \in Reqs |-> NoContext]
  /\ asked = {}
  /\ cancelable = {}
  /\ completions = [r \in Reqs |-> 0]
  /\ delivered = <<>>
  /\ pc = "free"
  /\ start = NoStart
  /\ totTimer = "idle"
  /\ intTimer = "idle"
  /\ quiet = FALSE
  /\ countOnLast = "none"
  /\ readByIsr = FALSE
  /\ readDpc = FALSE
  /\ errorDpc = FALSE

(***************************************************************************)
(* SerialGetNextRequest and SerialTryToCompleteCurrent                     *)
(***************************************************************************)

\* Mutant: the request that is about to be completed is counted.
NoneWaitingOffByOne == Len(queue) <= 1

NoneWaiting == queue = <<>>

\* The current request is completed with context c and buffer slots, and the
\* next one, if any, is started; else the holder of the lock goes on in state
\* "then".
CompleteAndNext(c, slots, then) ==
  /\ ctx' = [ctx EXCEPT ![current] = NoContext]
  /\ completions' = [completions EXCEPT ![current] = @ + 1]
  /\ asked' = asked \ {current}
  /\ delivered' = delivered \o [i \in 1 .. c.info |-> slots[i - 1]]
  /\ user' = [user EXCEPT ![current] = EmptySlots]
  /\ IF NoneWaiting
       THEN /\ current' = NoReq
            /\ pc' = then
            /\ UNCHANGED queue
       ELSE /\ current' = Head(queue)
            /\ queue' = Tail(queue)
            /\ pc' = "start"

\* SerialGrabReadFromIsr: Information is set from what was not filled.
Grabbed(c) ==
  IF OwnedByIsr
    THEN [c EXCEPT !.info = c.len - ((rx.last - rx.cur) + 1),
                   !.refs = @ \ {"isr"}]
    ELSE c

\* Mutant: the result of WdfRequestUnmarkCancelable is not looked at.
RevokedUnchecked(c, ref, int, tot) ==
  {ref, "cancel"} \cup (IF int = "armed" THEN {"interval"} ELSE {})
                  \cup (IF tot = "armed" THEN {"total"} ELSE {})

\* SerialRundownIrpRefs: the caller gives up its own reference, a timer that
\* can still be stopped loses its, and so does cancellation, unless the
\* framework has begun it and WdfRequestUnmarkCancelable fails.
Revoked(c, ref, int, tot) ==
  {ref} \cup (IF "cancel" \in c.refs /\ current \notin asked
                THEN {"cancel"} ELSE {})
        \cup (IF int = "armed" THEN {"interval"} ELSE {})
        \cup (IF tot = "armed" THEN {"total"} ELSE {})

WithoutRefs(c, gone) ==
  [c EXCEPT !.refs = @ \ gone, !.routine = @ /\ "cancel" \notin gone]

Stopped(timer) == IF timer = "armed" THEN "idle" ELSE timer

\* int and tot are the timers when the caller, one of them perhaps, runs.
\* synch: the caller wants the request back from the ISR.
SerialTryToCompleteCurrent(synch, status, ref, int, tot, then) ==
  LET grabbed == IF synch THEN Grabbed(ctx[current]) ELSE ctx[current]
      left == WithoutRefs(grabbed, Revoked(grabbed, ref, int, tot))
  IN
  /\ rx' = IF synch /\ OwnedByIsr THEN SwitchToRing ELSE rx
  /\ intTimer' = Stopped(int)
  /\ totTimer' = Stopped(tot)
  /\ cancelable' = IF ref = "cancel" \/ current \notin asked
                     THEN cancelable \ {current} ELSE cancelable
  /\ IF left.refs = {}
       THEN CompleteAndNext(IF status = "cancelled"
                              THEN [left EXCEPT !.info = 0] ELSE left,
                            user[current], then)
       ELSE /\ ctx' = [ctx EXCEPT ![current] = left]
            /\ pc' = then
            /\ UNCHANGED <<completions, delivered, asked, current, queue, user>>
  /\ quiet' = (quiet /\ intTimer' # "idle")
  /\ UNCHANGED <<ring, arrived>>

(***************************************************************************)
(* Requests: SerialEvtIoRead, IOCTL_SERIAL_SET_QUEUE_SIZE                  *)
(***************************************************************************)

\* WDF_IO_QUEUE_IDLE: no request waits in ReadQueue, and none that came out of
\* it is with the driver.
IsQueueEmpty == queue = <<>> /\ \A r \in Reqs : ctx[r].kind = "none"

\* SerialStartOrQueue
StartOrQueue(r, kind, len) ==
  /\ pc = "free"
  /\ ctx[r].kind = "none" /\ completions[r] = 0
  /\ ctx' = [ctx EXCEPT ![r].kind = kind, ![r].len = len]
  /\ IF IsQueueEmpty /\ current = NoReq
       THEN /\ current' = r
            /\ pc' = "start"
            /\ UNCHANGED queue
       ELSE /\ queue' = Append(queue, r)
            /\ UNCHANGED <<current, pc>>
  /\ UNCHANGED <<bufferVars, completions, delivered, asked, cancelable, start,
                 timerVars, countVars, dpcVars>>

Read(r) == \E len \in 1 .. MaxLen : StartOrQueue(r, "read", len)

\* A request for a buffer that is not larger is answered at once.
Resize(r) == rx.size < NewSize /\ StartOrQueue(r, "resize", 0)

(***************************************************************************)
(* SerialStartRead                                                         *)
(***************************************************************************)

Smaller(m, n) == IF m < n THEN m ELSE n

\* SerialGetCharsFromIntBuffer
CharsToGet(needed) == Smaller(rx.count, needed)

\* Both timers are stopped, the timeouts looked up, and the characters in the
\* interrupt buffer copied while the ISR may store others.
StartCopy ==
  /\ pc = "start"
  /\ ctx[current].kind = "read"
  /\ totTimer' = Stopped(totTimer)
  /\ intTimer' = Stopped(intTimer)
  /\ LET len == ctx[current].len
         n == CharsToGet(len)
     IN
     /\ user' = [user EXCEPT ![current] = Copied(@, 0, n)]
     /\ rx' = [rx EXCEPT !.first = FirstAfter(n)]
     /\ \E m \in Modes :
          IF m.now \/ n = len \/ (m.some /\ n > 0)
            THEN /\ pc' = "update"
                 /\ start' = [mode |-> m, needed |-> len - n, copied |-> n]
                 /\ ctx' = [ctx EXCEPT ![current].info = n]
            ELSE /\ pc' = "switch"
                 /\ start' = [mode |-> m, copied |-> n,
                              needed |-> IF m.one THEN 1 ELSE len - n]
                 /\ ctx' = [ctx EXCEPT ![current].info = n,
                              ![current].refs = {},
                              ![current].len = IF m.one THEN 1 ELSE @]
  /\ UNCHANGED <<ring, arrived, queue, current, completions, delivered, asked,
                 cancelable, quiet, countVars, dpcVars>>

\* SerialUpdateInterruptBuffer
ReducedCount == rx.count - start.copied

\* The read returns with what it has.
StartUpdate ==
  /\ pc = "update"
  /\ rx' = [rx EXCEPT !.count = ReducedCount]
  /\ CompleteAndNext(ctx[current], user[current], "free")
  /\ start' = NoStart
  /\ UNCHANGED <<ring, arrived, cancelable, timerVars, countVars, dpcVars>>

\* SerialUpdateAndSwitchToUser, with interrupts locked out: the characters
\* that came in since are copied; if they do not suffice, the ISR gets the
\* buffer.
StartSwitch ==
  /\ pc = "switch"
  /\ LET n == Smaller(ReducedCount, start.needed)
         len == ctx[current].len
         info == ctx[current].info + n
         filled == Copied(user[current], len - start.needed, n)
         taken == [rx EXCEPT !.count = ReducedCount - n,
                             !.first = FirstAfter(n)]
     IN
     IF n = start.needed
       THEN /\ rx' = taken
            /\ CompleteAndNext([ctx[current] EXCEPT !.info = info], filled,
                               "free")
            /\ start' = NoStart
            /\ UNCHANGED countVars
       ELSE /\ rx' = [taken EXCEPT !.base = current, !.cur = info,
                                  !.last = len - 1]
            /\ user' = [user EXCEPT ![current] = filled]
            /\ ctx' = [ctx EXCEPT ![current].info = info,
                                  ![current].refs = @ \cup {"isr"}]
            /\ countOnLast' = IF info = 0 THEN "none" ELSE "some"
            /\ readByIsr' = FALSE
            /\ pc' = "arm"
            /\ start' = [start EXCEPT !.copied = 0]
            /\ UNCHANGED <<completions, delivered, asked, current, queue>>
  /\ UNCHANGED <<ring, arrived, cancelable, timerVars, dpcVars>>

\* Mutant: the reference of a timer that is started is forgotten.
ArmedRefsNoTotal(m) ==
  {"cancel"} \cup (IF m.interval THEN {"interval"} ELSE {})

ArmedRefs(m) ==
  {"cancel"} \cup (IF m.total THEN {"total"} ELSE {})
             \cup (IF m.interval THEN {"interval"} ELSE {})

\* SerialSetCancelRoutine, and the timers.  The ISR may be done with the
\* read already, but its DPC waits for the lock.  The framework calls
\* the cancel routine of a request that was cancelled before in the same
\* way as that of any other.
StartArm ==
  /\ pc = "arm"
  /\ ctx' = [ctx EXCEPT ![current].routine = TRUE,
                        ![current].refs = @ \cup ArmedRefs(start.mode)]
  /\ totTimer' = IF start.mode.total THEN "armed" ELSE totTimer
  /\ intTimer' = IF start.mode.interval THEN "armed" ELSE intTimer
  /\ cancelable' = cancelable \cup {current}
  /\ start' = NoStart
  /\ pc' = "free"
  /\ UNCHANGED <<bufferVars, queue, current, completions, delivered, asked,
                 quiet, countVars, dpcVars>>

\* SerialResizeBuffer, first without stopping the ISR
ResizeMove ==
  /\ pc = "start"
  /\ ctx[current].kind = "resize"
  /\ IF NewSize <= rx.size
       THEN /\ CompleteAndNext(ctx[current], EmptySlots, "free")
            /\ UNCHANGED <<rx, start>>
       ELSE /\ user' = [user EXCEPT ![current] = Copied(@, 0, rx.count)]
            /\ rx' = [rx EXCEPT !.first = FirstAfter(rx.count)]
            /\ start' = [start EXCEPT !.copied = rx.count]
            /\ pc' = "resize"
            /\ UNCHANGED <<queue, current, ctx, completions, delivered, asked>>
  /\ UNCHANGED <<ring, arrived, cancelable, timerVars, countVars, dpcVars>>

\* Mutant: CurrentCharSlot is set as if nothing came in during the move.
NewCurrentSlotStale == start.copied

NewCurrentSlot == rx.count

\* SerialUpdateAndSwitchToNew: the rest is moved; buffer r, which the request
\* brought, becomes the interrupt buffer.
ResizeSwitch ==
  /\ pc = "resize"
  /\ ring' = Copied(user[current], start.copied, ReducedCount)
  /\ rx' = [rx EXCEPT !.cur = NewCurrentSlot, !.last = NewSize - 1,
                      !.first = 0, !.size = NewSize]
  /\ CompleteAndNext(ctx[current], EmptySlots, "free")
  /\ start' = NoStart
  /\ UNCHANGED <<arrived, cancelable, timerVars, countVars, dpcVars>>

(***************************************************************************)
(* The ISR                                                                 *)
(***************************************************************************)

\* SerialPutChar
PutChar ==
  /\ arrived < MaxChars
  /\ arrived' = arrived + 1
  /\ IF OwnedByIsr THEN PutUser ELSE PutRing
  /\ readByIsr' = (readByIsr \/ OwnedByIsr)
  /\ readDpc' = (readDpc \/ UserBufferFull)
  /\ errorDpc' = (errorDpc \/ (~ OwnedByIsr /\ ~ RoomInRing /\ ErrorAbort))
  /\ ctx' = IF UserBufferFull
              THEN [ctx EXCEPT ![current].info = ctx[current].len] ELSE ctx
  /\ UNCHANGED <<queue, current, completions, delivered, asked, cancelable, pc,
                 start, timerVars, countOnLast>>

\* SerialCompleteRead
CompleteReadDpc ==
  /\ pc = "free"
  /\ readDpc
  /\ readDpc' = FALSE
  /\ countOnLast' = "complete"
  /\ SerialTryToCompleteCurrent(FALSE, "success", "isr", intTimer, totTimer,
                                "free")
  /\ UNCHANGED <<start, readByIsr, errorDpc>>

(***************************************************************************)
(* Timers                                                                  *)
(***************************************************************************)

TotalExpires ==
  /\ totTimer = "armed"
  /\ totTimer' = "expired"
  /\ UNCHANGED <<bufferVars, requestVars, asked, pc, start, intTimer, quiet,
                 countVars, dpcVars>>

IntervalExpires ==
  /\ intTimer = "armed"
  /\ intTimer' = "expired"
  /\ UNCHANGED <<bufferVars, requestVars, asked, pc, start, totTimer, quiet,
                 countVars, dpcVars>>

\* currentTime - LastReadTime reaches IntervalTime.
IntervalPasses ==
  /\ intTimer # "idle"
  /\ ~ quiet
  /\ quiet' = TRUE
  /\ UNCHANGED <<bufferVars, requestVars, asked, pc, start, totTimer,
                 intTimer, countVars, dpcVars>>

SerialReadTimeout ==
  /\ pc = "free"
  /\ totTimer = "expired"
  /\ countOnLast' = "total"
  /\ SerialTryToCompleteCurrent(TRUE, "timeout", "total", intTimer, "idle",
                                "free")
  /\ UNCHANGED <<start, readByIsr, dpcVars>>

\* SerialIntervalReadTimeout after another party found the read not ready to
\* be completed: it is completed now, with that party's status.
IntervalLast ==
  /\ pc = "free"
  /\ intTimer = "expired"
  /\ countOnLast \in {"total", "complete", "cancel"}
  /\ LET status == CASE countOnLast = "total" -> "timeout"
                     [] countOnLast = "complete" -> "success"
                     [] OTHER -> "cancelled"
     IN SerialTryToCompleteCurrent(TRUE, status, "interval", "idle",
                                   totTimer, "free")
  /\ UNCHANGED <<start, countVars, dpcVars>>

\* Mutant: the interval begins before the first character and ends with it.
IntervalOverBefore == ~ readByIsr /\ countOnLast = "none" /\ quiet

IntervalOver == ~ readByIsr /\ countOnLast = "some" /\ quiet

\* ... while the read goes on: a character restarts the interval, without
\* a first one there is none, and without a further one the read is over.
IntervalCheck ==
  /\ pc = "free"
  /\ intTimer = "expired"
  /\ countOnLast \in {"none", "some"}
  /\ IF readByIsr
       THEN countOnLast' = "some" /\ quiet' = FALSE
       ELSE UNCHANGED <<countOnLast, quiet>>
  /\ readByIsr' = FALSE
  /\ IF IntervalOver
       THEN pc' = "expire" /\ intTimer' = "idle"
       ELSE pc' = "free" /\ intTimer' = "armed"
  /\ UNCHANGED <<bufferVars, requestVars, asked, start, totTimer, dpcVars>>

\* The ISR may have stored more characters since.
IntervalTimeout ==
  /\ pc = "expire"
  /\ SerialTryToCompleteCurrent(TRUE, "timeout", "interval", "idle",
                                totTimer, "free")
  /\ UNCHANGED <<start, countVars, dpcVars>>

(***************************************************************************)
(* Cancellation and purge                                                  *)
(***************************************************************************)

\* A request in ReadQueue is completed by the framework, the current one when
\* its cancel routine has run; it may not have one yet.
Cancel(r) ==
  /\ ctx[r].kind # "none"
  /\ r \notin asked
  /\ IF r = current
       THEN /\ asked' = asked \cup {r}
            /\ UNCHANGED <<ctx, completions, queue>>
       ELSE /\ \E i \in DOMAIN queue :
                 queue[i] = r /\ queue' = RemoveAt(queue, i)
            /\ ctx' = [ctx EXCEPT ![r] = NoContext]
            /\ completions' = [completions EXCEPT ![r] = @ + 1]
            /\ UNCHANGED asked
  /\ UNCHANGED <<bufferVars, current, delivered, cancelable, pc, start,
                 timerVars, countVars, dpcVars>>

SerialCancelCurrentRead(then) ==
  /\ countOnLast' = "cancel"
  /\ SerialTryToCompleteCurrent(TRUE, "cancelled", "cancel", intTimer,
                                totTimer, then)
  /\ UNCHANGED <<start, readByIsr, dpcVars>>

CancelRoutine(r) ==
  /\ pc = "free"
  /\ r \in asked \cap cancelable
  /\ SerialCancelCurrentRead("free")

\* WdfIoQueuePurge, and WdfIoQueueStart later, with the lock held
FlushQueue(then) ==
  LET flushed == {queue[i] : i \in 1 .. Len(queue)} IN
  /\ queue' = <<>>
  /\ ctx' = [r \in Reqs |-> IF r \in flushed THEN NoContext ELSE ctx[r]]
  /\ completions' = [r \in Reqs |-> IF r \in flushed
                                       THEN completions[r] + 1
                                       ELSE completions[r]]
  /\ pc' = then
  /\ UNCHANGED <<bufferVars, current, delivered, asked, cancelable, start,
                 timerVars, countVars>>

\* The cancel routine was set, and WdfRequestUnmarkCancelable succeeds.
AbortCurrent ==
  current # NoReq /\ ctx[current].routine /\ current \notin asked

\* SerialStartPurge: SERIAL_PURGE_RXABORT, SERIAL_PURGE_RXCLEAR or both.  The
\* ones that find nothing to do are left out.
Purge ==
  /\ pc = "free"
  /\ \/ /\ queue # <<>> \/ AbortCurrent
        /\ \E then \in {"abort", "abortclear"} : FlushQueue(then)
     \/ /\ rx # PurgedRing
        /\ pc' = "clear"
        /\ UNCHANGED <<bufferVars, requestVars, asked, start, timerVars,
                       countVars>>
  /\ UNCHANGED dpcVars

\* SerialCommError
CommErrorDpc ==
  /\ pc = "free"
  /\ errorDpc
  /\ errorDpc' = FALSE
  /\ FlushQueue("abort")
  /\ UNCHANGED readDpc

\* SerialPurgeRequests, the current request
PurgeCurrent ==
  /\ pc \in {"abort", "abortclear"}
  /\ LET then == IF pc = "abort" THEN "free" ELSE "clear" IN
     IF AbortCurrent
       THEN SerialCancelCurrentRead(then)
       ELSE /\ pc' = then
            /\ UNCHANGED <<bufferVars, requestVars, asked, start, timerVars,
                           countVars, dpcVars>>

PurgeClear ==
  /\ pc = "clear"
  /\ rx' = PurgedRing
  /\ pc' = "free"
  /\ UNCHANGED <<ring, user, arrived, requestVars, asked, start, timerVars,
                 countVars, dpcVars>>

(***************************************************************************)
(* Specification                                                           *)
(***************************************************************************)

\* Steps of the holder of the lock
Holder ==
  \/ StartCopy \/ StartUpdate \/ StartSwitch \/ StartArm
  \/ ResizeMove \/ ResizeSwitch
  \/ IntervalTimeout
  \/ PurgeCurrent \/ PurgeClear

IntervalDpc == IntervalLast \/ IntervalCheck

\* The port stays idle when everything that was asked of it is done.
Terminated ==
  /\ pc = "free" /\ current = NoReq /\ ~ errorDpc
  /\ UNCHANGED vars

Next ==
  \/ Holder
  \/ PutChar \/ CompleteReadDpc
  \/ TotalExpires \/ IntervalExpires \/ IntervalPasses
  \/ SerialReadTimeout \/ IntervalDpc
  \/ \E r \in Reqs : Read(r) \/ Resize(r) \/ Cancel(r) \/ CancelRoutine(r)
  \/ Purge \/ CommErrorDpc
  \/ Terminated

Spec == Init /\ [][Next]_vars

\* Whoever has the lock goes on, timers expire, and a callback that waits for
\* the lock gets it in the end.  Nothing is assumed about the line and the
\* application; but as purges that find nothing to do are left out, the
\* application cannot keep the lock from the others by repeating them.
Fairness ==
  /\ WF_vars(Holder)
  /\ WF_vars(TotalExpires) /\ WF_vars(IntervalExpires)
  /\ WF_vars(IntervalPasses)
  /\ WF_vars(CompleteReadDpc)
  /\ WF_vars(SerialReadTimeout)
  /\ WF_vars(IntervalDpc)
  /\ \A r \in Reqs : WF_vars(CancelRoutine(r))

FairSpec == Spec /\ Fairness

(***************************************************************************)
(* Properties                                                              *)
(***************************************************************************)

\* Who may still use the current request
Users ==
  (IF rx.base = current \/ readDpc THEN {"isr"} ELSE {})
    \cup (IF current \in cancelable THEN {"cancel"} ELSE {})
    \cup (IF totTimer # "idle" THEN {"total"} ELSE {})
    \cup (IF intTimer # "idle" \/ pc = "expire" THEN {"interval"} ELSE {})

\* RefCount tells the truth: once SerialStartRead has started the current
\* request, it has exactly the bits of those that may still use it, so that
\* the assertions of SERIAL_SET_REFERENCE and SERIAL_CLEAR_REFERENCE hold;
\* before, and without a current request, nobody is left from the last one.
RefCountTrue ==
  IF current # NoReq /\ pc \notin {"start", "update", "switch", "arm", "resize"}
    THEN /\ ctx[current].refs = Users
         /\ Users # {}
         /\ ctx[current].routine = (current \in cancelable)
    ELSE /\ totTimer = "idle" /\ intTimer = "idle" /\ cancelable = {}
         /\ (OwnedByIsr \/ readDpc) => pc = "arm"

\* A request is completed once, and then neither the queue nor the ISR nor
\* a cancel routine of the framework knows of it.
CompletedForGood ==
  \A r \in Reqs :
    /\ completions[r] <= 1
    /\ completions[r] = 1 =>
         /\ r # current
         /\ r # rx.base
         /\ r \notin cancelable
         /\ \A i \in 1 .. Len(queue) : queue[i] # r

\* No request waits while none is current: nothing would start it.
QueueServed == queue # <<>> => current # NoReq

\* The characters that are not delivered yet: those in the buffer of the
\* current request, then those in the ring that were not copied from it.
InUserBuffer ==
  IF current = NoReq THEN 0
  ELSE IF rx.base = current THEN rx.cur
  ELSE IF pc = "resize" THEN start.copied
  ELSE ctx[current].info

Pending ==
  [i \in 1 .. InUserBuffer |-> user[current][i - 1]]
    \o [i \in 1 .. ReducedCount |-> ReadableChar(i - 1)]

\* The current request was cancelled, SerialStartPurge is about to abort it, or
\* one or the other was tried and the interval timer is to complete it.
Aborting ==
  \/ current \in asked
  \/ pc \in {"abort", "abortclear"}
  \/ intTimer # "idle" /\ countOnLast = "cancel"

Stream ==
  INSTANCE ByteStream WITH
    arrived <- arrived, pending <- Pending, held <- InUserBuffer,
    delivered <- delivered, capacity <- rx.size,
    aborting <- Aborting, purging <- pc = "clear"

\* Whatever way the characters take, none is repeated or overtaken, and none is
\* lost but for want of room, with a read that is cancelled or aborted, or in
\* a purge of the typeahead buffer.
KeepsStream == Stream!Spec

\* The application or the timeouts have asked for the end of a read.
Due(r) ==
  \/ r \in asked
  \/ /\ r = current
     /\ \/ "total" \in ctx[r].refs
        \/ "interval" \in ctx[r].refs /\ (countOnLast = "some" \/ readByIsr)

\* A read is completed when it was cancelled, when it has a total timeout, or
\* when it has an interval timeout and a first character; whoever else has
\* a reference to it.
EventuallyCompleted ==
  \A r \in Reqs : Due(r) ~> completions[r] = 1
=============================================================================
