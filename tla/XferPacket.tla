----------------------------- MODULE XferPacket -----------------------------
(***************************************************************************)
(* storage/class/classpnp: how the class driver sends reads and writes     *)
(* (ServiceTransferRequest in class.c, xferpkt.c, retry.c, clntirp.c).     *)
(*                                                                         *)
(* A request is split into pieces, each sent down in a transfer packet,    *)
(* and complete when all its pieces are.  A piece that fails is retried;   *)
(* if the lower driver has no memory, in chunks of a page.  The same       *)
(* chunks are sent, in one packet, if there are not enough packets for the *)
(* pieces; without any packet the request is deferred until the completion *)
(* of another one tries it again.  While critical paging requests are      *)
(* outstanding, others are deferred as well.                               *)
(*                                                                         *)
(* Left out: packets of other nodes than one, the work item that frees     *)
(* packets above the upper threshold, drivers with a StartIo routine or an *)
(* error interpretation of their own, separate limits for retries after    *)
(* timeouts and thin provisioning errors, idle priority requests, packets  *)
(* that succeed although the lower driver moved a part of their piece.     *)
(***************************************************************************)
EXTENDS RemoveLock, FiniteSets, Sequences

CONSTANTS
  Reqs,             \* read and write IRPs
  Packets,          \* bound: transfer packets that memory suffices for
  NoReq,
  Critical,         \* requests of IoPagingPriorityHigh
  Transfers,        \* the page offset of a request's buffer, and its length
  PageSize,
  HwMaxXferLen,     \* limit from the number of physical pages, less one page
  MaximumTransferLength,
  LocalMinWorkingSetTransferPackets,
  MaxNumberOfIoRetries,
  ClassMaxInterleavePerCriticalIo

\* The packets that are allocated when the device is started
MIN_INITIAL_TRANSFER_PACKETS == 1

ASSUME XferAssumption ==
  /\ IsFiniteSet(Reqs) /\ IsFiniteSet(Packets)
  /\ NoReq \notin Reqs
  /\ Critical \subseteq Reqs
  /\ PageSize \in Nat \ {0}
  /\ HwMaxXferLen \in Nat /\ HwMaxXferLen >= PageSize
  /\ MaximumTransferLength \in Nat /\ MaximumTransferLength >= HwMaxXferLen
  /\ Transfers \subseteq [offset : 0 .. PageSize - 1, length : Nat \ {0}]
  /\ MIN_INITIAL_TRANSFER_PACKETS <= Cardinality(Packets)
  /\ LocalMinWorkingSetTransferPackets \in Nat
  /\ MaxNumberOfIoRetries \in Nat
  /\ ClassMaxInterleavePerCriticalIo \in Nat

VARIABLES
  req,          \* the requests
  pkt,          \* the transfer packets
  service,      \* ServiceTransferRequest for each request
  deferred,     \* DeferredClientIrpList
  leaving,      \* threads at the end of ClassReadWrite
  finishing,    \* completion routines that have freed their packet
  critical,     \* NumHighPriorityPagingIo
  interleave    \* MaxInterleavedNormalIo

throttleVars == <<critical, interleave>>
threadVars == <<leaving, finishing>>
vars == <<req, pkt, service, deferred, threadVars, throttleVars, lockVars>>

Min(m, n) == IF m < n THEN m ELSE n

NoTransfer == [offset |-> 0, length |-> 0]

\* left: DriverContext[0].  info, ok: IoStatus.  sectors: what was transferred
NewReq == [state |-> "new", transfer |-> NoTransfer, left |-> 0, info |-> 0,
           ok |-> TRUE, sectors |-> {}]

\* A request that was completed is not the driver's any more.
Answered(ok) == [NewReq EXCEPT !.state = "done", !.ok = ok]

Started(q, t) == [q EXCEPT !.state = "active", !.transfer = t]
Split(q, pieces) == [q EXCEPT !.left = pieces, !.info = 0]
Counted(q, ok) == [q EXCEPT !.left = @ - 1, !.ok = ok]
Transferred(q, at, len) ==
  [q EXCEPT !.info = @ + len, !.sectors = @ \cup (at .. at + len - 1)]

\* at, len: BufPtrCopy and BufLenCopy, relative to the request's buffer.
\* rest: LowMemRetry_remainingBufLen; low: InLowMemRetry; tries: NumRetries
IdlePacket(state, r, ok) ==
  [state |-> state, irp |-> r, at |-> 0, len |-> 0, rest |-> 0,
   low |-> FALSE, tries |-> 0, ok |-> ok]

Packet(state) == IdlePacket(state, NoReq, TRUE)
Retried(k) == [k EXCEPT !.state = "queued", !.tries = @ - 1]

\* In flight: "queued", for the retry DPC; "sent", with the lower driver;
\* "counting", returned for good; "unthrottling" and "freeing" after the
\* request was completed, or need not be yet.
PacketState == {"none", "free", "held", "queued", "sent", "counting",
                "unthrottling", "freeing"}

NoService == [pc |-> "none", post |-> FALSE, at |-> 0]

TypeOK ==
  /\ LockTypeOK
  /\ req \in [Reqs -> [state : {"new", "active", "done"},
                       transfer : Transfers \cup {NoTransfer},
                       left : Nat, info : Nat, ok : BOOLEAN,
                       sectors : SUBSET Nat]]
  /\ pkt \in [Packets -> [state : PacketState, irp : Reqs \cup {NoReq},
                          at : Nat, len : Nat, rest : Nat, low : BOOLEAN,
                          tries : 0 .. MaxNumberOfIoRetries, ok : BOOLEAN]]
  /\ service \in [Reqs -> [pc : {"none", "enter", "gather", "send", "defer"},
                           post : BOOLEAN, at : Nat]]
  /\ deferred \in Seq(Reqs)
  /\ leaving \in Nat /\ finishing \in Nat
  /\ critical \in Nat /\ interleave \in Nat

\* The other packets are allocated when they are needed, and those that are
\* free beyond LocalMinWorkingSetTransferPackets are freed lazily.
Init ==
  /\ LockInit
  /\ req = [r \in Reqs |-> NewReq]
  /\ \E first \in SUBSET Packets :
       /\ Cardinality(first) = MIN_INITIAL_TRANSFER_PACKETS
       /\ pkt = [p \in Packets |-> Packet(IF p \in first THEN "free" ELSE "none")]
  /\ service = [r \in Reqs |-> NoService]
  /\ deferred = <<>>
  /\ leaving = 0 /\ finishing = 0
  /\ critical = 0 /\ interleave = 0

In(state) == {p \in Packets : pkt[p].state = state}
HeldFor(r) == {p \in In("held") : pkt[p].irp = r}

(***************************************************************************)
(* Pieces and chunks                                                       *)
(***************************************************************************)

\* A buffer that begins at a page boundary crosses one page less.
HwMax(t) ==
  IF t.offset % PageSize # 0
    THEN HwMaxXferLen
    ELSE Min(HwMaxXferLen + PageSize, MaximumTransferLength)

NumPackets(t) == (t.length + HwMax(t) - 1) \div HwMax(t)

ToNextPage(t, at) == PageSize - ((t.offset + at) % PageSize)

\* SetupReadWriteTransferPacket, with the retries that the driver allows
Setup(r, state, at, len, rest, low) ==
  [state |-> state, irp |-> r, at |-> at, len |-> len, rest |-> rest,
   low |-> low, tries |-> MaxNumberOfIoRetries, ok |-> TRUE]

Piece(r, state, at, len) == Setup(r, state, at, len, 0, FALSE)

\* StepLowMemRetry: the next chunk, of the rest that begins at "at"
Chunk(r, at, rest) ==
  LET len == Min(rest, ToNextPage(req[r].transfer, at))
  IN  Setup(r, "queued", at, len, rest - len, TRUE)

(***************************************************************************)
(* The free list                                                           *)
(***************************************************************************)

\* EnqueueFreeTransferPacket: a packet that is freed when all others are free
\* is given back to memory if there are more than the lower threshold.
Freed(p, pkts) ==
  LET used == {q \in Packets \ {p} : pkts[q].state # "none"}
      all == \A q \in used : pkts[q].state = "free"
  IN [pkts EXCEPT ![p] =
        Packet(IF all /\ Cardinality(used) >= LocalMinWorkingSetTransferPackets
                 THEN "none" ELSE "free")]

\* DequeueFreeTransferPacket: a free packet, else a new one, if there is
\* memory for it
Available == IF In("free") # {} THEN In("free") ELSE In("none")

(***************************************************************************)
(* ClassReadWrite and ServiceTransferRequest                               *)
(***************************************************************************)

\* ClassReadWrite: a request that comes after IsRemoved was set fails.
ClassReadWrite(r) ==
  /\ device # "removed"
  /\ req[r].state = "new"
  /\ IF IsRemoved
       THEN /\ req' = [req EXCEPT ![r] = Answered(FALSE)]
            /\ UNCHANGED <<service, lockVars>>
       ELSE /\ \E t \in Transfers :
                 req' = [req EXCEPT ![r] = Started(req[r], t)]
            /\ service' = [service EXCEPT ![r].pc = "enter"]
            /\ ClassAcquireRemoveLock
  /\ UNCHANGED <<pkt, deferred, threadVars, throttleVars>>

\* Other requests may go ahead of a critical one only so many times.
Throttled(r) == r \notin Critical /\ critical # 0 /\ interleave = 0

\* The caller takes the lock once more; a completion routine that services a
\* deferred request has done so before.
Enter(r) ==
  /\ service[r].pc = "enter"
  /\ service' = [service EXCEPT ![r].pc = IF Throttled(r) THEN "defer"
                                                          ELSE "gather"]
  /\ IF r \in Critical
       THEN /\ critical' = critical + 1
            /\ interleave' = interleave + ClassMaxInterleavePerCriticalIo
       ELSE /\ interleave' = IF critical # 0 /\ interleave # 0
                               THEN interleave - 1 ELSE interleave
            /\ UNCHANGED critical
  /\ IF service[r].post THEN UNCHANGED lockVars ELSE ClassAcquireRemoveLock
  /\ UNCHANGED <<req, pkt, deferred, threadVars>>

\* The number of pieces is stored before the first of them is sent.
Gather(r) ==
  /\ service[r].pc = "gather"
  /\ \E p \in Available :
       pkt' = [pkt EXCEPT ![p] = IdlePacket("held", r, TRUE)]
  /\ LET need == NumPackets(req[r].transfer) IN
     IF Cardinality(HeldFor(r)) + 1 = need
       THEN /\ req' = [req EXCEPT ![r] = Split(req[r], need)]
            /\ service' = [service EXCEPT ![r].pc = "send"]
       ELSE UNCHANGED <<req, service>>
  /\ UNCHANGED <<deferred, threadVars, throttleVars, lockVars>>

\* Mutant: what a critical request let go ahead of it is not taken back.
UnthrottledOnly ==
  /\ critical' = critical - 1
  /\ UNCHANGED interleave

\* A critical request is done, or deferred.
Unthrottled ==
  /\ critical' = critical - 1
  /\ interleave' = IF interleave < ClassMaxInterleavePerCriticalIo THEN 0
                   ELSE interleave - ClassMaxInterleavePerCriticalIo

\* A completion routine releases its lock at once; ClassReadWrite uses the
\* device once more.
EndService(r) ==
  /\ service' = [service EXCEPT ![r] = NoService]
  /\ IF service[r].post
       THEN ClassReleaseRemoveLock /\ UNCHANGED leaving
       ELSE leaving' = leaving + 1 /\ UNCHANGED lockVars

\* Without memory for another packet: one packet must do, in chunks of a page.
GatherTooFew(r) ==
  /\ service[r].pc = "gather"
  /\ In("free") = {}
  /\ \E keep \in HeldFor(r) :
       pkt' = [p \in Packets |->
                 IF p = keep THEN Chunk(r, 0, req[r].transfer.length)
                 ELSE IF p \in HeldFor(r) THEN Packet("free") ELSE pkt[p]]
  /\ req' = [req EXCEPT ![r] = Split(req[r], 1)]
  /\ EndService(r)
  /\ UNCHANGED <<deferred, finishing, throttleVars>>

GatherNone(r) ==
  /\ service[r].pc = "gather"
  /\ In("free") = {} /\ HeldFor(r) = {}
  /\ IF r \in Critical THEN Unthrottled ELSE UNCHANGED throttleVars
  /\ service' = [service EXCEPT ![r].pc = "defer"]
  /\ UNCHANGED <<req, pkt, deferred, threadVars, lockVars>>

\* The next piece; from a completion routine it goes by way of a DPC.
Send(r) ==
  /\ service[r].pc = "send"
  /\ LET at == service[r].at
         len == Min(HwMax(req[r].transfer), req[r].transfer.length - at)
     IN
     /\ \E p \in HeldFor(r) :
          pkt' = [pkt EXCEPT ![p] =
                    Piece(r, IF service[r].post THEN "queued" ELSE "sent", at, len)]
     /\ IF at + len = req[r].transfer.length
          THEN EndService(r)
          ELSE /\ service' = [service EXCEPT ![r].at = at + len]
               /\ UNCHANGED <<leaving, lockVars>>
  /\ UNCHANGED <<req, deferred, finishing, throttleVars>>

\* EnqueueDeferredClientIrp
Defer(r) ==
  /\ service[r].pc = "defer"
  /\ deferred' = Append(deferred, r)
  /\ EndService(r)
  /\ UNCHANGED <<req, pkt, finishing, throttleVars>>

\* ClassReadWrite notes the time and releases its lock.
Leave ==
  /\ leaving > 0
  /\ leaving' = leaving - 1
  /\ ClassReleaseRemoveLock
  /\ UNCHANGED <<req, pkt, service, deferred, finishing, throttleVars>>

(***************************************************************************)
(* TransferPktComplete                                                     *)
(***************************************************************************)

\* The packet is done.
Done(p, ok) ==
  /\ pkt' = [pkt EXCEPT ![p] = IdlePacket("counting", pkt[p].irp, ok)]
  /\ ClassAcquireRemoveLock

\* Mutant: in chunks of a page, the packet is done after the first one.
FirstChunkOnly(p) == FALSE

ChunksRemain(p) == pkt[p].low /\ pkt[p].rest > 0

Succeeded(p) ==
  LET r == pkt[p].irp IN
  /\ pkt[p].state = "sent"
  /\ req' = [req EXCEPT ![r] = Transferred(req[r], pkt[p].at, pkt[p].len)]
  /\ IF ChunksRemain(p)
       THEN /\ pkt' = [pkt EXCEPT ![p] =
                         Chunk(r, pkt[p].at + pkt[p].len, pkt[p].rest)]
            /\ UNCHANGED lockVars
       ELSE Done(p, TRUE)
  /\ UNCHANGED <<service, deferred, threadVars, throttleVars>>

\* InterpretTransferPacketError says that there is no use in a retry.
FailedForGood(p) ==
  /\ pkt[p].state = "sent"
  /\ Done(p, FALSE)
  /\ UNCHANGED <<req, service, deferred, threadVars, throttleVars>>

\* Mutant: the retries are not limited.
AlwaysRetried(p) == TRUE

RetriesLeft(p) == pkt[p].tries > 0

\* RetryTransferPacket: sent again after a delay
FailedOnce(p) ==
  /\ pkt[p].state = "sent"
  /\ IF RetriesLeft(p)
       THEN /\ pkt' = [pkt EXCEPT ![p] = Retried(pkt[p])]
            /\ UNCHANGED lockVars
       ELSE Done(p, FALSE)
  /\ UNCHANGED <<req, service, deferred, threadVars, throttleVars>>

\* Mutant: a chunk that does not get memory is cut up once more.
ChunkedAgain(p) == RetriesLeft(p)

MayBeChunked(p) == RetriesLeft(p) /\ ~ pkt[p].low

\* RetryTransferPacket after STATUS_INSUFFICIENT_RESOURCES
FailedForMemory(p) ==
  /\ pkt[p].state = "sent"
  /\ IF MayBeChunked(p)
       THEN /\ pkt' = [pkt EXCEPT ![p] =
                         Chunk(pkt[p].irp, pkt[p].at, pkt[p].len)]
            /\ UNCHANGED lockVars
       ELSE Done(p, FALSE)
  /\ UNCHANGED <<req, service, deferred, threadVars, throttleVars>>

\* TransferPacketRetryTimerDpc
RetryDpc(p) ==
  /\ pkt[p].state = "queued"
  /\ pkt' = [pkt EXCEPT ![p].state = "sent"]
  /\ UNCHANGED <<req, service, deferred, threadVars, throttleVars, lockVars>>

\* Mutant: the count is compared before it is decremented.
LastButOne(r) == req[r].left <= 2

Last(r) == req[r].left = 1

\* The status is added to the request's, and the last piece completes it.
CountDown(p) ==
  LET r == pkt[p].irp
      ok == req[r].ok /\ pkt[p].ok
  IN
  /\ pkt[p].state = "counting"
  /\ IF Last(r)
       THEN /\ req' = [req EXCEPT ![r] = Answered(ok)]
            /\ ClassReleaseRemoveLock
       ELSE /\ req' = [req EXCEPT ![r] = Counted(req[r], ok)]
            /\ UNCHANGED lockVars
  /\ pkt' = [pkt EXCEPT ![p] = Packet(
               IF Last(r) /\ r \in Critical THEN "unthrottling" ELSE "freeing")]
  /\ UNCHANGED <<service, deferred, threadVars, throttleVars>>

\* Only now, to give Mm time for its next critical request
Unthrottle(p) ==
  /\ pkt[p].state = "unthrottling"
  /\ pkt' = [pkt EXCEPT ![p].state = "freeing"]
  /\ Unthrottled
  /\ UNCHANGED <<req, service, deferred, threadVars, lockVars>>

Free(p) ==
  /\ pkt[p].state = "freeing"
  /\ pkt' = Freed(p, pkt)
  /\ finishing' = finishing + 1
  /\ UNCHANGED <<req, service, deferred, leaving, throttleVars, lockVars>>

\* DequeueDeferredClientIrp: resources were freed, so try one that waits.
ServiceDeferred ==
  /\ finishing > 0
  /\ finishing' = finishing - 1
  /\ IF deferred = <<>>
       THEN /\ ClassReleaseRemoveLock
            /\ UNCHANGED <<service, deferred>>
       ELSE /\ service' = [service EXCEPT ![Head(deferred)] =
                             [pc |-> "enter", post |-> TRUE, at |-> 0]]
            /\ deferred' = Tail(deferred)
            /\ UNCHANGED lockVars
  /\ UNCHANGED <<req, pkt, leaving, throttleVars>>

(***************************************************************************)
(* IRP_MN_REMOVE_DEVICE                                                    *)
(***************************************************************************)

\* DestroyAllTransferPackets empties the free list.
ClassRemoveDevice ==
  /\ \/ RemoveWait /\ UNCHANGED pkt
     \/ /\ RemoveDone
        /\ pkt' = [p \in Packets |-> IF p \in In("free") THEN Packet("none")
                                                         ELSE pkt[p]]
  /\ UNCHANGED <<req, service, deferred, threadVars, throttleVars>>

(***************************************************************************)
(* Specification                                                           *)
(***************************************************************************)

\* Steps of a thread that runs ServiceTransferRequest
Serve(r) ==
  \/ Enter(r) \/ Gather(r) \/ GatherTooFew(r) \/ GatherNone(r)
  \/ Send(r) \/ Defer(r)

\* The lower driver returns the packet.
Returned(p) ==
  \/ Succeeded(p) \/ FailedForGood(p) \/ FailedOnce(p) \/ FailedForMemory(p)

\* Steps of a completion routine, or of the DPC that sends again
Finish(p) == RetryDpc(p) \/ CountDown(p) \/ Unthrottle(p) \/ Free(p)

Work ==
  \/ \E r \in Reqs : Serve(r)
  \/ \E p \in Packets : Returned(p) \/ Finish(p)
  \/ ServiceDeferred
  \/ Leave

Next == (\E r \in Reqs : ClassReadWrite(r)) \/ Work \/ ClassRemoveDevice

Spec == Init /\ [][Next]_vars

\* Something that is under way goes on: a thread, a DPC or a completion
\* routine, or the lower driver, which returns a packet if only because it
\* times out; it may fail all of them.
Fairness == WF_vars(Work)

FairSpec == Spec /\ Fairness

(***************************************************************************)
(* Properties                                                              *)
(***************************************************************************)

\* The count in DriverContext[0] is the number of the request's pieces that
\* are not counted yet; as it decides who completes the request, the request
\* is completed once, by its last piece, and no piece is left without it.
Uncounted(r) ==
  {p \in In("queued") \cup In("sent") \cup In("counting") : pkt[p].irp = r}
    \cup (IF service[r].pc = "send" THEN HeldFor(r) ELSE {})

PiecesCounted == \A r \in Reqs : req[r].left = Cardinality(Uncounted(r))

\* However a request is split, retried and cut into chunks, no sector is
\* transferred twice, and if it succeeds, all of them are: the assertion in
\* TransferPktComplete that Information is the length.  It supposes, as the
\* assertion does, that a packet that succeeds has moved its whole piece.
WholeTransfer ==
  [][\A r \in Reqs :
       req[r].state = "active" =>
         /\ req[r].info = Cardinality(req[r].sectors)
         /\ req'[r].state = "done" /\ req'[r].ok =>
              req[r].sectors = 0 .. req[r].transfer.length - 1]_vars

\* Threads that use the device, or hold its lock for a request
Outstanding == {r \in Reqs : req[r].state = "active"}
Servicing ==
  {r \in Reqs : \/ service[r].pc \in {"gather", "send", "defer"}
                \/ service[r].pc = "enter" /\ service[r].post}
Completing == In("counting") \cup In("unthrottling") \cup In("freeing")

Users ==
  Cardinality(Outstanding) + Cardinality(Servicing) + Cardinality(Completing)
    + leaving + finishing

\* The lock counts those that use the device, and the device itself; so
\* whoever still has a request, a packet or a step to do finds it there.
DeviceOutlivesUse ==
  /\ rundown + failed = Users + (IF device = "present" THEN 1 ELSE 0)
  /\ device = "removed" =>
       /\ Users = 0 /\ deferred = <<>>
       /\ \A p \in Packets : pkt[p].state \in {"none", "free"}

\* Critical requests that other requests have to give way to: those in
\* progress; and those completed for which that is not yet taken back.
Throttling ==
  {r \in Critical : service[r].pc \in {"gather", "send"} \/ req[r].left > 0}

\* Every way out for a critical request takes back what it added: else normal
\* requests are deferred for ever, or go ahead of critical ones.
ThrottleBalanced ==
  /\ critical = Cardinality(Throttling) + Cardinality(In("unthrottling"))
  /\ interleave <= critical * ClassMaxInterleavePerCriticalIo

\* A request that was sent down is completed, however its pieces fail:
\* retries and chunks come to an end.
EventuallyAnswered == \A r \in Reqs : []<>(req[r].left = 0)

\* "Defer this client irp until some TRANSFER_PACKETs free up" (class.c):
\* while a request is deferred, there is a request or a completion routine
\* to come that looks at the list.
DeferredUntilFreed ==
  deferred # <<>> =>
    \/ finishing > 0
    \/ \E p \in Packets : pkt[p].state \notin {"none", "free"}
    \/ \E r \in Reqs : service[r].pc # "none"

(***************************************************************************)
(* The inductive invariant                                                 *)
(***************************************************************************)

\* A request is in the driver as long as it is served, or has pieces to come.
ServedActive ==
  \A r \in Reqs :
    /\ service[r].pc # "none" \/ req[r].left # 0 => req[r].state = "active"
    /\ req[r].state = "active" => req[r].transfer \in Transfers
    /\ service[r].pc \in {"enter", "gather", "defer"} => req[r].left = 0
    /\ service[r].pc \in {"enter", "gather"} => service[r].at = 0
    /\ service[r].pc = "none" => service[r] = NoService

\* A deferred request is nowhere else, and is deferred once.
DeferredWaits ==
  /\ \A i \in DOMAIN deferred :
       LET r == deferred[i] IN
       req[r].state = "active" /\ req[r].left = 0 /\ service[r].pc = "none"
  /\ \A i, j \in DOMAIN deferred : deferred[i] = deferred[j] => i = j

PacketsOwned ==
  \A p \in Packets :
    /\ pkt[p].state \in {"held", "queued", "sent", "counting"} =>
         pkt[p].irp \in Reqs
    /\ pkt[p].state = "held" =>
         service[pkt[p].irp].pc \in {"gather", "send"}

\* The packets held for a request are just as many as the rest of it needs.
HeldSuffice ==
  \A r \in Reqs :
    service[r].pc = "send" =>
      LET rest == req[r].transfer.length - service[r].at
          max == HwMax(req[r].transfer)
          n == Cardinality(HeldFor(r))
      IN  rest > 0 /\ (n - 1) * max < rest /\ rest <= n * max

\* A failed acquisition is by someone who has the lock already, or relies on
\* someone who has.
FailedWhileHeld ==
  /\ device = "present" => failed = 0
  /\ failed # 0 => rundown # 0

LockCounts ==
  rundown + failed = Users + (IF device = "present" THEN 1 ELSE 0)

IInv ==
  /\ TypeOK
  /\ ServedActive
  /\ DeferredWaits
  /\ PacketsOwned
  /\ HeldSuffice
  /\ FailedWhileHeld
  /\ PiecesCounted
  /\ LockCounts
  /\ device = "removed" => rundown = 0
  /\ ThrottleBalanced
=============================================================================
