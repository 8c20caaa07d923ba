-------------------------- MODULE XferPacketProofs ---------------------------
(***************************************************************************)
(* Proofs about XferPacket, for any finite sets of requests and packets,   *)
(* any transfers, and any limits on their size and on retries.             *)
(***************************************************************************)
EXTENDS XferPacket, FiniteSetTheorems, TLAPS

(***************************************************************************)
(* Pieces and chunks                                                       *)
(***************************************************************************)

\* The records of TypeOK
ReqType == [state : {"new", "active", "done"},
            transfer : Transfers \cup {NoTransfer},
            left : Nat, info : Nat, ok : BOOLEAN, sectors : SUBSET Nat]

PktType == [state : PacketState, irp : Reqs \cup {NoReq},
            at : Nat, len : Nat, rest : Nat, low : BOOLEAN,
            tries : 0 .. MaxNumberOfIoRetries, ok : BOOLEAN]

ServiceType == [pc : {"none", "enter", "gather", "send", "defer"},
                post : BOOLEAN, at : Nat]

LEMMA HwMaxFacts ==
  ASSUME NEW t \in Transfers
  PROVE  HwMax(t) \in Nat \ {0} /\ t.length \in Nat \ {0}
BY XferAssumption DEF HwMax, Min

\* The pieces cover the buffer, and one less would not.
LEMMA NumPacketsFacts ==
  ASSUME NEW t \in Transfers
  PROVE  /\ NumPackets(t) \in Nat \ {0}
         /\ (NumPackets(t) - 1) * HwMax(t) < t.length
         /\ t.length <= NumPackets(t) * HwMax(t)
<1>1. HwMax(t) \in Nat \ {0} /\ t.length \in Nat \ {0}
  BY HwMaxFacts
<1> DEFINE m == HwMax(t)
           l == t.length
           n == (l + m - 1) \div m
<1>2. m \in Nat \ {0} /\ l \in Nat \ {0}
  BY <1>1
<1> HIDE DEF m, l
<1>3. n \in Nat /\ n * m <= l + m - 1 /\ l + m - 1 < (n + 1) * m
  BY <1>2
<1>4. n # 0
  BY <1>2, <1>3
<1>5. (n - 1) * m = n * m - m /\ (n + 1) * m = n * m + m
  BY <1>2, <1>3
<1>6. (n - 1) * m < l /\ l <= n * m
  BY <1>2, <1>3, <1>5
<1> QED
  BY <1>3, <1>4, <1>6 DEF NumPackets, m, l

LEMMA NextPage ==
  ASSUME NEW t \in Transfers, NEW at \in Nat
  PROVE  ToNextPage(t, at) \in Nat \ {0}
<1>1. t.offset + at \in Nat
  BY XferAssumption
<1>2. (t.offset + at) % PageSize \in 0 .. PageSize - 1
  BY <1>1, XferAssumption
<1> QED
  BY <1>2, XferAssumption DEF ToNextPage

LEMMA PacketType ==
  ASSUME NEW s \in PacketState
  PROVE  Packet(s) \in PktType /\ Packet(s).state = s /\ Packet(s).irp = NoReq
BY XferAssumption DEF Packet, IdlePacket, PktType

LEMMA PieceType ==
  ASSUME NEW r \in Reqs, NEW s \in PacketState, NEW at \in Nat, NEW len \in Nat
  PROVE  /\ Piece(r, s, at, len) \in PktType
         /\ Piece(r, s, at, len).state = s /\ Piece(r, s, at, len).irp = r
<1>1. Piece(r, s, at, len) =
        [state |-> s, irp |-> r, at |-> at, len |-> len, rest |-> 0,
         low |-> FALSE, tries |-> MaxNumberOfIoRetries, ok |-> TRUE]
  BY DEF Piece, Setup
<1>2. MaxNumberOfIoRetries \in 0 .. MaxNumberOfIoRetries
  BY XferAssumption
<1> QED
  BY <1>1, <1>2 DEF PktType

LEMMA PieceFields ==
  ASSUME NEW r, NEW s, NEW at, NEW len
  PROVE  /\ Piece(r, s, at, len).state = s /\ Piece(r, s, at, len).irp = r
         /\ Piece(r, s, at, len).at = at /\ Piece(r, s, at, len).len = len
         /\ Piece(r, s, at, len).rest = 0
BY DEF Piece, Setup

LEMMA ChunkType ==
  ASSUME NEW r \in Reqs, req[r].transfer \in Transfers,
         NEW at \in Nat, NEW rest \in Nat
  PROVE  /\ Chunk(r, at, rest) \in PktType
         /\ Chunk(r, at, rest).state = "queued" /\ Chunk(r, at, rest).irp = r
         /\ Chunk(r, at, rest).at = at /\ Chunk(r, at, rest).low
         /\ Chunk(r, at, rest).len + Chunk(r, at, rest).rest = rest
<1> DEFINE len == Min(rest, ToNextPage(req[r].transfer, at))
<1>1. len \in Nat /\ rest - len \in Nat
  BY NextPage DEF Min
<1> HIDE DEF len
<1>2. "queued" \in PacketState
  BY DEF PacketState
<1>3. Chunk(r, at, rest) =
        [state |-> "queued", irp |-> r, at |-> at, len |-> len,
         rest |-> rest - len, low |-> TRUE, tries |-> MaxNumberOfIoRetries,
         ok |-> TRUE]
  BY DEF Chunk, Setup, len
<1>4. MaxNumberOfIoRetries \in 0 .. MaxNumberOfIoRetries
  BY XferAssumption
<1> QED
  BY <1>1, <1>2, <1>3, <1>4 DEF PktType

LEMMA NewReqType ==
  /\ NewReq \in ReqType /\ NewReq.left = 0 /\ NewReq.state = "new"
  /\ NewReq.info = 0 /\ NewReq.sectors = {}
  /\ \A b \in BOOLEAN :
       /\ Answered(b) \in ReqType
       /\ Answered(b).left = 0 /\ Answered(b).state = "done"
BY DEF Answered, NewReq, ReqType

\* What the updates of a record do
LEMMA StartedFacts ==
  ASSUME NEW q \in ReqType, NEW t \in Transfers
  PROVE  /\ Started(q, t) \in ReqType
         /\ Started(q, t).state = "active"
         /\ Started(q, t).transfer = t
         /\ Started(q, t).left = q.left
         /\ Started(q, t).info = q.info
         /\ Started(q, t).sectors = q.sectors
<1> DEFINE x == [q EXCEPT !.state = "active"]
<1>1. x =
        [state |-> "active", transfer |-> q.transfer, left |-> q.left,
         info |-> q.info, ok |-> q.ok, sectors |-> q.sectors]
  BY DEF ReqType
<1> HIDE DEF x
<1>2. [x EXCEPT !.transfer = t] =
        [state |-> "active", transfer |-> t, left |-> q.left,
         info |-> q.info, ok |-> q.ok, sectors |-> q.sectors]
  BY <1>1
<1>3. Started(q, t) = [x EXCEPT !.transfer = t]
  BY Zenon DEF Started, x
<1>4. /\ q.state \in {"new", "active", "done"}
      /\ q.transfer \in Transfers \cup {NoTransfer}
      /\ q.left \in Nat /\ q.info \in Nat /\ q.ok \in BOOLEAN
      /\ q.sectors \in SUBSET Nat
  BY DEF ReqType
<1> QED
  BY <1>2, <1>3, <1>4 DEF ReqType

LEMMA SplitFacts ==
  ASSUME NEW q \in ReqType, NEW n \in Nat
  PROVE  /\ Split(q, n) \in ReqType
         /\ Split(q, n).state = q.state
         /\ Split(q, n).transfer = q.transfer
         /\ Split(q, n).left = n
         /\ Split(q, n).info = 0 /\ Split(q, n).ok = q.ok
         /\ Split(q, n).sectors = q.sectors
<1> DEFINE x == [q EXCEPT !.left = n]
<1>1. x =
        [state |-> q.state, transfer |-> q.transfer, left |-> n,
         info |-> q.info, ok |-> q.ok, sectors |-> q.sectors]
  BY DEF ReqType
<1> HIDE DEF x
<1>2. [x EXCEPT !.info = 0] =
        [state |-> q.state, transfer |-> q.transfer, left |-> n,
         info |-> 0, ok |-> q.ok, sectors |-> q.sectors]
  BY <1>1
<1>3. Split(q, n) = [x EXCEPT !.info = 0]
  BY Zenon DEF Split, x
<1>4. /\ q.state \in {"new", "active", "done"}
      /\ q.transfer \in Transfers \cup {NoTransfer}
      /\ q.left \in Nat /\ q.info \in Nat /\ q.ok \in BOOLEAN
      /\ q.sectors \in SUBSET Nat
  BY DEF ReqType
<1> QED
  BY <1>2, <1>3, <1>4 DEF ReqType

LEMMA CountedFacts ==
  ASSUME NEW q \in ReqType, q.left # 0, NEW ok \in BOOLEAN
  PROVE  /\ Counted(q, ok) \in ReqType
         /\ Counted(q, ok).state = q.state
         /\ Counted(q, ok).transfer = q.transfer
         /\ Counted(q, ok).left = q.left - 1
         /\ Counted(q, ok).info = q.info /\ Counted(q, ok).ok = ok
         /\ Counted(q, ok).sectors = q.sectors
<1> DEFINE x == [q EXCEPT !.left = q.left - 1]
<1>1. x =
        [state |-> q.state, transfer |-> q.transfer, left |-> q.left - 1,
         info |-> q.info, ok |-> q.ok, sectors |-> q.sectors]
  BY DEF ReqType
<1> HIDE DEF x
<1>2. [x EXCEPT !.ok = ok] =
        [state |-> q.state, transfer |-> q.transfer, left |-> q.left - 1,
         info |-> q.info, ok |-> ok, sectors |-> q.sectors]
  BY <1>1
<1>3. Counted(q, ok) = [x EXCEPT !.ok = ok]
  BY Zenon DEF Counted, x
<1>4. /\ q.state \in {"new", "active", "done"}
      /\ q.transfer \in Transfers \cup {NoTransfer}
      /\ q.left \in Nat /\ q.info \in Nat /\ q.ok \in BOOLEAN
      /\ q.sectors \in SUBSET Nat
  BY DEF ReqType
<1>5. q.left - 1 \in Nat
  BY <1>4
<1> QED
  BY <1>2, <1>3, <1>4, <1>5 DEF ReqType

LEMMA TransferredFacts ==
  ASSUME NEW q \in ReqType, NEW at \in Nat, NEW n \in Nat
  PROVE  /\ Transferred(q, at, n) \in ReqType
         /\ Transferred(q, at, n).state = q.state
         /\ Transferred(q, at, n).transfer = q.transfer
         /\ Transferred(q, at, n).left = q.left
         /\ Transferred(q, at, n).info = q.info + n
         /\ Transferred(q, at, n).ok = q.ok
         /\ Transferred(q, at, n).sectors = q.sectors \cup (at .. at + n - 1)
<1> DEFINE x == [q EXCEPT !.info = q.info + n]
           S == q.sectors \cup (at .. at + n - 1)
<1>1. x =
        [state |-> q.state, transfer |-> q.transfer, left |-> q.left,
         info |-> q.info + n, ok |-> q.ok, sectors |-> q.sectors]
  BY DEF ReqType
<1> HIDE DEF x, S
<1>2. [x EXCEPT !.sectors = S] =
        [state |-> q.state, transfer |-> q.transfer, left |-> q.left,
         info |-> q.info + n, ok |-> q.ok, sectors |-> S]
  BY <1>1
<1>3. x.sectors = q.sectors
  BY <1>1 DEF ReqType
<1>4. /\ q.state \in {"new", "active", "done"}
      /\ q.transfer \in Transfers \cup {NoTransfer}
      /\ q.left \in Nat /\ q.info \in Nat /\ q.ok \in BOOLEAN
      /\ q.sectors \in SUBSET Nat
  BY DEF ReqType
<1>5. S \in SUBSET Nat /\ q.info + n \in Nat
  BY <1>4 DEF S
<1>6. Transferred(q, at, n) = [x EXCEPT !.sectors = S]
  BY <1>3, Zenon DEF Transferred, x, S
<1>7. /\ Transferred(q, at, n) \in ReqType
      /\ Transferred(q, at, n).state = q.state
      /\ Transferred(q, at, n).transfer = q.transfer
      /\ Transferred(q, at, n).left = q.left
      /\ Transferred(q, at, n).info = q.info + n
      /\ Transferred(q, at, n).ok = q.ok
      /\ Transferred(q, at, n).sectors = S
  BY <1>2, <1>4, <1>5, <1>6 DEF ReqType
<1> QED
  BY <1>7 DEF S

LEMMA IdlePacketFacts ==
  ASSUME NEW s \in PacketState, NEW r \in Reqs \cup {NoReq}, NEW ok \in BOOLEAN
  PROVE  /\ IdlePacket(s, r, ok) \in PktType
         /\ IdlePacket(s, r, ok).state = s /\ IdlePacket(s, r, ok).irp = r
         /\ IdlePacket(s, r, ok).ok = ok
BY XferAssumption DEF IdlePacket, PktType

LEMMA RetriedFacts ==
  ASSUME NEW k \in PktType, k.tries > 0
  PROVE  /\ Retried(k) \in PktType
         /\ Retried(k).state = "queued"
         /\ Retried(k).irp = k.irp
         /\ Retried(k).at = k.at /\ Retried(k).len = k.len
         /\ Retried(k).rest = k.rest /\ Retried(k).low = k.low
<1> DEFINE x == [k EXCEPT !.state = "queued"]
<1>1. x =
        [state |-> "queued", irp |-> k.irp, at |-> k.at, len |-> k.len,
         rest |-> k.rest, low |-> k.low, tries |-> k.tries, ok |-> k.ok]
  BY DEF PktType
<1> HIDE DEF x
<1>2. [x EXCEPT !.tries = k.tries - 1] =
        [state |-> "queued", irp |-> k.irp, at |-> k.at, len |-> k.len,
         rest |-> k.rest, low |-> k.low, tries |-> k.tries - 1,
         ok |-> k.ok]
  BY <1>1
<1>3. x.tries = k.tries
  BY <1>1 DEF PktType
<1>4. Retried(k) = [x EXCEPT !.tries = k.tries - 1]
  BY <1>3, Zenon DEF Retried, x
<1>5. /\ k.irp \in Reqs \cup {NoReq} /\ k.at \in Nat /\ k.len \in Nat
      /\ k.rest \in Nat /\ k.low \in BOOLEAN /\ k.ok \in BOOLEAN
      /\ k.tries \in 0 .. MaxNumberOfIoRetries
  BY DEF PktType
<1>6. k.tries - 1 \in 0 .. MaxNumberOfIoRetries /\ "queued" \in PacketState
  BY <1>5, XferAssumption DEF PacketState
<1> QED
  BY <1>2, <1>4, <1>5, <1>6 DEF PktType

(***************************************************************************)
(* What the sets that the counters count have in common                    *)
(***************************************************************************)

LEMMA Counts ==
  /\ \A s : IsFiniteSet(In(s)) /\ Cardinality(In(s)) \in Nat
  /\ \A r : IsFiniteSet(HeldFor(r)) /\ Cardinality(HeldFor(r)) \in Nat
  /\ \A r : IsFiniteSet(Uncounted(r)) /\ Cardinality(Uncounted(r)) \in Nat
  /\ IsFiniteSet(Outstanding) /\ Cardinality(Outstanding) \in Nat
  /\ IsFiniteSet(Servicing) /\ Cardinality(Servicing) \in Nat
  /\ IsFiniteSet(Completing) /\ Cardinality(Completing) \in Nat
  /\ IsFiniteSet(Throttling) /\ Cardinality(Throttling) \in Nat
<1>1. \A s : In(s) \subseteq Packets
  BY DEF In
<1>2. \A r : HeldFor(r) \subseteq Packets
  BY DEF HeldFor, In
<1>3. \A r : Uncounted(r) \subseteq Packets
  BY <1>1, <1>2 DEF Uncounted
<1>4. Completing \subseteq Packets
  BY <1>1 DEF Completing
<1>5. Outstanding \subseteq Reqs /\ Servicing \subseteq Reqs
  BY DEF Outstanding, Servicing
<1>6. Throttling \subseteq Reqs
  BY XferAssumption DEF Throttling
<1>7. /\ \A S : S \subseteq Packets => IsFiniteSet(S) /\ Cardinality(S) \in Nat
      /\ \A S : S \subseteq Reqs => IsFiniteSet(S) /\ Cardinality(S) \in Nat
  BY XferAssumption, FS_Subset, FS_CardinalityType
<1> QED
  BY <1>1, <1>2, <1>3, <1>4, <1>5, <1>6, <1>7

LEMMA NonEmpty ==
  ASSUME NEW S, IsFiniteSet(S), NEW x \in S
  PROVE  Cardinality(S) >= 1
BY FS_CardinalityType, FS_EmptySet

LEMMA Typed ==
  ASSUME TypeOK
  PROVE  /\ req \in [Reqs -> ReqType]
         /\ pkt \in [Packets -> PktType]
         /\ service \in [Reqs -> ServiceType]
         /\ device \in Device /\ rundown \in Nat /\ failed \in Nat
BY DEF TypeOK, ReqType, PktType, ServiceType, LockTypeOK

\* A packet that was sent belongs to a request that waits for it.
LEMMA PieceFacts ==
  ASSUME IInv, NEW p \in Packets,
         pkt[p].state \in {"queued", "sent", "counting"}
  PROVE  /\ pkt[p].irp \in Reqs
         /\ p \in Uncounted(pkt[p].irp)
         /\ req[pkt[p].irp].left \in Nat \ {0}
         /\ req[pkt[p].irp].state = "active"
         /\ req[pkt[p].irp].transfer \in Transfers
<1> DEFINE r == pkt[p].irp
<1>1. r \in Reqs
  BY DEF IInv, PacketsOwned
<1>2. p \in Uncounted(r)
  BY DEF Uncounted, In
<1>3. Cardinality(Uncounted(r)) >= 1
  BY <1>2, Counts, NonEmpty
<1>4. req[r].left = Cardinality(Uncounted(r))
  BY <1>1 DEF IInv, PiecesCounted
<1>5. req[r].left \in Nat \ {0}
  BY <1>3, <1>4, Counts
<1> QED
  BY <1>1, <1>2, <1>5 DEF IInv, ServedActive

\* Someone who has the lock, or thinks so, can release it.
LEMMA InUse ==
  ASSUME IInv,
         \/ device = "present"
         \/ \E r \in Reqs : r \in Outstanding \/ r \in Servicing
         \/ \E p \in Packets : p \in Completing
         \/ leaving > 0
         \/ finishing > 0
  PROVE  rundown + failed >= 1
<1>1. /\ Cardinality(Outstanding) \in Nat
      /\ Cardinality(Servicing) \in Nat
      /\ Cardinality(Completing) \in Nat
      /\ leaving \in Nat /\ finishing \in Nat
  BY Counts DEF IInv, TypeOK
<1>2. rundown + failed =
        Cardinality(Outstanding) + Cardinality(Servicing)
          + Cardinality(Completing) + leaving + finishing
          + (IF device = "present" THEN 1 ELSE 0)
  BY DEF IInv, LockCounts, Users
<1>3. CASE \E r \in Reqs : r \in Outstanding
  <2>1. Cardinality(Outstanding) >= 1
    BY <1>3, Counts, NonEmpty
  <2> QED
    BY <1>1, <1>2, <2>1
<1>4. CASE \E r \in Reqs : r \in Servicing
  <2>1. Cardinality(Servicing) >= 1
    BY <1>4, Counts, NonEmpty
  <2> QED
    BY <1>1, <1>2, <2>1
<1>5. CASE \E p \in Packets : p \in Completing
  <2>1. Cardinality(Completing) >= 1
    BY <1>5, Counts, NonEmpty
  <2> QED
    BY <1>1, <1>2, <2>1
<1>6. CASE device = "present" \/ leaving > 0 \/ finishing > 0
  BY <1>1, <1>2, <1>6
<1> QED
  BY <1>3, <1>4, <1>5, <1>6

LEMMA CriticalCounted ==
  ASSUME IInv,
         \/ \E r \in Critical : service[r].pc = "gather"
         \/ \E p \in Packets : pkt[p].state = "unthrottling"
  PROVE  critical >= 1
<1>1. /\ critical = Cardinality(Throttling) + Cardinality(In("unthrottling"))
      /\ Cardinality(Throttling) \in Nat
      /\ Cardinality(In("unthrottling")) \in Nat
  BY Counts DEF IInv, ThrottleBalanced
<1>2. CASE \E r \in Critical : service[r].pc = "gather"
  <2>1. PICK r \in Critical : r \in Throttling
    BY <1>2 DEF Throttling
  <2>2. Cardinality(Throttling) >= 1
    BY <2>1, Counts, NonEmpty
  <2> QED
    BY <1>1, <2>2
<1>3. CASE \E p \in Packets : pkt[p].state = "unthrottling"
  <2>1. PICK p \in Packets : p \in In("unthrottling")
    BY <1>3 DEF In
  <2>2. Cardinality(In("unthrottling")) >= 1
    BY <2>1, Counts, NonEmpty
  <2> QED
    BY <1>1, <2>2
<1> QED
  BY <1>2, <1>3

LEMMA Release ==
  ASSUME rundown \in Nat, failed \in Nat, rundown + failed >= 1, ReleasedLock
  PROVE  /\ rundown' \in Nat /\ failed' \in Nat
         /\ rundown' + failed' = rundown + failed - 1
         /\ failed' <= failed
         /\ failed' # 0 => rundown' = rundown
BY DEF ReleasedLock

(***************************************************************************)
(* Types                                                                   *)
(***************************************************************************)

LEMMA TypeFromParts ==
  ASSUME req' \in [Reqs -> ReqType], pkt' \in [Packets -> PktType],
         service' \in [Reqs -> ServiceType], deferred' \in Seq(Reqs),
         leaving' \in Nat, finishing' \in Nat, critical' \in Nat,
         interleave' \in Nat,
         device' \in Device, rundown' \in Nat, failed' \in Nat
  PROVE  TypeOK'
BY DEF TypeOK, LockTypeOK, ReqType, PktType, ServiceType

\* A packet that is done
LEMMA DoneType ==
  ASSUME TypeOK, NEW p \in Packets, NEW ok \in BOOLEAN, Done(p, ok)
  PROVE  /\ pkt' \in [Packets -> PktType]
         /\ device' \in Device /\ rundown' \in Nat /\ failed' \in Nat
<1>1. pkt[p].irp \in Reqs \cup {NoReq}
  BY DEF TypeOK
<1>2. IdlePacket("counting", pkt[p].irp, ok) \in PktType
  BY <1>1, Typed, IdlePacketFacts DEF PacketState
<1>3. pkt' \in [Packets -> PktType]
  BY <1>2, Typed DEF Done
<1> QED
  BY <1>3, Typed DEF Done, ClassAcquireRemoveLock, Device

LEMMA EndServiceType ==
  ASSUME IInv, NEW r \in Reqs, service[r].pc \in {"gather", "send", "defer"},
         EndService(r)
  PROVE  /\ service' \in [Reqs -> ServiceType]
         /\ leaving' \in Nat
         /\ device' \in Device /\ rundown' \in Nat /\ failed' \in Nat
<1>1. NoService \in ServiceType
  BY DEF NoService, ServiceType
<1>2. service' \in [Reqs -> ServiceType]
  BY <1>1, Typed DEF EndService, IInv
<1>3. r \in Servicing
  BY DEF Servicing
<1>4. rundown + failed >= 1
  BY <1>3, InUse
<1>5. leaving \in Nat /\ device \in Device /\ rundown \in Nat /\ failed \in Nat
  BY Typed DEF IInv, TypeOK
<1>6. CASE service[r].post
  <2>1. ReleasedLock /\ device' = device /\ leaving' = leaving
    BY <1>6 DEF EndService, ClassReleaseRemoveLock
  <2> QED
    BY <1>2, <1>4, <1>5, <2>1, Release
<1>7. CASE ~ service[r].post
  <2>1. leaving' = leaving + 1 /\ UNCHANGED lockVars
    BY <1>7 DEF EndService
  <2> QED
    BY <1>2, <1>5, <2>1 DEF lockVars
<1> QED
  BY <1>6, <1>7

LEMMA TypeStep ==
  ASSUME IInv, [Next]_vars
  PROVE  TypeOK'
<1> USE DEF threadVars, throttleVars, lockVars
<1>req. req \in [Reqs -> ReqType]
  BY Typed DEF IInv
<1>pkt. pkt \in [Packets -> PktType]
  BY Typed DEF IInv
<1>srv. service \in [Reqs -> ServiceType]
  BY Typed DEF IInv
<1>lock. device \in Device /\ rundown \in Nat /\ failed \in Nat
  BY Typed DEF IInv
<1>rest. /\ deferred \in Seq(Reqs)
         /\ leaving \in Nat /\ finishing \in Nat
         /\ critical \in Nat /\ interleave \in Nat
  BY DEF IInv, TypeOK
<1>1. ASSUME NEW r \in Reqs, ClassReadWrite(r)
      PROVE  TypeOK'
  <2>1. \/ req' = [req EXCEPT ![r] = Answered(FALSE)]
        \/ \E t \in Transfers : req' = [req EXCEPT ![r] = Started(req[r], t)]
    BY <1>1, Zenon DEF ClassReadWrite
  <2>2. /\ Answered(FALSE) \in ReqType
        /\ \A t \in Transfers : Started(req[r], t) \in ReqType
    BY <1>req, NewReqType, StartedFacts
  <2>3. req' \in [Reqs -> ReqType]
    BY <2>1, <2>2, <1>req
  <2>4. service' \in [Reqs -> ServiceType]
    BY <1>1, <1>srv DEF ClassReadWrite, ServiceType, IsRemoved
  <2>5. UNCHANGED lockVars \/ ClassAcquireRemoveLock
    BY <1>1, Zenon DEF ClassReadWrite
  <2>6. device' \in Device /\ rundown' \in Nat /\ failed' \in Nat
    BY <2>5, <1>lock DEF ClassAcquireRemoveLock, Device
  <2> QED
    BY <1>1, <1>req, <1>pkt, <1>srv, <1>lock, <1>rest, TypeFromParts,
       <2>3, <2>4, <2>6 DEF ClassReadWrite
<1>2. ASSUME NEW r \in Reqs, Serve(r)
      PROVE  TypeOK'
  <2>1. CASE Enter(r)
    <3>1. service' \in [Reqs -> ServiceType]
      BY <2>1, <1>srv DEF Enter, ServiceType
    <3>2. device' \in Device /\ rundown' \in Nat /\ failed' \in Nat
      BY <2>1, <1>lock DEF Enter, ClassAcquireRemoveLock, Device
    <3>3. critical' \in Nat /\ interleave' \in Nat
      BY <2>1, XferAssumption, <1>rest DEF Enter
    <3> QED
      BY <2>1, <1>req, <1>pkt, <1>srv, <1>lock, <1>rest, TypeFromParts,
         <3>1, <3>2, <3>3 DEF Enter
  <2>2. CASE Gather(r)
    <3>1. req[r].transfer \in Transfers
      BY <2>2 DEF Gather, IInv, ServedActive
    <3>2. req' \in [Reqs -> ReqType]
      BY <2>2, <1>req, <3>1, NumPacketsFacts, SplitFacts DEF Gather
    <3>3. service' \in [Reqs -> ServiceType]
      BY <2>2, <1>srv DEF Gather, ServiceType
    <3>4. IdlePacket("held", r, TRUE) \in PktType
      BY IdlePacketFacts DEF PacketState
    <3>5. pkt' \in [Packets -> PktType]
      BY <2>2, <1>pkt, <3>4 DEF Gather
    <3> QED
      BY <2>2, <1>req, <1>pkt, <1>srv, <1>lock, <1>rest, TypeFromParts,
         <3>2, <3>3, <3>5 DEF Gather
  <2>3. CASE GatherTooFew(r)
    <3>1. req[r].transfer \in Transfers
      BY <2>3 DEF GatherTooFew, IInv, ServedActive
    <3>2. req' \in [Reqs -> ReqType]
      BY <2>3, <1>req, <3>1, SplitFacts DEF GatherTooFew
    <3>3. Chunk(r, 0, req[r].transfer.length) \in PktType
      BY <3>1, HwMaxFacts, ChunkType
    <3>4. Packet("free") \in PktType
      BY PacketType DEF PacketState
    <3>5. pkt' \in [Packets -> PktType]
      BY <2>3, <1>pkt, <3>3, <3>4 DEF GatherTooFew
    <3>6. /\ service' \in [Reqs -> ServiceType] /\ leaving' \in Nat
          /\ device' \in Device /\ rundown' \in Nat /\ failed' \in Nat
      BY <2>3, EndServiceType DEF GatherTooFew
    <3> QED
      BY <2>3, <1>req, <1>pkt, <1>srv, <1>lock, <1>rest, TypeFromParts,
         <3>2, <3>5, <3>6 DEF GatherTooFew
  <2>4. CASE GatherNone(r)
    <3>1. service' \in [Reqs -> ServiceType]
      BY <2>4, <1>srv DEF GatherNone, ServiceType
    <3>2. r \in Critical => critical >= 1
      BY <2>4, <1>rest, CriticalCounted DEF GatherNone
    <3>3. critical' \in Nat /\ interleave' \in Nat
      BY <2>4, XferAssumption, <1>rest, <3>2 DEF GatherNone, Unthrottled
    <3> QED
      BY <2>4, <1>req, <1>pkt, <1>srv, <1>lock, <1>rest, TypeFromParts,
         <3>1, <3>3 DEF GatherNone
  <2>5. CASE Send(r)
    <3>1. req[r].transfer \in Transfers
      BY <2>5 DEF Send, IInv, ServedActive
    <3> DEFINE at == service[r].at
               len == Min(HwMax(req[r].transfer), req[r].transfer.length - at)
    <3>2. at \in Nat
      BY <1>srv DEF ServiceType
    <3>3. req[r].transfer.length - at > 0
      BY <2>5, <1>req, <3>1 DEF Send, IInv, HeldSuffice
    <3>4. len \in Nat
      BY <3>1, <3>2, <3>3, HwMaxFacts DEF Min
    <3>5. Piece(r, IF service[r].post THEN "queued" ELSE "sent", at, len)
            \in PktType
      BY <3>2, <3>4, PieceType DEF PacketState
    <3>6. \E p \in HeldFor(r) :
            pkt' = [pkt EXCEPT ![p] = Piece(r, IF service[r].post THEN "queued"
                                               ELSE "sent", at, len)]
      BY <2>5, Zenon DEF Send
    <3>7. \/ EndService(r)
          \/ /\ service' = [service EXCEPT ![r].at = at + len]
             /\ UNCHANGED <<leaving, lockVars>>
      BY <2>5, Zenon DEF Send
    <3> HIDE DEF at, len
    <3>8. pkt' \in [Packets -> PktType]
      BY <3>5, <3>6, <1>pkt
    <3>9. at + len \in Nat
      BY <3>2, <3>4
    <3>10. service[r].pc = "send"
      BY <2>5 DEF Send
    <3>11. /\ service' \in [Reqs -> ServiceType] /\ leaving' \in Nat
           /\ device' \in Device /\ rundown' \in Nat /\ failed' \in Nat
      <4>1. CASE EndService(r)
        BY <4>1, <3>10, EndServiceType
      <4>2. CASE /\ service' = [service EXCEPT ![r].at = at + len]
                 /\ UNCHANGED <<leaving, lockVars>>
        BY <4>2, <3>9, <1>srv, <1>lock, <1>rest DEF ServiceType
      <4> QED
        BY <3>7, <4>1, <4>2
    <3> QED
      BY <2>5, <1>req, <1>pkt, <1>srv, <1>lock, <1>rest, TypeFromParts,
         <3>8, <3>11 DEF Send
  <2>6. CASE Defer(r)
    <3>1. /\ service' \in [Reqs -> ServiceType] /\ leaving' \in Nat
          /\ device' \in Device /\ rundown' \in Nat /\ failed' \in Nat
      BY <2>6, EndServiceType DEF Defer
    <3>2. deferred' \in Seq(Reqs)
      BY <2>6, <1>rest DEF Defer
    <3> QED
      BY <2>6, <1>req, <1>pkt, <1>srv, <1>lock, <1>rest, TypeFromParts,
         <3>1, <3>2 DEF Defer
  <2> QED
    BY <1>2, <2>1, <2>2, <2>3, <2>4, <2>5, <2>6 DEF Serve
<1>3. ASSUME NEW p \in Packets, Returned(p)
      PROVE  TypeOK'
  <2>1. CASE Succeeded(p)
    <3>1. /\ pkt[p].irp \in Reqs
          /\ req[pkt[p].irp].transfer \in Transfers
      BY <2>1, PieceFacts DEF Succeeded
    <3>2. /\ pkt[p].at \in Nat /\ pkt[p].len \in Nat
          /\ pkt[p].rest \in Nat /\ pkt[p].tries \in 0 .. MaxNumberOfIoRetries
      BY <1>pkt, <1>srv DEF PktType
    <3>3. \A at, rest \in Nat : Chunk(pkt[p].irp, at, rest) \in PktType
      BY <3>1, ChunkType
    <3>4. pkt[p].at + pkt[p].len \in Nat
      BY <3>2
    <3>5. Chunk(pkt[p].irp, pkt[p].at + pkt[p].len, pkt[p].rest) \in PktType
      BY <3>2, <3>3, <3>4
    <3>6. \/ Done(p, TRUE)
          \/ /\ pkt' = [pkt EXCEPT ![p] =
                         Chunk(pkt[p].irp, pkt[p].at + pkt[p].len, pkt[p].rest)]
             /\ UNCHANGED lockVars
      BY <2>1 DEF Succeeded
    <3>7. /\ pkt' \in [Packets -> PktType]
          /\ device' \in Device /\ rundown' \in Nat /\ failed' \in Nat
      BY <3>5, <3>6, <1>pkt, <1>lock, DoneType DEF IInv
    <3>8. req' \in [Reqs -> ReqType]
      BY <2>1, <3>1, <3>2, <1>req, TransferredFacts DEF Succeeded
    <3> QED
      BY <2>1, <1>req, <1>pkt, <1>srv, <1>lock, <1>rest, TypeFromParts,
         <3>7, <3>8 DEF Succeeded
  <2>2. CASE FailedForGood(p)
    <3>1. /\ pkt[p].irp \in Reqs
          /\ req[pkt[p].irp].transfer \in Transfers
      BY <2>2, PieceFacts DEF FailedForGood
    <3>2. /\ pkt[p].at \in Nat /\ pkt[p].len \in Nat
          /\ pkt[p].rest \in Nat /\ pkt[p].tries \in 0 .. MaxNumberOfIoRetries
      BY <1>pkt, <1>srv DEF PktType
    <3>3. /\ pkt' \in [Packets -> PktType]
          /\ device' \in Device /\ rundown' \in Nat /\ failed' \in Nat
      BY <2>2, <1>pkt, <1>lock, DoneType DEF FailedForGood, IInv
    <3> QED
      BY <2>2, <1>req, <1>pkt, <1>srv, <1>lock, <1>rest, TypeFromParts,
         <3>3 DEF FailedForGood
  <2>3. CASE FailedOnce(p)
    <3>1. /\ pkt[p].irp \in Reqs
          /\ req[pkt[p].irp].transfer \in Transfers
      BY <2>3, PieceFacts DEF FailedOnce
    <3>2. /\ pkt[p].at \in Nat /\ pkt[p].len \in Nat
          /\ pkt[p].rest \in Nat /\ pkt[p].tries \in 0 .. MaxNumberOfIoRetries
      BY <1>pkt, <1>srv DEF PktType
    <3>3. RetriesLeft(p) => Retried(pkt[p]) \in PktType
      BY <1>pkt, RetriedFacts DEF RetriesLeft, PacketState
    <3>4. /\ pkt' \in [Packets -> PktType]
          /\ device' \in Device /\ rundown' \in Nat /\ failed' \in Nat
      BY <2>3, <3>2, <3>3, <1>pkt, <1>lock, DoneType DEF FailedOnce,
         RetriesLeft, IInv
    <3> QED
      BY <2>3, <1>req, <1>pkt, <1>srv, <1>lock, <1>rest, TypeFromParts,
         <3>4 DEF FailedOnce
  <2>4. CASE FailedForMemory(p)
    <3>1. /\ pkt[p].irp \in Reqs
          /\ req[pkt[p].irp].transfer \in Transfers
      BY <2>4, PieceFacts DEF FailedForMemory
    <3>2. /\ pkt[p].at \in Nat /\ pkt[p].len \in Nat
          /\ pkt[p].rest \in Nat /\ pkt[p].tries \in 0 .. MaxNumberOfIoRetries
      BY <1>pkt, <1>srv DEF PktType
    <3>3. \A at, rest \in Nat : Chunk(pkt[p].irp, at, rest) \in PktType
      BY <3>1, ChunkType
    <3>4. pkt[p].at + pkt[p].len \in Nat
      BY <3>2
    <3>5. Chunk(pkt[p].irp, pkt[p].at, pkt[p].len) \in PktType
      BY <3>2, <3>3, <3>4
    <3>6. \/ Done(p, FALSE)
          \/ /\ pkt' = [pkt EXCEPT ![p] =
                         Chunk(pkt[p].irp, pkt[p].at, pkt[p].len)]
             /\ UNCHANGED lockVars
      BY <2>4 DEF FailedForMemory
    <3>7. /\ pkt' \in [Packets -> PktType]
          /\ device' \in Device /\ rundown' \in Nat /\ failed' \in Nat
      BY <3>5, <3>6, <1>pkt, <1>lock, DoneType DEF IInv
    <3> QED
      BY <2>4, <1>req, <1>pkt, <1>srv, <1>lock, <1>rest, TypeFromParts,
         <3>7 DEF FailedForMemory
  <2> QED
    BY <1>3, <2>1, <2>2, <2>3, <2>4 DEF Returned
<1>4. ASSUME NEW p \in Packets, Finish(p)
      PROVE  TypeOK'
  <2>1. CASE RetryDpc(p)
    <3>1. pkt' \in [Packets -> PktType]
      BY <2>1, <1>pkt DEF RetryDpc, PktType, PacketState
    <3> QED
      BY <2>1, <1>req, <1>pkt, <1>srv, <1>lock, <1>rest, TypeFromParts,
         <3>1 DEF RetryDpc
  <2>2. CASE CountDown(p)
    <3>1. /\ pkt[p].irp \in Reqs
          /\ req[pkt[p].irp].left \in Nat \ {0}
          /\ req[pkt[p].irp].state = "active"
      BY <2>2, PieceFacts DEF CountDown
    <3>2. (req[pkt[p].irp].ok /\ pkt[p].ok) \in BOOLEAN
      OBVIOUS
    <3>3. req' \in [Reqs -> ReqType]
      BY <2>2, <3>1, <3>2, <1>req, NewReqType, CountedFacts DEF
         CountDown
    <3>4. /\ Packet("unthrottling") \in PktType
          /\ Packet("freeing") \in PktType
      BY PacketType DEF PacketState
    <3>5. pkt' \in [Packets -> PktType]
      BY <2>2, <3>4, <1>pkt DEF CountDown
    <3>6. rundown + failed >= 1
      BY <3>1, InUse DEF Outstanding
    <3>7. device' \in Device /\ rundown' \in Nat /\ failed' \in Nat
      BY <2>2, <3>6, <1>lock, Release DEF CountDown,
         ClassReleaseRemoveLock
    <3> QED
      BY <2>2, <1>req, <1>pkt, <1>srv, <1>lock, <1>rest, TypeFromParts,
         <3>3, <3>5, <3>7 DEF CountDown
  <2>3. CASE Unthrottle(p)
    <3>1. pkt' \in [Packets -> PktType]
      BY <2>3, <1>pkt DEF Unthrottle, PktType, PacketState
    <3>2. critical >= 1
      BY <2>3, <1>rest, CriticalCounted DEF Unthrottle
    <3>3. critical' \in Nat /\ interleave' \in Nat
      BY <2>3, XferAssumption, <1>rest, <3>2 DEF Unthrottle, Unthrottled
    <3> QED
      BY <2>3, <1>req, <1>pkt, <1>srv, <1>lock, <1>rest, TypeFromParts,
         <3>1, <3>3 DEF Unthrottle
  <2>4. CASE Free(p)
    <3>1. /\ Packet("none") \in PktType
          /\ Packet("free") \in PktType
      BY PacketType DEF PacketState
    <3>2. pkt' \in [Packets -> PktType]
      BY <2>4, <3>1, <1>pkt DEF Free, Freed
    <3> QED
      BY <2>4, <1>req, <1>pkt, <1>srv, <1>lock, <1>rest, TypeFromParts,
         <3>2 DEF Free
  <2> QED
    BY <1>4, <2>1, <2>2, <2>3, <2>4 DEF Finish
<1>5. CASE ServiceDeferred
  <2>1. deferred # <<>> =>
          Head(deferred) \in Reqs /\ Tail(deferred) \in Seq(Reqs)
    BY <1>rest
  <2>2. deferred' \in Seq(Reqs)
    BY <1>5, <1>rest, <2>1 DEF ServiceDeferred
  <2>3. \/ UNCHANGED service
        \/ \E q \in Reqs :
             service' = [service EXCEPT ![q] =
                           [pc |-> "enter", post |-> TRUE, at |-> 0]]
    BY <1>5, <2>1, Zenon DEF ServiceDeferred
  <2>4. [pc |-> "enter", post |-> TRUE, at |-> 0] \in ServiceType
    BY DEF ServiceType
  <2>5. service' \in [Reqs -> ServiceType]
    BY <1>srv, <2>3, <2>4
  <2>6. rundown + failed >= 1
    BY <1>5, InUse DEF ServiceDeferred
  <2>7. UNCHANGED lockVars \/ ClassReleaseRemoveLock
    BY <1>5, Zenon DEF ServiceDeferred
  <2>8. device' \in Device /\ rundown' \in Nat /\ failed' \in Nat
    BY <1>lock, <2>6, <2>7, Release DEF ClassReleaseRemoveLock
  <2> QED
    BY <1>5, <1>req, <1>pkt, <1>srv, <1>lock, <1>rest, TypeFromParts,
       <2>2, <2>5, <2>8 DEF ServiceDeferred
<1>6. CASE Leave
  <2>1. rundown + failed >= 1
    BY <1>6, InUse DEF Leave
  <2>2. device' \in Device /\ rundown' \in Nat /\ failed' \in Nat
    BY <1>6, <1>lock, <2>1, Release DEF Leave, ClassReleaseRemoveLock
  <2> QED
    BY <1>6, <1>req, <1>pkt, <1>srv, <1>lock, <1>rest, TypeFromParts, <2>2
       DEF Leave
<1>7. CASE ClassRemoveDevice
  <2>1. Packet("none") \in PktType
    BY PacketType DEF PacketState
  <2>2. pkt' \in [Packets -> PktType]
    BY <1>7, <2>1, <1>pkt DEF ClassRemoveDevice
  <2>3. device = "present" => rundown + failed >= 1
    BY InUse
  <2>4. device' \in Device /\ rundown' \in Nat /\ failed' \in Nat
    BY <1>7, <1>lock, <2>3, Release DEF ClassRemoveDevice, RemoveWait,
       RemoveDone, Device
  <2> QED
    BY <1>7, <1>req, <1>pkt, <1>srv, <1>lock, <1>rest, TypeFromParts,
       <2>2, <2>4 DEF ClassRemoveDevice
<1>8. CASE UNCHANGED vars
  BY <1>8, <1>req, <1>pkt, <1>srv, <1>lock, <1>rest, TypeFromParts DEF vars
<1> QED
  BY <1>1, <1>2, <1>3, <1>4, <1>5, <1>6, <1>7, <1>8 DEF Next, Work

(***************************************************************************)
(* What the actions do to the fields that the invariant is about           *)
(***************************************************************************)

SameReq(q) ==
  /\ req'[q].state = req[q].state
  /\ req'[q].transfer = req[q].transfer
  /\ req'[q].left = req[q].left

OthersSame(r) == \A q \in Reqs : q # r => SameReq(q)

OnePacket(p, state, r) ==
  /\ pkt'[p].state = state /\ pkt'[p].irp = r
  /\ \A k \in Packets : k # p => pkt'[k] = pkt[k]

LEMMA ReadWriteEffect ==
  ASSUME IInv, NEW r \in Reqs, ClassReadWrite(r)
  PROVE  /\ OthersSame(r)
         /\ req[r].state = "new" /\ req[r].left = 0
         /\ service[r] = NoService /\ req'[r].left = 0
         /\ \/ /\ req'[r].state = "done"
               /\ UNCHANGED <<service, lockVars>>
            \/ /\ device = "present" /\ ClassAcquireRemoveLock
               /\ req'[r].state = "active" /\ req'[r].transfer \in Transfers
               /\ service' = [service EXCEPT ![r].pc = "enter"]
<1>1. /\ req \in [Reqs -> ReqType] /\ req[r].left \in Nat
      /\ req[r].state = "new"
  BY Typed DEF IInv, ReqType, ClassReadWrite
<1>2. req[r].left = 0 /\ service[r] = NoService
  BY <1>1 DEF IInv, ServedActive
<1>3. CASE IsRemoved
  <2>1. /\ req' = [req EXCEPT ![r] = Answered(FALSE)]
        /\ UNCHANGED <<service, lockVars>>
    BY <1>3 DEF ClassReadWrite
  <2>2. OthersSame(r) /\ req'[r] = Answered(FALSE)
    BY <1>1, <2>1 DEF OthersSame, SameReq
  <2>3. Answered(FALSE).left = 0 /\ Answered(FALSE).state = "done"
    BY NewReqType
  <2> QED
    BY <1>1, <1>2, <2>1, <2>2, <2>3
<1>4. CASE ~ IsRemoved
  <2>1. PICK t \in Transfers : req' = [req EXCEPT ![r] = Started(req[r], t)]
    BY <1>4 DEF ClassReadWrite
  <2>2. OthersSame(r) /\ req'[r] = Started(req[r], t)
    BY <1>1, <2>1 DEF OthersSame, SameReq
  <2>3. req[r] \in ReqType
    BY <1>1
  <2>4. /\ /\ Started(req[r], t).state = "active"
        /\ Started(req[r], t).transfer = t
        /\ Started(req[r], t).left = req[r].left
    BY <2>3, StartedFacts
  <2>5. /\ service' = [service EXCEPT ![r].pc = "enter"]
        /\ ClassAcquireRemoveLock
    BY <1>4 DEF ClassReadWrite
  <2>6. device = "present"
    BY <1>4 DEF IsRemoved
  <2> QED
    BY <1>1, <1>2, <2>2, <2>4, <2>5, <2>6
<1> QED
  BY <1>3, <1>4

\* GatherTooFew does the same with one piece.
LEMMA SplitEffect ==
  ASSUME IInv, NEW r \in Reqs, NEW n \in Nat,
         req' = [req EXCEPT ![r] = Split(req[r], n)]
  PROVE  /\ OthersSame(r)
         /\ req'[r].state = req[r].state
         /\ req'[r].transfer = req[r].transfer
         /\ req'[r].left = n
         /\ req'[r].info = 0 /\ req'[r].ok = req[r].ok
         /\ req'[r].sectors = req[r].sectors
<1>1. req \in [Reqs -> ReqType]
  BY Typed DEF IInv
<1>2. OthersSame(r) /\ req'[r] = Split(req[r], n)
  BY <1>1 DEF OthersSame, SameReq
<1>3. req[r] \in ReqType
  BY <1>1
<1>4. /\ Split(req[r], n).state = req[r].state
      /\ Split(req[r], n).transfer = req[r].transfer
      /\ Split(req[r], n).left = n
      /\ Split(req[r], n).info = 0 /\ Split(req[r], n).ok = req[r].ok
      /\ Split(req[r], n).sectors = req[r].sectors
  BY <1>3, SplitFacts
<1> QED
  BY <1>2, <1>4

LEMMA SucceededEffect ==
  ASSUME IInv, NEW p \in Packets, Succeeded(p)
  PROVE  \A q \in Reqs : SameReq(q)
<1> DEFINE r == pkt[p].irp
<1>1. /\ req \in [Reqs -> ReqType] /\ pkt[p].at \in Nat /\ pkt[p].len \in Nat
  BY Typed DEF IInv, PktType
<1>2. r \in Reqs
  BY PieceFacts DEF Succeeded
<1>3. req' = [req EXCEPT ![r] = Transferred(req[r], pkt[p].at, pkt[p].len)]
  BY Zenon DEF Succeeded
<1>4. req[r] \in ReqType
  BY <1>1, <1>2
<1>5. /\ Transferred(req[r], pkt[p].at, pkt[p].len).state = req[r].state
      /\ Transferred(req[r], pkt[p].at, pkt[p].len).transfer = req[r].transfer
      /\ Transferred(req[r], pkt[p].at, pkt[p].len).left = req[r].left
  BY <1>1, <1>4, TransferredFacts, ZenonT(30)
<1> HIDE DEF r
<1>6. SameReq(r)
  BY <1>1, <1>2, <1>3, <1>5 DEF SameReq
<1>7. \A q \in Reqs : q # r => SameReq(q)
  BY <1>1, <1>2, <1>3 DEF SameReq
<1> QED
  BY <1>6, <1>7

LEMMA CountDownEffect ==
  ASSUME IInv, NEW p \in Packets, CountDown(p), NEW r, r = pkt[p].irp
  PROVE  /\ r \in Reqs /\ req[r].state = "active" /\ req[r].left \in Nat \ {0}
         /\ OthersSame(r)
         /\ req'[r].left = req[r].left - 1
         /\ req[r].left = 1 => req'[r].state = "done"
         /\ req[r].left # 1 =>
              /\ req'[r].state = "active"
              /\ req'[r].transfer = req[r].transfer
<1> DEFINE ok == req[r].ok /\ pkt[p].ok
<1>1. /\ req \in [Reqs -> ReqType] /\ ok \in BOOLEAN
  BY Typed DEF IInv
<1>2. /\ r \in Reqs /\ req[r].state = "active" /\ req[r].left \in Nat \ {0}
  BY PieceFacts DEF CountDown
<1>3. req[r] \in ReqType
  BY <1>1, <1>2
<1>4. CASE req[r].left = 1
  <2>1. req' = [req EXCEPT ![r] = Answered(ok)]
    BY <1>4, Zenon DEF CountDown, Last
  <2> HIDE DEF ok
  <2>2. OthersSame(r) /\ req'[r] = Answered(ok)
    BY <1>1, <1>2, <2>1 DEF OthersSame, SameReq
  <2>3. Answered(ok).left = 0 /\ Answered(ok).state = "done"
    BY <1>1, NewReqType
  <2> QED
    BY <1>2, <1>4, <2>2, <2>3
<1>5. CASE req[r].left # 1
  <2>1. req' = [req EXCEPT ![r] = Counted(req[r], ok)]
    BY <1>5, Zenon DEF CountDown, Last
  <2> HIDE DEF ok
  <2>2. OthersSame(r) /\ req'[r] = Counted(req[r], ok)
    BY <1>1, <1>2, <2>1 DEF OthersSame, SameReq
  <2>3. /\ Counted(req[r], ok).state = req[r].state
        /\ Counted(req[r], ok).transfer = req[r].transfer
        /\ Counted(req[r], ok).left = req[r].left - 1
    BY <1>1, <1>2, <1>3, CountedFacts
  <2> QED
    BY <1>2, <1>5, <2>2, <2>3
<1> QED
  BY <1>4, <1>5

LEMMA PacketChange ==
  ASSUME IInv, NEW p \in Packets, NEW x, pkt' = [pkt EXCEPT ![p] = x]
  PROVE  OnePacket(p, x.state, x.irp)
<1>1. pkt \in [Packets -> PktType]
  BY Typed DEF IInv
<1> QED
  BY <1>1 DEF OnePacket

LEMMA DoneEffect ==
  ASSUME IInv, NEW p \in Packets, NEW ok \in BOOLEAN, Done(p, ok)
  PROVE  OnePacket(p, "counting", pkt[p].irp) /\ ClassAcquireRemoveLock
<1>1. pkt[p].irp \in Reqs \cup {NoReq}
  BY Typed DEF IInv, PktType
<1> DEFINE x == IdlePacket("counting", pkt[p].irp, ok)
<1>2. x.state = "counting" /\ x.irp = pkt[p].irp
  BY <1>1, IdlePacketFacts DEF PacketState
<1>3. pkt' = [pkt EXCEPT ![p] = x]
  BY Zenon DEF Done
<1>4. ClassAcquireRemoveLock
  BY DEF Done
<1> HIDE DEF x
<1> QED
  BY <1>2, <1>3, <1>4, PacketChange

LEMMA GatherEffect ==
  ASSUME IInv, NEW r \in Reqs, Gather(r)
  PROVE  \E p \in Available : OnePacket(p, "held", r)
<1> DEFINE x == IdlePacket("held", r, TRUE)
<1>1. x.state = "held" /\ x.irp = r
  BY DEF IdlePacket
<1>2. PICK p \in Available : pkt' = [pkt EXCEPT ![p] = x]
  BY Zenon DEF Gather
<1>3. p \in Packets
  BY DEF Available, In
<1> HIDE DEF x
<1> QED
  BY <1>1, <1>2, <1>3, PacketChange

LEMMA SendEffect ==
  ASSUME IInv, NEW r \in Reqs, Send(r)
  PROVE  \E p \in HeldFor(r), s \in {"queued", "sent"} :
           /\ OnePacket(p, s, r)
           /\ pkt'[p].at = service[r].at /\ pkt'[p].rest = 0
           /\ pkt'[p].len = Min(HwMax(req[r].transfer),
                                req[r].transfer.length - service[r].at)
<1> DEFINE at == service[r].at
           len == Min(HwMax(req[r].transfer), req[r].transfer.length - at)
           s == IF service[r].post THEN "queued" ELSE "sent"
           x == Piece(r, s, at, len)
<1>1. /\ x.state = s /\ x.irp = r
      /\ x.at = at /\ x.rest = 0 /\ x.len = len
  BY PieceFields
<1>2. PICK p \in HeldFor(r) : pkt' = [pkt EXCEPT ![p] = x]
  BY Zenon DEF Send
<1>3. p \in Packets
  BY DEF HeldFor, In
<1>4. s \in {"queued", "sent"}
  OBVIOUS
<1>5. pkt \in [Packets -> PktType]
  BY Typed DEF IInv
<1> HIDE DEF s, x
<1>6. pkt'[p] = x
  BY <1>2, <1>3, <1>5
<1> QED
  BY <1>1, <1>2, <1>3, <1>4, <1>6, PacketChange

\* A packet that the lower driver returned: sent again, or done
LEMMA ReturnedEffect ==
  ASSUME IInv, NEW p \in Packets, Returned(p)
  PROVE  /\ pkt[p].state = "sent"
         /\ \A q \in Reqs : SameReq(q)
         /\ UNCHANGED <<service, deferred, leaving, finishing, critical,
                        interleave>>
         /\ \/ OnePacket(p, "queued", pkt[p].irp) /\ UNCHANGED lockVars
            \/ OnePacket(p, "counting", pkt[p].irp) /\ ClassAcquireRemoveLock
<1>1. /\ pkt[p].state = "sent"
      /\ UNCHANGED <<service, deferred, leaving, finishing, critical,
                     interleave>>
  BY DEF Returned, Succeeded, FailedForGood, FailedOnce, FailedForMemory,
         threadVars, throttleVars
<1>2. /\ pkt[p].irp \in Reqs /\ req[pkt[p].irp].transfer \in Transfers
      /\ pkt[p].at \in Nat /\ pkt[p].len \in Nat /\ pkt[p].rest \in Nat
      /\ pkt[p] \in PktType
  BY <1>1, PieceFacts, Typed DEF IInv, PktType
<1>3. CASE Succeeded(p)
  <2> DEFINE x == Chunk(pkt[p].irp, pkt[p].at + pkt[p].len, pkt[p].rest)
  <2>1. x.state = "queued" /\ x.irp = pkt[p].irp
    BY <1>2, ChunkType
  <2>2. \/ pkt' = [pkt EXCEPT ![p] = x] /\ UNCHANGED lockVars
        \/ Done(p, TRUE)
    BY <1>3, Zenon DEF Succeeded
  <2> HIDE DEF x
  <2> QED
    BY <1>1, <1>3, <2>1, <2>2, PacketChange, DoneEffect, SucceededEffect
<1>4. ASSUME ~ Succeeded(p)
      PROVE  \A q \in Reqs : SameReq(q)
  BY <1>4 DEF Returned, FailedForGood, FailedOnce, FailedForMemory, SameReq
<1>5. CASE FailedForGood(p)
  <2>1. Done(p, FALSE) /\ UNCHANGED req
    BY <1>5 DEF FailedForGood
  <2> QED
    BY <1>1, <2>1, DoneEffect DEF SameReq
<1>6. CASE FailedOnce(p)
  <2>1. \/ RetriesLeft(p) /\ pkt' = [pkt EXCEPT ![p] = Retried(pkt[p])]
           /\ UNCHANGED lockVars
        \/ Done(p, FALSE)
    BY <1>6, Zenon DEF FailedOnce
  <2>2. RetriesLeft(p) =>
          Retried(pkt[p]).state = "queued" /\ Retried(pkt[p]).irp = pkt[p].irp
    BY <1>2, RetriedFacts DEF RetriesLeft
  <2>3. UNCHANGED req
    BY <1>6 DEF FailedOnce
  <2> QED
    BY <1>1, <2>1, <2>2, <2>3, PacketChange, DoneEffect DEF SameReq
<1>7. CASE FailedForMemory(p)
  <2> DEFINE x == Chunk(pkt[p].irp, pkt[p].at, pkt[p].len)
  <2>1. x.state = "queued" /\ x.irp = pkt[p].irp
    BY <1>2, ChunkType
  <2>2. \/ pkt' = [pkt EXCEPT ![p] = x] /\ UNCHANGED lockVars
        \/ Done(p, FALSE)
    BY <1>7, Zenon DEF FailedForMemory
  <2>3. UNCHANGED req
    BY <1>7 DEF FailedForMemory
  <2> HIDE DEF x
  <2> QED
    BY <1>1, <2>1, <2>2, <2>3, PacketChange, DoneEffect DEF SameReq
<1> QED
  BY <1>3, <1>5, <1>6, <1>7 DEF Returned

LEMMA FinishEffect ==
  ASSUME IInv, NEW p \in Packets
  PROVE  /\ RetryDpc(p) => OnePacket(p, "sent", pkt[p].irp)
         /\ Unthrottle(p) => OnePacket(p, "freeing", pkt[p].irp)
         /\ CountDown(p) =>
              \/ OnePacket(p, "freeing", NoReq)
                   /\ ~ (pkt[p].irp \in Critical /\ req[pkt[p].irp].left = 1)
              \/ OnePacket(p, "unthrottling", NoReq)
                   /\ pkt[p].irp \in Critical /\ req[pkt[p].irp].left = 1
         /\ Free(p) => \E s \in {"none", "free"} : OnePacket(p, s, NoReq)
<1>1. /\ pkt \in [Packets -> PktType]
      /\ pkt[p] \in PktType
  BY Typed DEF IInv
<1>2. RetryDpc(p) => OnePacket(p, "sent", pkt[p].irp)
  BY <1>1 DEF RetryDpc, OnePacket, PktType
<1>3. Unthrottle(p) => OnePacket(p, "freeing", pkt[p].irp)
  BY <1>1 DEF Unthrottle, OnePacket, PktType
<1>4. \A s \in PacketState : Packet(s).state = s /\ Packet(s).irp = NoReq
  BY PacketType
<1>5. ASSUME CountDown(p)
      PROVE  \/ OnePacket(p, "freeing", NoReq)
                  /\ ~ (pkt[p].irp \in Critical /\ req[pkt[p].irp].left = 1)
             \/ OnePacket(p, "unthrottling", NoReq)
                  /\ pkt[p].irp \in Critical /\ req[pkt[p].irp].left = 1
  <2> DEFINE last == req[pkt[p].irp].left = 1 /\ pkt[p].irp \in Critical
  <2>1. pkt' = [pkt EXCEPT ![p] =
                  Packet(IF last THEN "unthrottling" ELSE "freeing")]
    BY <1>5, Zenon DEF CountDown, Last
  <2>2. CASE last
    <3>1. pkt' = [pkt EXCEPT ![p] = Packet("unthrottling")]
      BY <2>1, <2>2, Zenon
    <3> QED
      BY <1>4, <2>2, <3>1, PacketChange DEF PacketState
  <2>3. CASE ~ last
    <3>1. pkt' = [pkt EXCEPT ![p] = Packet("freeing")]
      BY <2>1, <2>3, Zenon
    <3> QED
      BY <1>4, <2>3, <3>1, PacketChange DEF PacketState
  <2> QED
    BY <2>2, <2>3
<1>6. ASSUME Free(p)
      PROVE  \E s \in {"none", "free"} : OnePacket(p, s, NoReq)
  <2>1. PICK s \in {"none", "free"} : pkt' = [pkt EXCEPT ![p] = Packet(s)]
    BY <1>6, Zenon DEF Free, Freed
  <2> QED
    BY <1>4, <2>1, PacketChange DEF PacketState
<1> QED
  BY <1>2, <1>3, <1>5, <1>6

(***************************************************************************)
(* Who serves a request, waits for it, or has a packet of it               *)
(***************************************************************************)

LEMMA EndServiceEffect ==
  ASSUME NEW r, EndService(r)
  PROVE  /\ service' = [service EXCEPT ![r] = NoService]
         /\ \/ /\ service[r].post /\ ClassReleaseRemoveLock
               /\ UNCHANGED leaving
            \/ /\ ~ service[r].post /\ leaving' = leaving + 1
               /\ UNCHANGED lockVars
BY Zenon DEF EndService

LEMMA HeldNonEmpty ==
  ASSUME IInv, NEW r \in Reqs, service[r].pc = "send"
  PROVE  HeldFor(r) # {} /\ Cardinality(HeldFor(r)) \in Nat \ {0}
<1> DEFINE rest == req[r].transfer.length - service[r].at
           n == Cardinality(HeldFor(r))
           m == HwMax(req[r].transfer)
<1>1. rest > 0 /\ rest <= n * m
  BY DEF IInv, HeldSuffice
<1>2. n \in Nat
  BY Counts
<1>3. req[r].transfer \in Transfers
  BY DEF IInv, ServedActive
<1>4. m \in Nat
  BY <1>3, HwMaxFacts
<1>5. service[r].at \in Nat /\ req[r].transfer.length \in Nat
  BY <1>3, Typed, HwMaxFacts DEF IInv, ServiceType
<1>6. rest \in Int
  BY <1>5
<1> HIDE DEF rest, m, n
<1>7. n # 0
  BY <1>1, <1>2, <1>4, <1>6
<1> QED
  BY <1>2, <1>7, FS_EmptySet DEF n

\* The last piece is not counted while others are still to be sent.
LEMMA LastFacts ==
  ASSUME IInv, NEW p \in Packets, pkt[p].state = "counting",
         NEW r, r = pkt[p].irp, req[r].left = 1
  PROVE  service[r].pc = "none"
<1>1. r \in Reqs /\ p \in Uncounted(r)
  BY PieceFacts
<1>2. ASSUME service[r].pc = "send"
      PROVE  FALSE
  <2>1. PICK h \in HeldFor(r) : TRUE
    BY <1>1, <1>2, HeldNonEmpty
  <2>2. h \in Uncounted(r) /\ h # p
    BY <1>2, <2>1 DEF Uncounted, HeldFor, In
  <2>3. Cardinality(Uncounted(r)) = 1
    BY <1>1 DEF IInv, PiecesCounted
  <2> DEFINE U == Uncounted(r)
  <2>4. IsFiniteSet(U) /\ p \in U /\ h \in U \ {p} /\ Cardinality(U) = 1
    BY <1>1, <2>2, <2>3, Counts
  <2> HIDE DEF U
  <2>5. Cardinality(U \ {p}) = 0 /\ IsFiniteSet(U \ {p})
    BY <2>4, FS_RemoveElement, FS_Subset
  <2> QED
    BY <2>4, <2>5, NonEmpty
<1>3. service[r].pc \in {"none", "enter", "gather", "send", "defer"}
  BY <1>1, Typed DEF IInv, ServiceType
<1> QED
  BY <1>1, <1>2, <1>3 DEF IInv, ServedActive

LEMMA DeferredFacts ==
  ASSUME IInv, deferred # <<>>
  PROVE  /\ Head(deferred) \in Reqs
         /\ req[Head(deferred)].state = "active"
         /\ req[Head(deferred)].left = 0
         /\ service[Head(deferred)].pc = "none"
         /\ service[Head(deferred)] = NoService
<1>1. /\ deferred \in Seq(Reqs) /\ 1 \in DOMAIN deferred
      /\ Head(deferred) = deferred[1]
  BY DEF IInv, TypeOK
<1>2. deferred[1] \in Reqs
  BY <1>1
<1> QED
  BY <1>1, <1>2 DEF IInv, DeferredWaits, ServedActive

LEMMA ServedStep ==
  ASSUME IInv, [Next]_vars
  PROVE  ServedActive'
<1>inv. ServedActive
  BY DEF IInv
<1>srv. service \in [Reqs -> ServiceType]
  BY Typed DEF IInv
<1> USE DEF threadVars, throttleVars, NoService
<1>1. ASSUME NEW r \in Reqs, ClassReadWrite(r)
      PROVE  ServedActive'
  <2>1. /\ OthersSame(r) /\ req'[r].left = 0
        /\ service[r] = NoService
        /\ \/ UNCHANGED service
           \/ /\ req'[r].state = "active" /\ req'[r].transfer \in Transfers
              /\ service' = [service EXCEPT ![r].pc = "enter"]
        /\ req'[r].state = "active" => req'[r].transfer \in Transfers
    BY <1>1, ReadWriteEffect
  <2>2. /\ service[r].at = 0
        /\ \/ UNCHANGED service
           \/ /\ req'[r].state = "active"
              /\ service' = [service EXCEPT ![r].pc = "enter"]
    BY <1>1, ReadWriteEffect
  <2>3. /\ \A q \in Reqs : q # r => service'[q] = service[q]
        /\ \/ service'[r] = service[r]
           \/ /\ service'[r].pc = "enter" /\ service'[r].at = 0
              /\ req'[r].state = "active"
    BY <2>2, <1>srv DEF ServiceType
  <2> QED
    BY <2>1, <2>3, <1>inv DEF ServedActive, OthersSame, SameReq
<1>2. ASSUME NEW r \in Reqs, Serve(r)
      PROVE  ServedActive'
  <2>1. CASE Enter(r)
    BY <2>1, <1>inv, <1>srv DEF Enter, ServedActive, ServiceType
  <2>2. CASE Gather(r)
    <3>1. service' = [service EXCEPT ![r].pc = "send"] \/ UNCHANGED service
      BY <2>2, Zenon DEF Gather
    <3>2. /\ \/ UNCHANGED req
             \/ /\ service' = [service EXCEPT ![r].pc = "send"]
                /\ req' =
                     [req EXCEPT ![r] = Split(req[r], NumPackets(req[r].transfer))]
          /\ service[r].pc = "gather"
      BY <2>2, Zenon DEF Gather
    <3>3. req[r].state = "active" /\ req[r].transfer \in Transfers
      BY <3>2, <1>inv DEF ServedActive
    <3>4. \/ UNCHANGED req
          \/ /\ OthersSame(r) /\ req'[r].state = req[r].state
             /\ req'[r].transfer = req[r].transfer
      BY <3>2, <3>3, NumPacketsFacts, SplitEffect
    <3>5. UNCHANGED service => UNCHANGED req
      BY <3>2, <1>srv DEF ServiceType
    <3>6. CASE UNCHANGED service
      BY <3>5, <3>6, <1>inv DEF ServedActive
    <3>7. CASE service' = [service EXCEPT ![r].pc = "send"]
      <4>1. /\ \A q \in Reqs : q # r => service'[q] = service[q]
            /\ service'[r].pc = "send"
        BY <3>7, <1>srv DEF ServiceType
      <4>2. /\ \A q \in Reqs : q # r => SameReq(q)
            /\ req'[r].state = "active" /\ req'[r].transfer \in Transfers
        BY <3>3, <3>4 DEF OthersSame, SameReq
      <4> QED
        BY <4>1, <4>2, <1>inv DEF ServedActive, SameReq
    <3> QED
      BY <3>1, <3>6, <3>7
  <2>3. CASE GatherTooFew(r)
    <3>1. /\ /\ service[r].pc = "gather"
          /\ service' = [service EXCEPT ![r] = NoService]
          /\ req' = [req EXCEPT ![r] = Split(req[r], 1)]
      BY <2>3, EndServiceEffect DEF GatherTooFew
    <3>2. /\ OthersSame(r) /\ req'[r].state = req[r].state
          /\ req'[r].transfer = req[r].transfer
      BY <3>1, SplitEffect
    <3> QED
      BY <3>1, <3>2, <1>inv, <1>srv DEF ServedActive, OthersSame,
         SameReq
  <2>4. CASE GatherNone(r)
    BY <2>4, <1>inv, <1>srv DEF GatherNone, ServedActive, ServiceType
  <2>5. CASE Send(r)
    <3>1. /\ UNCHANGED req /\ service[r].pc = "send"
          /\ \/ service' = [service EXCEPT ![r] = NoService]
             \/ \E n : service' = [service EXCEPT ![r].at = n]
      BY <2>5, EndServiceEffect, Zenon DEF Send
    <3>2. /\ \A q \in Reqs : q # r => service'[q] = service[q]
          /\ service'[r] = NoService \/ service'[r].pc = "send"
      BY <3>1, <1>srv DEF ServiceType
    <3> QED
      BY <3>1, <3>2, <1>inv DEF ServedActive
  <2>6. CASE Defer(r)
    <3>1. /\ UNCHANGED req /\ service[r].pc = "defer"
          /\ service' = [service EXCEPT ![r] = NoService]
      BY <2>6, EndServiceEffect DEF Defer
    <3> QED
      BY <3>1, <1>inv, <1>srv DEF ServedActive
  <2> QED
    BY <1>2, <2>1, <2>2, <2>3, <2>4, <2>5, <2>6 DEF Serve
<1>3. ASSUME NEW p \in Packets, Returned(p)
      PROVE  ServedActive'
  <2>1. CASE Succeeded(p)
    <3>1. (\A q \in Reqs : SameReq(q)) /\ UNCHANGED service
      BY <2>1, ReturnedEffect DEF Returned
    <3> QED
      BY <3>1, <1>inv DEF ServedActive, SameReq
  <2>2. CASE FailedForGood(p)
    <3>1. (\A q \in Reqs : SameReq(q)) /\ UNCHANGED service
      BY <2>2, ReturnedEffect DEF Returned
    <3> QED
      BY <3>1, <1>inv DEF ServedActive, SameReq
  <2>3. CASE FailedOnce(p)
    <3>1. (\A q \in Reqs : SameReq(q)) /\ UNCHANGED service
      BY <2>3, ReturnedEffect DEF Returned
    <3> QED
      BY <3>1, <1>inv DEF ServedActive, SameReq
  <2>4. CASE FailedForMemory(p)
    <3>1. (\A q \in Reqs : SameReq(q)) /\ UNCHANGED service
      BY <2>4, ReturnedEffect DEF Returned
    <3> QED
      BY <3>1, <1>inv DEF ServedActive, SameReq
  <2> QED
    BY <1>3, <2>1, <2>2, <2>3, <2>4 DEF Returned
<1>4. ASSUME NEW p \in Packets, Finish(p)
      PROVE  ServedActive'
  <2>1. CASE RetryDpc(p)
    BY <2>1, <1>inv, <1>srv DEF RetryDpc, ServedActive
  <2>2. CASE CountDown(p)
    <3> DEFINE r == pkt[p].irp
    <3>1. /\ r \in Reqs /\ req[r].state = "active" /\ req[r].left # 0
          /\ OthersSame(r)
          /\ req'[r].left = req[r].left - 1
          /\ req[r].left = 1 => req'[r].state = "done"
          /\ req[r].left # 1 => /\ req'[r].state = "active"
                               /\ req'[r].transfer = req[r].transfer
          /\ req[r].left \in Nat /\ UNCHANGED service
      BY <2>2, CountDownEffect DEF CountDown
    <3>2. req[r].left = 1 => service[r].pc = "none"
      BY <2>2, LastFacts DEF CountDown
    <3> HIDE DEF r
    <3> QED
      BY <3>1, <3>2, <1>inv, <1>srv DEF ServedActive, OthersSame,
         SameReq
  <2>3. CASE Unthrottle(p)
    BY <2>3, <1>inv, <1>srv DEF Unthrottle, ServedActive
  <2>4. CASE Free(p)
    BY <2>4, <1>inv, <1>srv DEF Free, ServedActive
  <2> QED
    BY <1>4, <2>1, <2>2, <2>3, <2>4 DEF Finish
<1>5. CASE ServiceDeferred
  <2>1. /\ UNCHANGED req
        /\ \/ UNCHANGED service
           \/ /\ deferred # <<>>
              /\ service' = [service EXCEPT ![Head(deferred)] =
                                [pc |-> "enter", post |-> TRUE, at |-> 0]]
    BY <1>5, Zenon DEF ServiceDeferred
  <2> DEFINE r == Head(deferred)
  <2>2. deferred # <<>> =>
          r \in Reqs /\ req[r].state = "active" /\ req[r].left = 0
    BY DeferredFacts
  <2> HIDE DEF r
  <2>3. /\ UNCHANGED req
        /\ \/ UNCHANGED service
           \/ /\ deferred # <<>>
              /\ service' = [service EXCEPT ![r] =
                                [pc |-> "enter", post |-> TRUE, at |-> 0]]
    BY <2>1 DEF r
  <2>4. /\ \A q \in Reqs : q # r => service'[q] = service[q]
        /\ deferred # <<>> =>
             UNCHANGED service \/ service'[r] = [pc |-> "enter", post |-> TRUE, at |-> 0]
        /\ deferred = <<>> => UNCHANGED service
    BY <2>2, <2>3, <1>srv
  <2> QED
    BY <2>2, <2>3, <2>4, <1>inv DEF ServedActive
<1>6. CASE Leave
  BY <1>6, <1>inv, <1>srv DEF Leave, ServedActive
<1>7. CASE ClassRemoveDevice
  BY <1>7, <1>inv, <1>srv DEF ClassRemoveDevice, ServedActive
<1>8. CASE UNCHANGED vars
  BY <1>8, <1>inv, <1>srv DEF ServedActive, vars
<1> QED
  BY <1>1, <1>2, <1>3, <1>4, <1>5, <1>6, <1>7, <1>8 DEF Next, Work

OthersServed(r) == \A q \in Reqs : q # r => service'[q] = service[q]

LEMMA DeferredFrame ==
  ASSUME IInv, deferred' = deferred, NEW r, OthersSame(r), OthersServed(r),
         \/ req[r].state # "active" \/ req[r].left # 0 \/ service[r].pc # "none"
         \/ r \notin Reqs
         \/ SameReq(r) /\ service'[r] = service[r]
  PROVE  DeferredWaits'
<1>1. deferred \in Seq(Reqs) /\ DeferredWaits
  BY DEF IInv, TypeOK
<1>2. \A i \in DOMAIN deferred : deferred[i] \in Reqs
  BY <1>1
<1> QED
  BY <1>1, <1>2 DEF DeferredWaits, OthersSame, OthersServed, SameReq

LEMMA DeferredStep ==
  ASSUME IInv, [Next]_vars
  PROVE  DeferredWaits'
<1>inv. DeferredWaits
  BY DEF IInv
<1>srv. service \in [Reqs -> ServiceType]
  BY Typed DEF IInv
<1>def. deferred \in Seq(Reqs)
  BY DEF IInv, TypeOK
<1> USE DEF threadVars, throttleVars
<1>1. ASSUME NEW r \in Reqs, ClassReadWrite(r)
      PROVE  DeferredWaits'
  <2>1. /\ OthersSame(r) /\ req[r].state = "new"
        /\ \/ UNCHANGED service
           \/ service' = [service EXCEPT ![r].pc = "enter"]
    BY <1>1, ReadWriteEffect
  <2>2. OthersServed(r)
    BY <2>1, <1>srv DEF OthersServed
  <2>3. deferred' = deferred
    BY <1>1 DEF ClassReadWrite
  <2> QED
    BY <2>1, <2>2, <2>3, DeferredFrame
<1>2. ASSUME NEW r \in Reqs, Serve(r)
      PROVE  DeferredWaits'
  <2>1. CASE Enter(r)
    <3>1. /\ UNCHANGED req /\ service[r].pc # "none" /\ deferred' = deferred
          /\ service' = [service EXCEPT ![r].pc = IF Throttled(r) THEN "defer"
                                                            ELSE "gather"]
      BY <2>1 DEF Enter
    <3>2. OthersServed(r) /\ OthersSame(r)
      BY <3>1, <1>srv DEF OthersServed, OthersSame, SameReq
    <3> QED
      BY <3>1, <3>2, DeferredFrame
  <2>2. CASE Gather(r)
    <3>1. /\ service[r].pc = "gather" /\ deferred' = deferred
          /\ \/ UNCHANGED req
             \/ req' =
                  [req EXCEPT ![r] = Split(req[r], NumPackets(req[r].transfer))]
      BY <2>2, Zenon DEF Gather
    <3>2. /\ \/ UNCHANGED service
             \/ service' = [service EXCEPT ![r].pc = "send"]
      BY <2>2, EndServiceEffect, Zenon DEF Gather
    <3>3. req[r].transfer \in Transfers
      BY <3>1 DEF IInv, ServedActive
    <3>4. OthersSame(r)
      BY <3>1, <3>3, NumPacketsFacts, SplitEffect DEF OthersSame,
         SameReq
    <3>5. OthersServed(r)
      BY <3>2, <1>srv DEF OthersServed
    <3> QED
      BY <3>1, <3>4, <3>5, DeferredFrame
  <2>3. CASE GatherTooFew(r)
    <3>1. /\ service[r].pc = "gather" /\ deferred' = deferred
          /\ \/ UNCHANGED req
             \/ req' = [req EXCEPT ![r] = Split(req[r], 1)]
      BY <2>3, Zenon DEF GatherTooFew
    <3>2. /\ service' = [service EXCEPT ![r] = NoService]
      BY <2>3, EndServiceEffect, Zenon DEF GatherTooFew
    <3>3. req[r].transfer \in Transfers
      BY <3>1 DEF IInv, ServedActive
    <3>4. OthersSame(r)
      <4>1. CASE UNCHANGED req
        BY <4>1 DEF OthersSame, SameReq
      <4>2. CASE req' = [req EXCEPT ![r] = Split(req[r], 1)]
        BY <4>2, SplitEffect
      <4> QED
        BY <3>1, <4>1, <4>2
    <3>5. OthersServed(r)
      BY <3>2, <1>srv DEF OthersServed
    <3> QED
      BY <3>1, <3>4, <3>5, DeferredFrame
  <2>4. CASE GatherNone(r)
    <3>1. /\ UNCHANGED req /\ service[r].pc # "none" /\ deferred' = deferred
          /\ service' = [service EXCEPT ![r].pc = "defer"]
      BY <2>4 DEF GatherNone
    <3>2. OthersServed(r) /\ OthersSame(r)
      BY <3>1, <1>srv DEF OthersServed, OthersSame, SameReq
    <3> QED
      BY <3>1, <3>2, DeferredFrame
  <2>5. CASE Send(r)
    <3>1. /\ UNCHANGED req /\ service[r].pc # "none" /\ deferred' = deferred
          /\ \/ service' = [service EXCEPT ![r] = NoService]
             \/ \E n : service' = [service EXCEPT ![r].at = n]
      BY <2>5, EndServiceEffect, Zenon DEF Send
    <3>2. OthersServed(r) /\ OthersSame(r)
      BY <3>1, <1>srv DEF OthersServed, OthersSame, SameReq
    <3> QED
      BY <3>1, <3>2, DeferredFrame
  <2>6. CASE Defer(r)
    <3>1. /\ UNCHANGED req /\ service[r].pc = "defer"
          /\ deferred' = Append(deferred, r)
          /\ service' = [service EXCEPT ![r] = NoService]
      BY <2>6, EndServiceEffect DEF Defer
    <3>2. req[r].state = "active" /\ req[r].left = 0
      BY <3>1 DEF IInv, ServedActive
    <3>3. OthersServed(r) /\ service'[r].pc = "none"
      BY <3>1, <1>srv DEF OthersServed, NoService
    <3>4. \A j \in DOMAIN deferred : deferred[j] \in Reqs /\ deferred[j] # r
      BY <3>1, <1>inv, <1>def DEF DeferredWaits
    <3>5. /\ DOMAIN deferred' = 1 .. Len(deferred) + 1
          /\ DOMAIN deferred = 1 .. Len(deferred) /\ Len(deferred) \in Nat
          /\ deferred'[Len(deferred) + 1] = r
          /\ \A j \in DOMAIN deferred : deferred'[j] = deferred[j]
      BY <3>1, <1>def
    <3>6. \A j \in DOMAIN deferred' : j \in DOMAIN deferred \/ j = Len(deferred) + 1
      BY <3>5
    <3> QED
      BY <3>1, <3>2, <3>3, <3>4, <3>5, <3>6, <1>inv DEF DeferredWaits,
         OthersServed
  <2> QED
    BY <1>2, <2>1, <2>2, <2>3, <2>4, <2>5, <2>6 DEF Serve
<1>3. ASSUME NEW p \in Packets, Returned(p)
      PROVE  DeferredWaits'
  <2>1. CASE Succeeded(p)
    <3>1. /\ \A q \in Reqs : SameReq(q)
          /\ UNCHANGED service /\ deferred' = deferred
      BY <2>1, ReturnedEffect DEF Returned
    <3> QED
      BY <3>1, DeferredFrame DEF OthersSame, OthersServed
  <2>2. CASE FailedForGood(p)
    <3>1. /\ \A q \in Reqs : SameReq(q)
          /\ UNCHANGED service /\ deferred' = deferred
      BY <2>2, ReturnedEffect DEF Returned
    <3> QED
      BY <3>1, DeferredFrame DEF OthersSame, OthersServed
  <2>3. CASE FailedOnce(p)
    <3>1. /\ \A q \in Reqs : SameReq(q)
          /\ UNCHANGED service /\ deferred' = deferred
      BY <2>3, ReturnedEffect DEF Returned
    <3> QED
      BY <3>1, DeferredFrame DEF OthersSame, OthersServed
  <2>4. CASE FailedForMemory(p)
    <3>1. /\ \A q \in Reqs : SameReq(q)
          /\ UNCHANGED service /\ deferred' = deferred
      BY <2>4, ReturnedEffect DEF Returned
    <3> QED
      BY <3>1, DeferredFrame DEF OthersSame, OthersServed
  <2> QED
    BY <1>3, <2>1, <2>2, <2>3, <2>4 DEF Returned
<1>4. ASSUME NEW p \in Packets, Finish(p)
      PROVE  DeferredWaits'
  <2>1. CASE RetryDpc(p)
    BY <2>1, <1>inv DEF RetryDpc, DeferredWaits
  <2>2. CASE CountDown(p)
    <3>1. /\ OthersSame(pkt[p].irp) /\ req[pkt[p].irp].left # 0
          /\ UNCHANGED service /\ deferred' = deferred
      BY <2>2, CountDownEffect DEF CountDown
    <3> QED
      BY <3>1, DeferredFrame DEF OthersServed
  <2>3. CASE Unthrottle(p)
    BY <2>3, <1>inv DEF Unthrottle, DeferredWaits
  <2>4. CASE Free(p)
    BY <2>4, <1>inv DEF Free, DeferredWaits
  <2> QED
    BY <1>4, <2>1, <2>2, <2>3, <2>4 DEF Finish
<1>5. CASE ServiceDeferred
  <2>1. /\ UNCHANGED req
        /\ \/ UNCHANGED <<service, deferred>>
           \/ /\ deferred # <<>> /\ deferred' = Tail(deferred)
              /\ service' = [service EXCEPT ![Head(deferred)] =
                                [pc |-> "enter", post |-> TRUE, at |-> 0]]
    BY <1>5, Zenon DEF ServiceDeferred
  <2>2. CASE UNCHANGED <<service, deferred>>
    BY <2>1, <2>2, DeferredFrame DEF OthersSame, OthersServed, SameReq
  <2>3. CASE /\ deferred # <<>> /\ deferred' = Tail(deferred)
            /\ service' = [service EXCEPT ![Head(deferred)] =
                              [pc |-> "enter", post |-> TRUE, at |-> 0]]
    <3> DEFINE r == Head(deferred)
    <3>1. /\ 1 \in DOMAIN deferred /\ r = deferred[1]
          /\ \A j \in DOMAIN Tail(deferred) :
               /\ j + 1 \in DOMAIN deferred /\ j + 1 # 1 /\ j \in Nat
               /\ Tail(deferred)[j] = deferred[j + 1]
      BY <2>3, <1>def
    <3> HIDE DEF r
    <3>2. \A j \in DOMAIN deferred : deferred[j] \in Reqs
      BY <1>def
    <3>3. OthersServed(r)
      BY <2>3, <1>srv DEF OthersServed, r
    <3>4. \A j \in DOMAIN Tail(deferred) :
            Tail(deferred)[j] # r /\ Tail(deferred)[j] \in Reqs
      BY <3>1, <3>2, <1>inv DEF DeferredWaits
    <3>5. \A j, k \in DOMAIN Tail(deferred) :
            Tail(deferred)[j] = Tail(deferred)[k] => j = k
      BY <3>1, <1>inv DEF DeferredWaits
    <3> QED
      BY <2>1, <2>3, <3>1, <3>3, <3>4, <3>5, <1>inv DEF DeferredWaits,
         OthersServed
  <2> QED
    BY <2>1, <2>2, <2>3
<1>6. CASE Leave
  BY <1>6, <1>inv DEF Leave, DeferredWaits
<1>7. CASE ClassRemoveDevice
  BY <1>7, <1>inv DEF ClassRemoveDevice, DeferredWaits
<1>8. CASE UNCHANGED vars
  BY <1>8, <1>inv DEF vars, DeferredWaits
<1> QED
  BY <1>1, <1>2, <1>3, <1>4, <1>5, <1>6, <1>7, <1>8 DEF Next, Work

LEMMA OneLeft ==
  ASSUME NEW S, IsFiniteSet(S), NEW x \in S, Cardinality(S) = 1
  PROVE  S = {x}
<1>1. Cardinality(S \ {x}) = 0 /\ IsFiniteSet(S \ {x})
  BY FS_RemoveElement, FS_Subset
<1>2. S \ {x} = {}
  BY <1>1, FS_EmptySet
<1> QED
  BY <1>2

\* What is left of a request that is being sent, and the packets for it
LEMMA SendFacts ==
  ASSUME IInv, NEW r \in Reqs, service[r].pc = "send",
         NEW rest, rest = req[r].transfer.length - service[r].at,
         NEW m, m = HwMax(req[r].transfer),
         NEW n, n = Cardinality(HeldFor(r))
  PROVE  /\ rest \in Nat \ {0} /\ m \in Nat \ {0} /\ n \in Nat \ {0}
         /\ service[r].at \in Nat /\ req[r].transfer.length \in Nat
         /\ (n - 1) * m < rest /\ rest <= n * m
         /\ rest <= m <=> n = 1
<1>1. rest > 0 /\ (n - 1) * m < rest /\ rest <= n * m
  BY DEF IInv, HeldSuffice
<1>2. n \in Nat \ {0}
  BY HeldNonEmpty
<1>3. req[r].transfer \in Transfers
  BY DEF IInv, ServedActive
<1>4. m \in Nat \ {0}
  BY <1>3, HwMaxFacts
<1>5. service[r].at \in Nat /\ req[r].transfer.length \in Nat
  BY <1>3, Typed, HwMaxFacts DEF IInv, ServiceType
<1>6. rest \in Nat \ {0}
  BY <1>1, <1>5
<1>7. ASSUME rest <= m
      PROVE  n = 1
  <2>1. CASE n >= 2
    <3>1. (n - 2) * m >= 0 /\ (n - 1) * m = (n - 2) * m + m
      BY <1>2, <1>4, <2>1
    <3> QED
      BY <1>1, <1>2, <1>4, <1>6, <1>7, <3>1
  <2> QED
    BY <1>2, <2>1
<1>8. n = 1 => rest <= m
  BY <1>1, <1>4, <1>6
<1> QED
  BY <1>1, <1>2, <1>4, <1>5, <1>6, <1>7, <1>8

\* Send gives up the service of the request together with its last packet.
LEMMA SendEffect2 ==
  ASSUME IInv, NEW r \in Reqs, Send(r)
  PROVE  /\ service[r].pc = "send" /\ UNCHANGED <<req, deferred, finishing,
                                                  critical, interleave>>
         /\ \/ /\ Cardinality(HeldFor(r)) = 1 /\ EndService(r)
            \/ /\ Cardinality(HeldFor(r)) # 1
               /\ service' =
                      [service EXCEPT ![r].at = @ + HwMax(req[r].transfer)]
               /\ UNCHANGED <<leaving, lockVars>>
<1> DEFINE at == service[r].at
           rest == req[r].transfer.length - at
           m == HwMax(req[r].transfer)
           n == Cardinality(HeldFor(r))
           len == Min(m, rest)
<1>1. /\ service[r].pc = "send"
      /\ UNCHANGED <<req, deferred, finishing, critical, interleave>>
  BY DEF Send, throttleVars
<1>2. IF at + len = req[r].transfer.length
        THEN EndService(r)
        ELSE /\ service' = [service EXCEPT ![r].at = at + len]
             /\ UNCHANGED <<leaving, lockVars>>
  BY Zenon DEF Send
<1>3. /\ rest \in Nat \ {0} /\ m \in Nat \ {0} /\ n \in Nat \ {0} /\ at \in Nat
      /\ req[r].transfer.length \in Nat /\ (rest <= m <=> n = 1)
  BY <1>1, SendFacts
<1> DEFINE l == req[r].transfer.length
<1>4. rest = l - at /\ l \in Nat
  BY <1>3
<1> HIDE DEF l, rest, m, n
<1>5. len = IF m < rest THEN m ELSE rest
  BY DEF Min
<1>6. at + len = l <=> n = 1
  BY <1>3, <1>4, <1>5
<1>7. n # 1 => len = m
  BY <1>3, <1>4, <1>5
<1> HIDE DEF len, at
<1>8. CASE n = 1
  BY <1>1, <1>2, <1>6, <1>8 DEF n, l
<1>9. CASE n # 1
  <2>1. /\ service' = [service EXCEPT ![r].at = at + m]
        /\ UNCHANGED <<leaving, lockVars>>
    BY <1>2, <1>6, <1>7, <1>9 DEF l
  <2> QED
    BY <1>1, <1>9, <2>1, Zenon DEF n, m, at
<1> QED
  BY <1>8, <1>9

\* GatherTooFew keeps one of the packets.
LEMMA TooFewEffect ==
  ASSUME IInv, NEW r \in Reqs, GatherTooFew(r)
  PROVE  \E keep \in HeldFor(r) :
           /\ pkt'[keep].state = "queued" /\ pkt'[keep].irp = r
           /\ \A k \in HeldFor(r) :
                k # keep => pkt'[k].state = "free" /\ pkt'[k].irp = NoReq
           /\ \A k \in Packets : k \notin HeldFor(r) => pkt'[k] = pkt[k]
<1> DEFINE x == Chunk(r, 0, req[r].transfer.length)
<1>1. PICK keep \in HeldFor(r) :
        pkt' = [k \in Packets |->
                  IF k = keep THEN x
                  ELSE IF k \in HeldFor(r) THEN Packet("free") ELSE pkt[k]]
  BY Zenon DEF GatherTooFew
<1>2. req[r].transfer \in Transfers
  BY DEF GatherTooFew, IInv, ServedActive
<1>3. x.state = "queued" /\ x.irp = r
  <2>1. req[r].transfer.length \in Nat
    BY <1>2, HwMaxFacts
  <2>2. 0 \in Nat
    OBVIOUS
  <2> QED
    BY <1>2, <2>1, <2>2, ChunkType
<1>4. Packet("free").state = "free" /\ Packet("free").irp = NoReq
  BY DEF Packet, IdlePacket
<1>5. HeldFor(r) \subseteq Packets
  BY DEF HeldFor, In
<1> HIDE DEF x
<1> QED
  BY <1>1, <1>3, <1>4, <1>5

LEMMA OwnedStep ==
  ASSUME IInv, [Next]_vars
  PROVE  PacketsOwned'
<1>inv. PacketsOwned
  BY DEF IInv
<1>srv. service \in [Reqs -> ServiceType]
  BY Typed DEF IInv
<1>pkt. pkt \in [Packets -> PktType]
  BY Typed DEF IInv
<1>no. NoReq \notin Reqs
  BY XferAssumption
<1> USE DEF threadVars, throttleVars
<1>1. ASSUME NEW r \in Reqs, ClassReadWrite(r)
      PROVE  PacketsOwned'
  <2>1. /\ service[r].pc = "none"
        /\ \/ UNCHANGED service
           \/ service' = [service EXCEPT ![r].pc = "enter"]
    BY <1>1, ReadWriteEffect DEF NoService
  <2>2. OthersServed(r)
    BY <2>1, <1>srv DEF OthersServed
  <2>3. pkt' = pkt
    BY <1>1 DEF ClassReadWrite
  <2> QED
    BY <2>1, <2>2, <2>3, <1>inv DEF PacketsOwned, OthersServed
<1>2. ASSUME NEW r \in Reqs, Serve(r)
      PROVE  PacketsOwned'
  <2>1. CASE Enter(r)
    <3>1. /\ UNCHANGED pkt /\ service[r].pc \notin {"gather", "send"}
          /\ service' = [service EXCEPT ![r].pc = IF Throttled(r) THEN "defer"
                                                            ELSE "gather"]
      BY <2>1 DEF Enter
    <3>2. OthersServed(r)
      BY <3>1, <1>srv DEF OthersServed
    <3> QED
      BY <3>1, <3>2, <1>inv DEF PacketsOwned, OthersServed
  <2>2. CASE Gather(r)
    <3>1. /\ service[r].pc = "gather"
          /\ \/ UNCHANGED service
             \/ service' = [service EXCEPT ![r].pc = "send"]
      BY <2>2, Zenon DEF Gather
    <3>2. OthersServed(r) /\ service'[r].pc \in {"gather", "send"}
      BY <3>1, <1>srv DEF OthersServed, ServiceType
    <3>3. PICK h \in Packets : OnePacket(h, "held", r)
      BY <2>2, GatherEffect DEF Available, In
    <3> QED
      BY <3>2, <3>3, <1>inv DEF PacketsOwned, OthersServed, OnePacket
  <2>3. CASE GatherTooFew(r)
    <3>1. service' = [service EXCEPT ![r] = NoService]
      BY <2>3, EndServiceEffect DEF GatherTooFew
    <3>2. OthersServed(r)
      BY <3>1, <1>srv DEF OthersServed
    <3>3. PICK keep \in HeldFor(r) :
            /\ pkt'[keep].state = "queued" /\ pkt'[keep].irp = r
            /\ \A k \in HeldFor(r) : k # keep => pkt'[k].state = "free"
            /\ \A k \in Packets : k \notin HeldFor(r) => pkt'[k] = pkt[k]
      BY <2>3, TooFewEffect
    <3>4. \A k \in Packets : pkt[k].state = "held" /\ pkt[k].irp = r =>
            k \in HeldFor(r)
      BY DEF HeldFor, In
    <3> QED
      BY <3>2, <3>3, <3>4, <1>inv DEF PacketsOwned, OthersServed
  <2>4. CASE GatherNone(r)
    <3>1. /\ UNCHANGED pkt /\ HeldFor(r) = {}
          /\ service' = [service EXCEPT ![r].pc = "defer"]
      BY <2>4 DEF GatherNone
    <3>2. OthersServed(r)
      BY <3>1, <1>srv DEF OthersServed
    <3>3. \A k \in Packets : ~ (pkt[k].state = "held" /\ pkt[k].irp = r)
      BY <3>1 DEF HeldFor, In
    <3> QED
      BY <3>1, <3>2, <3>3, <1>inv DEF PacketsOwned, OthersServed
  <2>5. CASE Send(r)
    <3>1. PICK h \in HeldFor(r), x \in {"queued", "sent"} : OnePacket(h, x, r)
      BY <2>5, SendEffect
    <3>2. /\ h \in Packets
          /\ \A k \in Packets : pkt[k].state = "held" /\ pkt[k].irp = r =>
               k \in HeldFor(r)
      BY <3>1 DEF HeldFor, In
    <3>3. /\ service[r].pc = "send"
          /\ \/ /\ Cardinality(HeldFor(r)) = 1
                /\ service' = [service EXCEPT ![r] = NoService]
             \/ \E n : service' = [service EXCEPT ![r].at = n]
      BY <2>5, SendEffect2, EndServiceEffect, Zenon
    <3>4. Cardinality(HeldFor(r)) = 1 => HeldFor(r) = {h}
      BY <3>1, Counts, OneLeft
    <3>5. /\ OthersServed(r)
          /\ service'[r].pc = "send" \/ Cardinality(HeldFor(r)) = 1
      BY <3>3, <1>srv DEF OthersServed, ServiceType
    <3>6. /\ pkt'[h].irp = r /\ pkt'[h].state # "held"
          /\ \A k \in Packets : k # h => pkt'[k] = pkt[k]
      BY <3>1 DEF OnePacket
    <3>7. \A k \in Packets :
            pkt'[k].state = "held" /\ pkt'[k].irp = r =>
              service'[r].pc = "send"
      BY <3>2, <3>4, <3>5, <3>6
    <3> QED
      BY <3>2, <3>5, <3>6, <3>7, <1>inv DEF PacketsOwned, OthersServed
  <2>6. CASE Defer(r)
    <3>1. /\ UNCHANGED pkt /\ service[r].pc \notin {"gather", "send"}
          /\ service' = [service EXCEPT ![r] = NoService]
      BY <2>6, EndServiceEffect DEF Defer
    <3>2. OthersServed(r)
      BY <3>1, <1>srv DEF OthersServed
    <3> QED
      BY <3>1, <3>2, <1>inv DEF PacketsOwned, OthersServed
  <2> QED
    BY <1>2, <2>1, <2>2, <2>3, <2>4, <2>5, <2>6 DEF Serve
<1>3. ASSUME NEW p \in Packets, Returned(p)
      PROVE  PacketsOwned'
  <2>1. CASE Succeeded(p)
    <3>1. /\ UNCHANGED service /\ pkt[p].state = "sent"
          /\ \/ OnePacket(p, "queued", pkt[p].irp)
             \/ OnePacket(p, "counting", pkt[p].irp)
      BY <2>1, ReturnedEffect DEF Returned
    <3> QED
      BY <3>1, <1>inv DEF PacketsOwned, OnePacket
  <2>2. CASE FailedForGood(p)
    <3>1. /\ UNCHANGED service /\ pkt[p].state = "sent"
          /\ \/ OnePacket(p, "queued", pkt[p].irp)
             \/ OnePacket(p, "counting", pkt[p].irp)
      BY <2>2, ReturnedEffect DEF Returned
    <3> QED
      BY <3>1, <1>inv DEF PacketsOwned, OnePacket
  <2>3. CASE FailedOnce(p)
    <3>1. /\ UNCHANGED service /\ pkt[p].state = "sent"
          /\ \/ OnePacket(p, "queued", pkt[p].irp)
             \/ OnePacket(p, "counting", pkt[p].irp)
      BY <2>3, ReturnedEffect DEF Returned
    <3> QED
      BY <3>1, <1>inv DEF PacketsOwned, OnePacket
  <2>4. CASE FailedForMemory(p)
    <3>1. /\ UNCHANGED service /\ pkt[p].state = "sent"
          /\ \/ OnePacket(p, "queued", pkt[p].irp)
             \/ OnePacket(p, "counting", pkt[p].irp)
      BY <2>4, ReturnedEffect DEF Returned
    <3> QED
      BY <3>1, <1>inv DEF PacketsOwned, OnePacket
  <2> QED
    BY <1>3, <2>1, <2>2, <2>3, <2>4 DEF Returned
<1>4. ASSUME NEW p \in Packets, Finish(p)
      PROVE  PacketsOwned'
  <2>1. CASE RetryDpc(p)
    <3>1. /\ UNCHANGED service
          /\ OnePacket(p, "sent", pkt[p].irp)
      BY <2>1, FinishEffect DEF RetryDpc
    <3>2. pkt[p].state = "queued"
      BY <2>1 DEF RetryDpc
    <3> QED
      BY <3>1, <3>2, <1>inv DEF PacketsOwned, OnePacket
  <2>2. CASE CountDown(p)
    <3>1. /\ UNCHANGED service
          /\ \E x \in {"unthrottling", "freeing", "none", "free"} :
               \E q : OnePacket(p, x, q)
      BY <2>2, FinishEffect DEF CountDown
    <3> QED
      BY <3>1, <1>inv DEF PacketsOwned, OnePacket
  <2>3. CASE Unthrottle(p)
    <3>1. /\ UNCHANGED service
          /\ \E x \in {"unthrottling", "freeing", "none", "free"} :
               \E q : OnePacket(p, x, q)
      BY <2>3, FinishEffect DEF Unthrottle
    <3> QED
      BY <3>1, <1>inv DEF PacketsOwned, OnePacket
  <2>4. CASE Free(p)
    <3>1. /\ UNCHANGED service
          /\ \E x \in {"unthrottling", "freeing", "none", "free"} :
               \E q : OnePacket(p, x, q)
      BY <2>4, FinishEffect DEF Free
    <3> QED
      BY <3>1, <1>inv DEF PacketsOwned, OnePacket
  <2> QED
    BY <1>4, <2>1, <2>2, <2>3, <2>4 DEF Finish
<1>5. CASE ServiceDeferred
  <2>1. /\ UNCHANGED pkt
        /\ \/ UNCHANGED service
           \/ /\ deferred # <<>>
              /\ service' = [service EXCEPT ![Head(deferred)] =
                                [pc |-> "enter", post |-> TRUE, at |-> 0]]
    BY <1>5, Zenon DEF ServiceDeferred
  <2> DEFINE r == Head(deferred)
  <2>2. deferred # <<>> => service[r].pc = "none"
    BY DeferredFacts
  <2>3. /\ OthersServed(r) /\ (deferred = <<>> => UNCHANGED service)
    BY <2>1, <1>srv DEF OthersServed
  <2> HIDE DEF r
  <2> QED
    BY <2>1, <2>2, <2>3, <1>inv DEF PacketsOwned, OthersServed
<1>6. CASE Leave
  BY <1>6, <1>inv DEF Leave, PacketsOwned
<1>7. CASE ClassRemoveDevice
  <2>1. /\ UNCHANGED service
        /\ \A k \in Packets : pkt'[k] = pkt[k] \/ pkt'[k] = Packet("none")
    BY <1>7 DEF ClassRemoveDevice
  <2>2. Packet("none").state = "none"
    BY DEF Packet, IdlePacket
  <2> QED
    BY <2>1, <2>2, <1>inv DEF PacketsOwned
<1>8. CASE UNCHANGED vars
  BY <1>8, <1>inv DEF vars, PacketsOwned
<1> QED
  BY <1>1, <1>2, <1>3, <1>4, <1>5, <1>6, <1>7, <1>8 DEF Next, Work

(***************************************************************************)
(* The packets of a request that is being sent                             *)
(***************************************************************************)

Suffices(r) ==
  service[r].pc = "send" =>
    LET rest == req[r].transfer.length - service[r].at
        max == HwMax(req[r].transfer)
        n == Cardinality(HeldFor(r))
    IN  rest > 0 /\ (n - 1) * max < rest /\ rest <= n * max

LEMMA HeldSame ==
  ASSUME NEW q, NEW p \in Packets, NEW s, NEW r, OnePacket(p, s, r),
         p \notin HeldFor(q), s # "held" \/ r # q
  PROVE  HeldFor(q)' = HeldFor(q)
BY DEF HeldFor, In, OnePacket

LEMMA SufficesFrame ==
  ASSUME HeldSuffice, NEW q \in Reqs,
         \/ service'[q].pc # "send"
         \/ /\ service'[q] = service[q] /\ SameReq(q)
            /\ HeldFor(q)' = HeldFor(q)
  PROVE  Suffices(q)'
BY DEF HeldSuffice, Suffices, SameReq

LEMMA SufficesStep ==
  ASSUME IInv, [Next]_vars
  PROVE  HeldSuffice'
<1>inv. HeldSuffice
  BY DEF IInv
<1>srv. service \in [Reqs -> ServiceType]
  BY Typed DEF IInv
<1>all. ASSUME \A q \in Reqs : Suffices(q)'
        PROVE  HeldSuffice'
  BY <1>all DEF HeldSuffice, Suffices
<1>same. UNCHANGED pkt => \A q : HeldFor(q)' = HeldFor(q)
  BY DEF HeldFor, In
<1> USE DEF threadVars, throttleVars
<1>1. ASSUME NEW r \in Reqs, ClassReadWrite(r)
      PROVE  HeldSuffice'
  <2>1. /\ OthersSame(r) /\ service[r].pc = "none"
        /\ \/ UNCHANGED service
           \/ service' = [service EXCEPT ![r].pc = "enter"]
    BY <1>1, ReadWriteEffect DEF NoService
  <2>2. OthersServed(r) /\ service'[r].pc # "send"
    BY <2>1, <1>srv DEF OthersServed, ServiceType
  <2>3. UNCHANGED pkt
    BY <1>1 DEF ClassReadWrite
  <2> QED
    BY <2>1, <2>2, <2>3, <1>same, <1>inv, <1>all, SufficesFrame DEF
       OthersSame, OthersServed
<1>2. ASSUME NEW r \in Reqs, Serve(r)
      PROVE  HeldSuffice'
  <2>1. CASE Enter(r)
    <3>1. /\ UNCHANGED <<req, pkt>>
          /\ service' = [service EXCEPT ![r].pc = IF Throttled(r) THEN "defer"
                                                            ELSE "gather"]
      BY <2>1 DEF Enter
    <3>2. OthersServed(r) /\ service'[r].pc # "send"
      BY <3>1, <1>srv DEF OthersServed, NoService, ServiceType
    <3> QED
      BY <3>1, <3>2, <1>same, <1>inv, <1>all, SufficesFrame DEF
         OthersServed, SameReq
  <2>2. CASE Gather(r)
    <3> DEFINE need == NumPackets(req[r].transfer)
               n == Cardinality(HeldFor(r))
    <3>1. /\ service[r].pc = "gather"
          /\ \/ UNCHANGED <<req, service>>
             \/ /\ n + 1 = need
                /\ service' = [service EXCEPT ![r].pc = "send"]
                /\ req' = [req EXCEPT ![r] = Split(req[r], need)]
      BY <2>2, Zenon DEF Gather
    <3>2. req[r].transfer \in Transfers /\ service[r].at = 0
      BY <3>1 DEF IInv, ServedActive
    <3>3. /\ /\ need \in Nat \ {0}
          /\ (need - 1) * HwMax(req[r].transfer) < req[r].transfer.length
          /\ req[r].transfer.length <= need * HwMax(req[r].transfer)
          /\ req[r].transfer.length \in Nat \ {0}
      BY <3>2, NumPacketsFacts, HwMaxFacts
    <3> HIDE DEF need
    <3>4. OthersSame(r) /\ req'[r].transfer = req[r].transfer
      BY <3>1, <3>3, SplitEffect DEF OthersSame, SameReq
    <3>5. OthersServed(r) /\ service'[r].at = 0
      BY <3>1, <3>2, <1>srv DEF OthersServed, ServiceType
    <3>6. PICK h \in Available : OnePacket(h, "held", r)
      BY <2>2, GatherEffect
    <3>7. h \in Packets /\ \A q : h \notin HeldFor(q)
      BY <3>6 DEF Available, In, HeldFor
    <3>8. \A q \in Reqs : q # r => HeldFor(q)' = HeldFor(q)
      BY <3>6, <3>7, HeldSame
    <3>9. HeldFor(r)' = HeldFor(r) \cup {h}
      BY <3>6, <3>7 DEF HeldFor, In, OnePacket
    <3>10. Cardinality(HeldFor(r)') = n + 1
      BY <3>7, <3>9, Counts, FS_AddElement
    <3>11. Suffices(r)'
      <4>1. CASE UNCHANGED <<req, service>>
        BY <3>1, <4>1 DEF Suffices
      <4>2. CASE n + 1 = need
        BY <3>3, <3>4, <3>5, <3>10, <4>2 DEF Suffices
      <4> QED
        BY <3>1, <4>1, <4>2
    <3> QED
      BY <3>4, <3>5, <3>8, <3>11, <1>inv, <1>all, SufficesFrame DEF
         OthersSame, OthersServed
  <2>3. CASE GatherTooFew(r)
    <3>1. /\ service' = [service EXCEPT ![r] = NoService]
          /\ service[r].pc = "gather"
          /\ req' = [req EXCEPT ![r] = Split(req[r], 1)]
      BY <2>3, EndServiceEffect DEF GatherTooFew
    <3>2. /\ OthersServed(r) /\ service'[r].pc # "send"
          /\ OthersSame(r)
      BY <3>1, <1>srv, SplitEffect DEF OthersServed, NoService
    <3>3. PICK keep \in HeldFor(r) :
            /\ pkt'[keep].state = "queued" /\ pkt'[keep].irp = r
            /\ \A k \in HeldFor(r) : k # keep => pkt'[k].state = "free"
            /\ \A k \in Packets : k \notin HeldFor(r) => pkt'[k] = pkt[k]
      BY <2>3, TooFewEffect
    <3>4. \A q \in Reqs : q # r => HeldFor(q)' = HeldFor(q)
      BY <3>3 DEF HeldFor, In
    <3> QED
      BY <3>2, <3>4, <1>inv, <1>all, SufficesFrame DEF OthersServed,
         OthersSame
  <2>4. CASE GatherNone(r)
    <3>1. /\ UNCHANGED <<req, pkt>>
          /\ service' = [service EXCEPT ![r].pc = "defer"]
      BY <2>4 DEF GatherNone
    <3>2. OthersServed(r) /\ service'[r].pc # "send"
      BY <3>1, <1>srv DEF OthersServed, NoService, ServiceType
    <3> QED
      BY <3>1, <3>2, <1>same, <1>inv, <1>all, SufficesFrame DEF
         OthersServed, SameReq
  <2>5. CASE Send(r)
    <3> DEFINE rest == req[r].transfer.length - service[r].at
               m == HwMax(req[r].transfer)
               n == Cardinality(HeldFor(r))
    <3>1. PICK h \in HeldFor(r), x \in {"queued", "sent"} : OnePacket(h, x, r)
      BY <2>5, SendEffect
    <3>2. h \in Packets /\ \A q : q # r => h \notin HeldFor(q)
      BY <3>1 DEF HeldFor, In
    <3>3. /\ UNCHANGED req /\ service[r].pc = "send"
          /\ \/ n = 1 /\ service' = [service EXCEPT ![r] = NoService]
             \/ n # 1 /\ service' = [service EXCEPT ![r].at = @ + m]
      BY <2>5, SendEffect2, EndServiceEffect
    <3>4. /\ rest \in Nat \ {0} /\ m \in Nat \ {0} /\ n \in Nat \ {0}
          /\ service[r].at \in Nat /\ req[r].transfer.length \in Nat
          /\ (n - 1) * m < rest /\ rest <= n * m
          /\ rest <= m <=> n = 1
      BY <3>3, SendFacts
    <3>5. HeldFor(r)' = HeldFor(r) \ {h}
      BY <3>1, <3>2 DEF HeldFor, In, OnePacket
    <3>6. Cardinality(HeldFor(r)') = n - 1
      BY <3>1, <3>5, Counts, FS_RemoveElement
    <3>7. \A q \in Reqs : q # r => HeldFor(q)' = HeldFor(q)
      BY <3>1, <3>2, HeldSame
    <3>8. OthersServed(r)
      BY <3>3, <1>srv DEF OthersServed
    <3>9. Suffices(r)'
      <4>1. CASE n = 1
        BY <3>3, <4>1, <1>srv DEF Suffices, NoService
      <4>2. CASE n # 1
        <5>1. service'[r].at = service[r].at + m
          BY <3>3, <1>srv, <4>2 DEF ServiceType
        <5> DEFINE at == service[r].at
                   l == req[r].transfer.length
        <5>2. at \in Nat /\ l \in Nat /\ rest = l - at
          BY <3>4
        <5>3. /\ HwMax(req'[r].transfer) = m /\ req'[r].transfer.length = l
          BY <3>3
        <5> HIDE DEF at, l, n, m, rest
        <5>4. /\ (n - 1 - 1) * m = (n - 1) * m - m
              /\ n * m = (n - 1) * m + m
          BY <3>4
        <5>5. /\ l - (at + m) > 0
              /\ (n - 1 - 1) * m < l - (at + m)
              /\ l - (at + m) <= (n - 1) * m
          BY <3>4, <4>2, <5>2, <5>4
        <5> QED
          BY <3>6, <5>1, <5>3, <5>5 DEF Suffices, at, l
      <4> QED
        BY <4>1, <4>2
    <3> QED
      BY <3>3, <3>7, <3>8, <3>9, <1>inv, <1>all, SufficesFrame DEF
         OthersServed, SameReq
  <2>6. CASE Defer(r)
    <3>1. /\ UNCHANGED <<req, pkt>>
          /\ service' = [service EXCEPT ![r] = NoService]
      BY <2>6, EndServiceEffect DEF Defer
    <3>2. OthersServed(r) /\ service'[r].pc # "send"
      BY <3>1, <1>srv DEF OthersServed, NoService, ServiceType
    <3> QED
      BY <3>1, <3>2, <1>same, <1>inv, <1>all, SufficesFrame DEF
         OthersServed, SameReq
  <2> QED
    BY <1>2, <2>1, <2>2, <2>3, <2>4, <2>5, <2>6 DEF Serve
<1>3. ASSUME NEW p \in Packets, Returned(p)
      PROVE  HeldSuffice'
  <2>1. CASE Succeeded(p)
    <3>1. /\ UNCHANGED service /\ pkt[p].state = "sent"
          /\ \A q \in Reqs : SameReq(q)
          /\ \/ OnePacket(p, "queued", pkt[p].irp)
             \/ OnePacket(p, "counting", pkt[p].irp)
      BY <2>1, ReturnedEffect DEF Returned
    <3>2. \A q : HeldFor(q)' = HeldFor(q)
      BY <3>1, HeldSame DEF HeldFor, In
    <3> QED
      BY <3>1, <3>2, <1>inv, <1>all, SufficesFrame
  <2>2. CASE FailedForGood(p)
    <3>1. /\ UNCHANGED service /\ pkt[p].state = "sent"
          /\ \A q \in Reqs : SameReq(q)
          /\ \/ OnePacket(p, "queued", pkt[p].irp)
             \/ OnePacket(p, "counting", pkt[p].irp)
      BY <2>2, ReturnedEffect DEF Returned
    <3>2. \A q : HeldFor(q)' = HeldFor(q)
      BY <3>1, HeldSame DEF HeldFor, In
    <3> QED
      BY <3>1, <3>2, <1>inv, <1>all, SufficesFrame
  <2>3. CASE FailedOnce(p)
    <3>1. /\ UNCHANGED service /\ pkt[p].state = "sent"
          /\ \A q \in Reqs : SameReq(q)
          /\ \/ OnePacket(p, "queued", pkt[p].irp)
             \/ OnePacket(p, "counting", pkt[p].irp)
      BY <2>3, ReturnedEffect DEF Returned
    <3>2. \A q : HeldFor(q)' = HeldFor(q)
      BY <3>1, HeldSame DEF HeldFor, In
    <3> QED
      BY <3>1, <3>2, <1>inv, <1>all, SufficesFrame
  <2>4. CASE FailedForMemory(p)
    <3>1. /\ UNCHANGED service /\ pkt[p].state = "sent"
          /\ \A q \in Reqs : SameReq(q)
          /\ \/ OnePacket(p, "queued", pkt[p].irp)
             \/ OnePacket(p, "counting", pkt[p].irp)
      BY <2>4, ReturnedEffect DEF Returned
    <3>2. \A q : HeldFor(q)' = HeldFor(q)
      BY <3>1, HeldSame DEF HeldFor, In
    <3> QED
      BY <3>1, <3>2, <1>inv, <1>all, SufficesFrame
  <2> QED
    BY <1>3, <2>1, <2>2, <2>3, <2>4 DEF Returned
<1>4. ASSUME NEW p \in Packets, Finish(p)
      PROVE  HeldSuffice'
  <2>1. CASE RetryDpc(p)
    <3>1. /\ UNCHANGED service /\ pkt[p].state # "held"
          /\ \E x \in {"sent", "unthrottling", "freeing", "none", "free"} :
               \E q : OnePacket(p, x, q)
      BY <2>1, FinishEffect DEF RetryDpc
    <3>2. \A q : p \notin HeldFor(q)
      BY <3>1 DEF HeldFor, In
    <3>3. \A q : HeldFor(q)' = HeldFor(q)
      BY <3>1, <3>2, HeldSame
    <3>4. \A q \in Reqs : SameReq(q)
      BY <2>1 DEF RetryDpc, SameReq
    <3> QED
      BY <3>1, <3>3, <3>4, <1>inv, <1>all, SufficesFrame
  <2>2. CASE CountDown(p)
    <3>1. /\ UNCHANGED service /\ pkt[p].state # "held"
          /\ \E x \in {"sent", "unthrottling", "freeing", "none", "free"} :
               \E q : OnePacket(p, x, q)
      BY <2>2, FinishEffect DEF CountDown
    <3>2. \A q : p \notin HeldFor(q)
      BY <3>1 DEF HeldFor, In
    <3>3. \A q : HeldFor(q)' = HeldFor(q)
      BY <3>1, <3>2, HeldSame
    <3> DEFINE r == pkt[p].irp
    <3>4. /\ OthersSame(r) /\ req[r].left \in Nat \ {0}
          /\ req[r].left = 1 => service[r].pc = "none"
          /\ req[r].left # 1 => req'[r].transfer = req[r].transfer
      BY <2>2, CountDownEffect, LastFacts DEF CountDown
    <3> HIDE DEF r
    <3>5. \A q \in Reqs : Suffices(q)'
      BY <3>1, <3>3, <3>4, <1>inv DEF OthersSame, SameReq, HeldSuffice,
         Suffices
    <3> QED
      BY <3>5, <1>all
  <2>3. CASE Unthrottle(p)
    <3>1. /\ UNCHANGED service /\ pkt[p].state # "held"
          /\ \E x \in {"sent", "unthrottling", "freeing", "none", "free"} :
               \E q : OnePacket(p, x, q)
      BY <2>3, FinishEffect DEF Unthrottle
    <3>2. \A q : p \notin HeldFor(q)
      BY <3>1 DEF HeldFor, In
    <3>3. \A q : HeldFor(q)' = HeldFor(q)
      BY <3>1, <3>2, HeldSame
    <3>4. \A q \in Reqs : SameReq(q)
      BY <2>3 DEF Unthrottle, SameReq
    <3> QED
      BY <3>1, <3>3, <3>4, <1>inv, <1>all, SufficesFrame
  <2>4. CASE Free(p)
    <3>1. /\ UNCHANGED service /\ pkt[p].state # "held"
          /\ \E x \in {"sent", "unthrottling", "freeing", "none", "free"} :
               \E q : OnePacket(p, x, q)
      BY <2>4, FinishEffect DEF Free
    <3>2. \A q : p \notin HeldFor(q)
      BY <3>1 DEF HeldFor, In
    <3>3. \A q : HeldFor(q)' = HeldFor(q)
      BY <3>1, <3>2, HeldSame
    <3>4. \A q \in Reqs : SameReq(q)
      BY <2>4 DEF Free, SameReq
    <3> QED
      BY <3>1, <3>3, <3>4, <1>inv, <1>all, SufficesFrame
  <2> QED
    BY <1>4, <2>1, <2>2, <2>3, <2>4 DEF Finish
<1>5. CASE ServiceDeferred
  <2>1. /\ UNCHANGED <<req, pkt>>
        /\ \/ UNCHANGED service
           \/ /\ deferred # <<>>
              /\ service' = [service EXCEPT ![Head(deferred)] =
                                [pc |-> "enter", post |-> TRUE, at |-> 0]]
    BY <1>5, Zenon DEF ServiceDeferred
  <2> DEFINE r == Head(deferred)
  <2>2. deferred # <<>> => r \in Reqs
    BY DeferredFacts
  <2> HIDE DEF r
  <2>3. \/ UNCHANGED service
        \/ /\ r \in Reqs
           /\ service' = [service EXCEPT ![r] =
                             [pc |-> "enter", post |-> TRUE, at |-> 0]]
    BY <2>1, <2>2 DEF r
  <2>4. UNCHANGED service \/ OthersServed(r)
    BY <2>3, <1>srv DEF OthersServed
  <2>5. UNCHANGED service \/ service'[r] = [pc |-> "enter", post |-> TRUE, at |-> 0]
    BY <2>3, <1>srv
  <2>6. UNCHANGED service \/ service'[r].pc # "send"
    BY <2>5
  <2> QED
    BY <2>1, <2>4, <2>6, <1>same, <1>inv, <1>all, SufficesFrame DEF
       OthersServed, SameReq
<1>6. CASE Leave
  <2>1. UNCHANGED <<req, service, pkt>>
    BY <1>6 DEF Leave
  <2> QED
    BY <2>1, <1>same, <1>inv, <1>all, SufficesFrame DEF SameReq
<1>7. CASE ClassRemoveDevice
  <2>1. /\ UNCHANGED <<req, service>>
        /\ \/ UNCHANGED pkt
           \/ \A k \in Packets : pkt'[k] = IF k \in In("free") THEN Packet("none")
                                                           ELSE pkt[k]
    BY <1>7 DEF ClassRemoveDevice
  <2>2. Packet("none").state = "none"
    BY DEF Packet, IdlePacket
  <2>3. \A q : HeldFor(q)' = HeldFor(q)
    BY <2>1, <2>2, <1>same DEF HeldFor, In
  <2> QED
    BY <2>1, <2>3, <1>inv, <1>all, SufficesFrame DEF SameReq
<1>8. CASE UNCHANGED vars
  <2>1. UNCHANGED <<req, service, pkt>>
    BY <1>8 DEF vars
  <2> QED
    BY <2>1, <1>same, <1>inv, <1>all, SufficesFrame DEF SameReq
<1> QED
  BY <1>1, <1>2, <1>3, <1>4, <1>5, <1>6, <1>7, <1>8 DEF Next, Work

(***************************************************************************)
(* The pieces of a request that are not counted yet                        *)
(***************************************************************************)

PieceOf(k, r) ==
  /\ k \in Packets /\ pkt[k].irp = r
  /\ \/ pkt[k].state \in {"queued", "sent", "counting"}
     \/ pkt[k].state = "held" /\ service[r].pc = "send"

LEMMA UncountedIs ==
  ASSUME NEW r
  PROVE  /\ \A k : k \in Uncounted(r) <=> PieceOf(k, r)
         /\ \A k : k \in Uncounted(r)' <=> PieceOf(k, r)'
BY DEF Uncounted, HeldFor, In, PieceOf

LEMMA CountedFrame ==
  ASSUME IInv, NEW r \in Reqs, req'[r].left = req[r].left,
         \A k \in Packets : PieceOf(k, r)' <=> PieceOf(k, r)
  PROVE  req'[r].left = Cardinality(Uncounted(r)')
<1>1. \A k : PieceOf(k, r) => k \in Packets
  BY DEF PieceOf
<1>2. \A k : PieceOf(k, r)' => k \in Packets
  BY DEF PieceOf
<1>3. Uncounted(r)' = Uncounted(r)
  BY <1>1, <1>2, UncountedIs
<1> QED
  BY <1>3 DEF IInv, PiecesCounted

LEMMA NoPieces ==
  ASSUME IInv, NEW r \in Reqs, req[r].left = 0
  PROVE  \A k : ~ PieceOf(k, r)
<1>1. Cardinality(Uncounted(r)) = 0
  BY DEF IInv, PiecesCounted
<1>2. Uncounted(r) = {}
  BY <1>1, Counts, FS_EmptySet
<1> QED
  BY <1>2, UncountedIs

LEMMA CountedStep ==
  ASSUME IInv, [Next]_vars
  PROVE  PiecesCounted'
<1>srv. service \in [Reqs -> ServiceType]
  BY Typed DEF IInv
<1>all. ASSUME \A q \in Reqs : req'[q].left = Cardinality(Uncounted(q)')
        PROVE  PiecesCounted'
  BY <1>all DEF PiecesCounted
<1>no. NoReq \notin Reqs
  BY XferAssumption
<1> USE DEF threadVars, throttleVars
<1>1. ASSUME NEW r \in Reqs, ClassReadWrite(r)
      PROVE  PiecesCounted'
  <2>1. /\ OthersSame(r) /\ service[r].pc = "none"
        /\ req[r].left = 0 /\ req'[r].left = 0
        /\ \/ UNCHANGED service
           \/ service' = [service EXCEPT ![r].pc = "enter"]
    BY <1>1, ReadWriteEffect DEF NoService
  <2>2. OthersServed(r) /\ service'[r].pc # "send"
    BY <2>1, <1>srv DEF OthersServed, ServiceType
  <2>3. UNCHANGED pkt
    BY <1>1 DEF ClassReadWrite
  <2>4. \A q \in Reqs : \A k \in Packets : PieceOf(k, q)' <=> PieceOf(k, q)
    BY <2>1, <2>2, <2>3 DEF OthersServed, PieceOf
  <2>5. \A q \in Reqs : req'[q].left = req[q].left
    BY <2>1 DEF OthersSame, SameReq
  <2> QED
    BY <2>4, <2>5, CountedFrame, <1>all
<1>2. ASSUME NEW r \in Reqs, Serve(r)
      PROVE  PiecesCounted'
  <2>1. CASE Enter(r)
    <3>1. /\ UNCHANGED <<req, pkt>> /\ service[r].pc # "send"
          /\ service' = [service EXCEPT ![r].pc = IF Throttled(r) THEN "defer"
                                                            ELSE "gather"]
      BY <2>1 DEF Enter
    <3>2. OthersServed(r) /\ service'[r].pc # "send"
      BY <3>1, <1>srv DEF OthersServed, NoService, ServiceType
    <3>3. \A q \in Reqs : \A k \in Packets : PieceOf(k, q)' <=> PieceOf(k, q)
      BY <3>1, <3>2 DEF OthersServed, PieceOf
    <3>4. \A q \in Reqs : req'[q].left = req[q].left
      BY <3>1
    <3> QED
      BY <3>3, <3>4, CountedFrame, <1>all
  <2>2. CASE Gather(r)
    <3> DEFINE need == NumPackets(req[r].transfer)
               n == Cardinality(HeldFor(r))
    <3>1. /\ service[r].pc = "gather"
          /\ \/ UNCHANGED <<req, service>>
             \/ /\ n + 1 = need
                /\ service' = [service EXCEPT ![r].pc = "send"]
                /\ req' = [req EXCEPT ![r] = Split(req[r], need)]
      BY <2>2, Zenon DEF Gather
    <3>2. req[r].transfer \in Transfers /\ req[r].left = 0
      BY <3>1 DEF IInv, ServedActive
    <3>3. need \in Nat
      BY <3>2, NumPacketsFacts
    <3> HIDE DEF need
    <3>4. \/ UNCHANGED req
          \/ OthersSame(r) /\ req'[r].left = need
      BY <3>1, <3>3, SplitEffect
    <3>5. OthersServed(r)
      BY <3>1, <1>srv DEF OthersServed, ServiceType
    <3>6. PICK h \in Available : OnePacket(h, "held", r)
      BY <2>2, GatherEffect
    <3>7. /\ h \in Packets /\ pkt[h].state \in {"free", "none"}
          /\ pkt'[h].state = "held" /\ pkt'[h].irp = r
          /\ \A k \in Packets : k # h => pkt'[k] = pkt[k]
      BY <3>6 DEF Available, In, OnePacket
    <3>8. \A k : ~ PieceOf(k, r)
      BY <3>2, NoPieces
    <3>9. \A q \in Reqs : q # r =>
            \A k \in Packets : PieceOf(k, q)' <=> PieceOf(k, q)
      BY <3>5, <3>7 DEF OthersServed, PieceOf
    <3>10. CASE UNCHANGED <<req, service>>
      <4>1. \A k \in Packets : PieceOf(k, r)' <=> PieceOf(k, r)
        BY <3>1, <3>7, <3>10, <1>srv DEF PieceOf
      <4> QED
        BY <3>9, <3>10, <4>1, CountedFrame, <1>all
    <3>11. CASE /\ n + 1 = need
               /\ service' = [service EXCEPT ![r].pc = "send"]
               /\ req' = [req EXCEPT ![r] = Split(req[r], need)]
      <4>1. service'[r].pc = "send"
        BY <3>11, <1>srv DEF ServiceType
      <4>2. \A k : PieceOf(k, r)' <=> k \in HeldFor(r) \cup {h}
        BY <3>7, <3>8, <4>1 DEF PieceOf, HeldFor, In
      <4>3. Uncounted(r)' = HeldFor(r) \cup {h}
        BY <4>2, UncountedIs
      <4>4. h \notin HeldFor(r)
        BY <3>7 DEF HeldFor, In
      <4>5. Cardinality(Uncounted(r)') = n + 1
        BY <4>3, <4>4, Counts, FS_AddElement
      <4>6. OthersSame(r) /\ req'[r].left = need
        BY <3>3, <3>11, SplitEffect
      <4> QED
        BY <3>9, <3>11, <4>5, <4>6, CountedFrame, <1>all DEF
           OthersSame, SameReq
    <3> QED
      BY <3>1, <3>10, <3>11
  <2>3. CASE GatherTooFew(r)
    <3>1. /\ service' = [service EXCEPT ![r] = NoService]
          /\ service[r].pc = "gather"
          /\ req' = [req EXCEPT ![r] = Split(req[r], 1)]
      BY <2>3, EndServiceEffect DEF GatherTooFew
    <3>2. /\ OthersServed(r) /\ service'[r].pc # "send"
          /\ OthersSame(r) /\ req'[r].left = 1 /\ req[r].left = 0
      BY <3>1, <1>srv, SplitEffect DEF OthersServed, NoService, IInv,
         ServedActive
    <3>3. PICK keep \in HeldFor(r) :
            /\ pkt'[keep].state = "queued" /\ pkt'[keep].irp = r
            /\ \A k \in HeldFor(r) : k # keep => pkt'[k].state = "free"
            /\ \A k \in Packets : k \notin HeldFor(r) => pkt'[k] = pkt[k]
      BY <2>3, TooFewEffect
    <3>4. /\ keep \in Packets
          /\ \A k \in Packets :
               k \in HeldFor(r) <=> pkt[k].state = "held" /\ pkt[k].irp = r
      BY <3>3 DEF HeldFor, In
    <3>5. \A k \in HeldFor(r) : k # keep =>
            pkt'[k].irp = NoReq \/ pkt'[k].state = "free"
      BY <3>3
    <3>6. \A q \in Reqs : q # r =>
            \A k \in Packets : PieceOf(k, q)' <=> PieceOf(k, q)
      BY <3>2, <3>3, <3>4 DEF OthersServed, PieceOf
    <3>7. \A k : ~ PieceOf(k, r)
      BY <3>2, NoPieces
    <3>8. \A k : PieceOf(k, r)' <=> k = keep
      BY <3>2, <3>3, <3>4, <3>7 DEF PieceOf
    <3>9. Uncounted(r)' = {keep}
      BY <3>8, UncountedIs
    <3>10. Cardinality(Uncounted(r)') = 1
      BY <3>9, FS_Singleton
    <3> QED
      BY <3>2, <3>6, <3>10, CountedFrame, <1>all DEF OthersSame, SameReq
  <2>4. CASE GatherNone(r)
    <3>1. /\ UNCHANGED <<req, pkt>> /\ service[r].pc # "send"
          /\ service' = [service EXCEPT ![r].pc = "defer"]
      BY <2>4 DEF GatherNone
    <3>2. OthersServed(r) /\ service'[r].pc # "send"
      BY <3>1, <1>srv DEF OthersServed, NoService, ServiceType
    <3>3. \A q \in Reqs : \A k \in Packets : PieceOf(k, q)' <=> PieceOf(k, q)
      BY <3>1, <3>2 DEF OthersServed, PieceOf
    <3>4. \A q \in Reqs : req'[q].left = req[q].left
      BY <3>1
    <3> QED
      BY <3>3, <3>4, CountedFrame, <1>all
  <2>5. CASE Send(r)
    <3>1. PICK h \in HeldFor(r), x \in {"queued", "sent"} : OnePacket(h, x, r)
      BY <2>5, SendEffect
    <3>2. /\ h \in Packets /\ pkt[h].state = "held" /\ pkt[h].irp = r
          /\ pkt'[h].state \in {"queued", "sent"} /\ pkt'[h].irp = r
          /\ \A k \in Packets : k # h => pkt'[k] = pkt[k]
      BY <3>1 DEF HeldFor, In, OnePacket
    <3>3. /\ UNCHANGED req /\ service[r].pc = "send"
          /\ \/ /\ Cardinality(HeldFor(r)) = 1
                /\ service' = [service EXCEPT ![r] = NoService]
             \/ \E n : service' = [service EXCEPT ![r].at = n]
      BY <2>5, SendEffect2, EndServiceEffect, Zenon
    <3>4. Cardinality(HeldFor(r)) = 1 => HeldFor(r) = {h}
      BY <3>1, Counts, OneLeft
    <3>5. /\ OthersServed(r)
          /\ service'[r].pc = "send" \/ Cardinality(HeldFor(r)) = 1
      BY <3>3, <1>srv DEF OthersServed, ServiceType
    <3>6. \A k \in Packets :
            k # h /\ pkt[k].state = "held" /\ pkt[k].irp = r =>
              service'[r].pc = "send"
      BY <3>4, <3>5 DEF HeldFor, In
    <3>7. \A q \in Reqs : q # r =>
            \A k \in Packets : PieceOf(k, q)' <=> PieceOf(k, q)
      BY <3>2, <3>5 DEF OthersServed, PieceOf
    <3>8. \A k \in Packets : PieceOf(k, r)' <=> PieceOf(k, r)
      BY <3>2, <3>3, <3>6 DEF PieceOf
    <3>9. \A q \in Reqs : req'[q].left = req[q].left
      BY <3>3
    <3> QED
      BY <3>7, <3>8, <3>9, CountedFrame, <1>all
  <2>6. CASE Defer(r)
    <3>1. /\ UNCHANGED <<req, pkt>> /\ service[r].pc # "send"
          /\ service' = [service EXCEPT ![r] = NoService]
      BY <2>6, EndServiceEffect DEF Defer
    <3>2. OthersServed(r) /\ service'[r].pc # "send"
      BY <3>1, <1>srv DEF OthersServed, NoService, ServiceType
    <3>3. \A q \in Reqs : \A k \in Packets : PieceOf(k, q)' <=> PieceOf(k, q)
      BY <3>1, <3>2 DEF OthersServed, PieceOf
    <3>4. \A q \in Reqs : req'[q].left = req[q].left
      BY <3>1
    <3> QED
      BY <3>3, <3>4, CountedFrame, <1>all
  <2> QED
    BY <1>2, <2>1, <2>2, <2>3, <2>4, <2>5, <2>6 DEF Serve
<1>3. ASSUME NEW p \in Packets, Returned(p)
      PROVE  PiecesCounted'
  <2>1. CASE Succeeded(p)
    <3>1. /\ UNCHANGED service /\ pkt[p].state = "sent"
          /\ \A q \in Reqs : SameReq(q)
          /\ \E x \in {"queued", "counting"} : OnePacket(p, x, pkt[p].irp)
      BY <2>1, ReturnedEffect DEF Returned
    <3>2. \A q \in Reqs : \A k \in Packets : PieceOf(k, q)' <=> PieceOf(k, q)
      BY <3>1 DEF PieceOf, OnePacket
    <3>3. \A q \in Reqs : req'[q].left = req[q].left
      BY <3>1 DEF SameReq
    <3> QED
      BY <3>2, <3>3, CountedFrame, <1>all
  <2>2. CASE FailedForGood(p)
    <3>1. /\ UNCHANGED service /\ pkt[p].state = "sent"
          /\ \A q \in Reqs : SameReq(q)
          /\ \E x \in {"queued", "counting"} : OnePacket(p, x, pkt[p].irp)
      BY <2>2, ReturnedEffect DEF Returned
    <3>2. \A q \in Reqs : \A k \in Packets : PieceOf(k, q)' <=> PieceOf(k, q)
      BY <3>1 DEF PieceOf, OnePacket
    <3>3. \A q \in Reqs : req'[q].left = req[q].left
      BY <3>1 DEF SameReq
    <3> QED
      BY <3>2, <3>3, CountedFrame, <1>all
  <2>3. CASE FailedOnce(p)
    <3>1. /\ UNCHANGED service /\ pkt[p].state = "sent"
          /\ \A q \in Reqs : SameReq(q)
          /\ \E x \in {"queued", "counting"} : OnePacket(p, x, pkt[p].irp)
      BY <2>3, ReturnedEffect DEF Returned
    <3>2. \A q \in Reqs : \A k \in Packets : PieceOf(k, q)' <=> PieceOf(k, q)
      BY <3>1 DEF PieceOf, OnePacket
    <3>3. \A q \in Reqs : req'[q].left = req[q].left
      BY <3>1 DEF SameReq
    <3> QED
      BY <3>2, <3>3, CountedFrame, <1>all
  <2>4. CASE FailedForMemory(p)
    <3>1. /\ UNCHANGED service /\ pkt[p].state = "sent"
          /\ \A q \in Reqs : SameReq(q)
          /\ \E x \in {"queued", "counting"} : OnePacket(p, x, pkt[p].irp)
      BY <2>4, ReturnedEffect DEF Returned
    <3>2. \A q \in Reqs : \A k \in Packets : PieceOf(k, q)' <=> PieceOf(k, q)
      BY <3>1 DEF PieceOf, OnePacket
    <3>3. \A q \in Reqs : req'[q].left = req[q].left
      BY <3>1 DEF SameReq
    <3> QED
      BY <3>2, <3>3, CountedFrame, <1>all
  <2> QED
    BY <1>3, <2>1, <2>2, <2>3, <2>4 DEF Returned
<1>4. ASSUME NEW p \in Packets, Finish(p)
      PROVE  PiecesCounted'
  <2>1. CASE RetryDpc(p)
    <3>1. /\ UNCHANGED <<req, service>>
          /\ pkt[p].state = "queued" /\ OnePacket(p, "sent", pkt[p].irp)
      BY <2>1, FinishEffect DEF RetryDpc
    <3>2. \A q \in Reqs : \A k \in Packets : PieceOf(k, q)' <=> PieceOf(k, q)
      BY <3>1 DEF PieceOf, OnePacket
    <3>3. \A q \in Reqs : req'[q].left = req[q].left
      BY <3>1
    <3> QED
      BY <3>2, <3>3, CountedFrame, <1>all
  <2>2. CASE CountDown(p)
    <3>1. PICK r \in Reqs : r = pkt[p].irp
      BY <2>2, CountDownEffect
    <3>2. /\ UNCHANGED service /\ pkt[p].state = "counting"
          /\ \E x \in {"unthrottling", "freeing"} : OnePacket(p, x, NoReq)
      BY <2>2, FinishEffect DEF CountDown
    <3>3. OthersSame(r) /\ req'[r].left = req[r].left - 1
      BY <2>2, <3>1, CountDownEffect
    <3>4. \A q \in Reqs : q # r =>
            \A k \in Packets : PieceOf(k, q)' <=> PieceOf(k, q)
      BY <3>1, <3>2 DEF PieceOf, OnePacket
    <3>5. /\ pkt'[p].state \notin {"held", "queued", "sent", "counting"}
          /\ \A k \in Packets : k # p => pkt'[k] = pkt[k]
      BY <3>2 DEF OnePacket
    <3>6. PieceOf(p, r) /\ \A k : PieceOf(k, r)' <=> PieceOf(k, r) /\ k # p
      BY <3>1, <3>2, <3>5 DEF PieceOf
    <3>7. Uncounted(r)' = Uncounted(r) \ {p} /\ p \in Uncounted(r)
      BY <3>6, UncountedIs
    <3>8. Cardinality(Uncounted(r)') = Cardinality(Uncounted(r)) - 1
      BY <3>7, Counts, FS_RemoveElement
    <3>9. req'[r].left = Cardinality(Uncounted(r)')
      BY <3>3, <3>8 DEF IInv, PiecesCounted
    <3>10. \A q \in Reqs : q # r => req'[q].left = req[q].left
      BY <3>3 DEF OthersSame, SameReq
    <3>11. \A q \in Reqs : q # r => req'[q].left = Cardinality(Uncounted(q)')
      BY <3>4, <3>10, CountedFrame
    <3> QED
      BY <3>9, <3>11, <1>all
  <2>3. CASE Unthrottle(p)
    <3>1. /\ UNCHANGED <<req, service>>
          /\ pkt[p].state = "unthrottling" /\ OnePacket(p, "freeing", pkt[p].irp)
      BY <2>3, FinishEffect DEF Unthrottle
    <3>2. \A q \in Reqs : \A k \in Packets : PieceOf(k, q)' <=> PieceOf(k, q)
      BY <3>1 DEF PieceOf, OnePacket
    <3>3. \A q \in Reqs : req'[q].left = req[q].left
      BY <3>1
    <3> QED
      BY <3>2, <3>3, CountedFrame, <1>all
  <2>4. CASE Free(p)
    <3>1. /\ UNCHANGED <<req, service>>
          /\ pkt[p].state = "freeing"
          /\ \E x \in {"none", "free"} : OnePacket(p, x, NoReq)
      BY <2>4, FinishEffect DEF Free
    <3>2. \A q \in Reqs : \A k \in Packets : PieceOf(k, q)' <=> PieceOf(k, q)
      BY <3>1 DEF PieceOf, OnePacket
    <3>3. \A q \in Reqs : req'[q].left = req[q].left
      BY <3>1
    <3> QED
      BY <3>2, <3>3, CountedFrame, <1>all
  <2> QED
    BY <1>4, <2>1, <2>2, <2>3, <2>4 DEF Finish
<1>5. CASE ServiceDeferred
  <2>1. /\ UNCHANGED <<req, pkt>>
        /\ \/ UNCHANGED service
           \/ /\ deferred # <<>>
              /\ service' = [service EXCEPT ![Head(deferred)] =
                                [pc |-> "enter", post |-> TRUE, at |-> 0]]
    BY <1>5, Zenon DEF ServiceDeferred
  <2>2. \A q \in Reqs : service'[q].pc = "send" <=> service[q].pc = "send"
    BY <2>1, <1>srv, DeferredFacts
  <2>3. \A q \in Reqs : \A k \in Packets : PieceOf(k, q)' <=> PieceOf(k, q)
    BY <2>1, <2>2 DEF PieceOf
  <2>4. \A q \in Reqs : req'[q].left = req[q].left
    BY <2>1
  <2> QED
    BY <2>3, <2>4, CountedFrame, <1>all
<1>6. CASE Leave
  <2>1. UNCHANGED <<req, service, pkt>>
    BY <1>6 DEF Leave
  <2>2. \A q \in Reqs : \A k \in Packets : PieceOf(k, q)' <=> PieceOf(k, q)
    BY <2>1 DEF PieceOf
  <2>3. \A q \in Reqs : req'[q].left = req[q].left
    BY <2>1
  <2> QED
    BY <2>2, <2>3, CountedFrame, <1>all
<1>7. CASE ClassRemoveDevice
  <2>1. /\ UNCHANGED <<req, service>>
        /\ \/ UNCHANGED pkt
           \/ \A k \in Packets : pkt'[k] = IF k \in In("free") THEN Packet("none")
                                                           ELSE pkt[k]
    BY <1>7 DEF ClassRemoveDevice
  <2>2. Packet("none").state = "none"
    BY DEF Packet, IdlePacket
  <2>3. \A q \in Reqs : \A k \in Packets : PieceOf(k, q)' <=> PieceOf(k, q)
    BY <2>1, <2>2 DEF PieceOf, In
  <2>4. \A q \in Reqs : req'[q].left = req[q].left
    BY <2>1
  <2> QED
    BY <2>3, <2>4, CountedFrame, <1>all
<1>8. CASE UNCHANGED vars
  <2>1. UNCHANGED <<req, service, pkt>>
    BY <1>8 DEF vars
  <2>2. \A q \in Reqs : \A k \in Packets : PieceOf(k, q)' <=> PieceOf(k, q)
    BY <2>1 DEF PieceOf
  <2>3. \A q \in Reqs : req'[q].left = req[q].left
    BY <2>1
  <2> QED
    BY <2>2, <2>3, CountedFrame, <1>all
<1> QED
  BY <1>1, <1>2, <1>3, <1>4, <1>5, <1>6, <1>7, <1>8 DEF Next, Work

(***************************************************************************)
(* The lock                                                                *)
(***************************************************************************)

LockSafe == FailedWhileHeld /\ (device = "removed" => rundown = 0)

LEMMA AddOne ==
  ASSUME NEW S, IsFiniteSet(S), NEW x, x \notin S, NEW T, T = S \cup {x}
  PROVE  Cardinality(T) = Cardinality(S) + 1
BY FS_AddElement

LEMMA RemoveOne ==
  ASSUME NEW S, IsFiniteSet(S), NEW x \in S, NEW T, T = S \ {x}
  PROVE  Cardinality(T) = Cardinality(S) - 1
BY FS_RemoveElement

\* Acquired by someone who has it, or while the device is there
LEMMA Acquires ==
  ASSUME IInv, ClassAcquireRemoveLock,
         device = "present" \/ rundown + failed >= 1
  PROVE  /\ rundown' + failed' = rundown + failed + 1
         /\ device' = device /\ LockSafe'
<1>1. /\ rundown \in Nat /\ failed \in Nat
      /\ device = "present" => failed = 0
      /\ failed # 0 => rundown # 0
      /\ device = "removed" => rundown = 0
  BY Typed DEF IInv, FailedWhileHeld
<1>2. CASE device = "present"
  BY <1>1, <1>2 DEF ClassAcquireRemoveLock, LockSafe, FailedWhileHeld
<1>3. CASE device # "present"
  <2>1. rundown # 0
    BY <1>1, <1>3
  <2> QED
    BY <1>1, <1>3, <2>1 DEF ClassAcquireRemoveLock, LockSafe, FailedWhileHeld
<1> QED
  BY <1>2, <1>3

LEMMA Releases ==
  ASSUME IInv, ReleasedLock, rundown + failed >= 1,
         device' = device \/ device' = "removing"
  PROVE  rundown' + failed' = rundown + failed - 1 /\ LockSafe'
<1>1. /\ rundown \in Nat /\ failed \in Nat
      /\ device = "present" => failed = 0
      /\ failed # 0 => rundown # 0
      /\ device = "removed" => rundown = 0
  BY Typed DEF IInv, FailedWhileHeld
<1>2. device # "removed"
  BY <1>1
<1> QED
  BY <1>1, <1>2 DEF ReleasedLock, LockSafe, FailedWhileHeld

LEMMA LockSame ==
  ASSUME IInv, UNCHANGED lockVars
  PROVE  /\ rundown' + failed' = rundown + failed
         /\ device' = device /\ LockSafe'
BY Typed DEF IInv, FailedWhileHeld, LockSafe, lockVars

\* The sets that a step leaves alone
LEMMA UserFrames ==
  /\ (\A q \in Reqs : req'[q].state = req[q].state) =>
       Outstanding' = Outstanding
  /\ UNCHANGED service => Servicing' = Servicing
  /\ UNCHANGED pkt => Completing' = Completing
BY DEF Outstanding, Servicing, Completing, In

LEMMA EndServiceBalance ==
  ASSUME IInv, NEW r \in Reqs, service[r].pc \in {"gather", "send", "defer"},
         EndService(r)
  PROVE  \E l, w \in Int :
           /\ Cardinality(Servicing') = Cardinality(Servicing) - 1
           /\ rundown' + failed' = rundown + failed + l
           /\ leaving' = leaving + w /\ w = l + 1
           /\ device' = device /\ LockSafe'
<1>1. service \in [Reqs -> ServiceType] /\ leaving \in Nat
  BY Typed DEF IInv, TypeOK
<1>2. service' = [service EXCEPT ![r] = NoService]
  BY EndServiceEffect
<1>3. Servicing' = Servicing \ {r} /\ r \in Servicing
  BY <1>1, <1>2 DEF Servicing, NoService
<1>4. Cardinality(Servicing') = Cardinality(Servicing) - 1
  BY <1>3, Counts, RemoveOne
<1>5. rundown + failed >= 1
  BY <1>3, InUse
<1>6. CASE service[r].post
  <2>1. ReleasedLock /\ device' = device /\ leaving' = leaving
    BY <1>6, Zenon DEF EndService, ClassReleaseRemoveLock
  <2>2. rundown' + failed' = rundown + failed - 1 /\ LockSafe'
    BY <1>5, <2>1, Releases
  <2>3. rundown \in Nat /\ failed \in Nat
    BY Typed DEF IInv
  <2>4. rundown + failed - 1 = rundown + failed + (-1)
    BY <2>3
  <2>5. rundown' + failed' = rundown + failed + (-1) /\ leaving' = leaving + 0
    BY <1>1, <2>1, <2>2, <2>4
  <2> QED
    BY <1>4, <2>1, <2>2, <2>5
<1>7. CASE ~ service[r].post
  <2>1. UNCHANGED lockVars /\ leaving' = leaving + 1
    BY <1>7, Zenon DEF EndService
  <2>2. rundown' + failed' = rundown + failed + 0
    BY <2>1, Typed DEF IInv, lockVars
  <2> QED
    BY <1>4, <2>1, <2>2, LockSame
<1> QED
  BY <1>6, <1>7

LEMMA LockStep ==
  ASSUME IInv, [Next]_vars
  PROVE  LockCounts' /\ LockSafe'
<1>srv. service \in [Reqs -> ServiceType]
  BY Typed DEF IInv
<1>nat. /\ Cardinality(Outstanding) \in Nat /\ Cardinality(Servicing) \in Nat
        /\ Cardinality(Completing) \in Nat
        /\ leaving \in Nat /\ finishing \in Nat
        /\ rundown \in Nat /\ failed \in Nat
  BY Counts, Typed DEF IInv, TypeOK
<1>old. rundown + failed =
          Cardinality(Outstanding) + Cardinality(Servicing)
            + Cardinality(Completing) + leaving + finishing
            + (IF device = "present" THEN 1 ELSE 0)
  BY DEF IInv, LockCounts, Users
<1>new. ASSUME rundown' + failed' =
                 Cardinality(Outstanding') + Cardinality(Servicing')
                   + Cardinality(Completing') + leaving' + finishing'
                   + (IF device' = "present" THEN 1 ELSE 0)
        PROVE  LockCounts'
  BY <1>new DEF LockCounts, Users
<1> USE DEF threadVars, throttleVars
<1>1. ASSUME NEW r \in Reqs, ClassReadWrite(r)
      PROVE  LockCounts' /\ LockSafe'
  <2>1. /\ OthersSame(r) /\ req[r].state = "new" /\ service[r] = NoService
        /\ UNCHANGED <<pkt, leaving, finishing>>
    BY <1>1, ReadWriteEffect DEF ClassReadWrite
  <2>2. \/ UNCHANGED service
        \/ service' = [service EXCEPT ![r].pc = "enter"]
    BY <1>1, ReadWriteEffect
  <2>3. ~ service'[r].post /\ OthersServed(r)
    BY <2>1, <2>2, <1>srv DEF OthersServed, ServiceType, NoService
  <2>4. service'[r].pc \in {"none", "enter"} /\ service[r].pc = "none"
    BY <2>1, <2>2, <1>srv DEF ServiceType, NoService
  <2>5. Servicing' = Servicing /\ Completing' = Completing
    BY <2>1, <2>3, <2>4, UserFrames DEF Servicing, OthersServed
  <2>6. CASE req'[r].state = "done" /\ UNCHANGED lockVars
    <3>1. Outstanding' = Outstanding
      BY <2>1, <2>6 DEF Outstanding, OthersSame, SameReq
    <3>2. /\ rundown' + failed' = rundown + failed
          /\ device' = device /\ LockSafe'
      BY <2>6, LockSame
    <3> QED
      BY <2>1, <2>5, <3>1, <3>2, <1>nat, <1>old, <1>new
  <2>7. CASE /\ req'[r].state = "active" /\ device = "present"
            /\ ClassAcquireRemoveLock
    <3>1. Outstanding' = Outstanding \cup {r} /\ r \notin Outstanding
      BY <2>1, <2>7 DEF Outstanding, OthersSame, SameReq
    <3>2. Cardinality(Outstanding') = Cardinality(Outstanding) + 1
      BY <3>1, Counts, AddOne
    <3>3. /\ rundown' + failed' = rundown + failed + 1
          /\ device' = device /\ LockSafe'
      BY <2>7, Acquires
    <3> QED
      BY <2>1, <2>5, <3>2, <3>3, <1>nat, <1>old, <1>new
  <2> QED
    BY <1>1, <2>6, <2>7, ReadWriteEffect
<1>2. ASSUME NEW r \in Reqs, Serve(r)
      PROVE  LockCounts' /\ LockSafe'
  <2>1. CASE Enter(r)
    <3>1. /\ /\ UNCHANGED <<req, pkt, leaving, finishing>>
          /\ service[r].pc = "enter"
          /\ service' = [service EXCEPT ![r].pc = IF Throttled(r) THEN "defer"
                                                              ELSE "gather"]
      BY <2>1 DEF Enter
    <3>2. Outstanding' = Outstanding /\ Completing' = Completing
      BY <3>1, UserFrames
    <3>3. /\ OthersServed(r) /\ service'[r].post = service[r].post
          /\ service'[r].pc \in {"gather", "defer"}
      BY <3>1, <1>srv DEF OthersServed, ServiceType
    <3>4. CASE service[r].post
      <4>1. Servicing' = Servicing
        BY <3>1, <3>3, <3>4 DEF Servicing, OthersServed
      <4>2. UNCHANGED lockVars
        BY <2>1, <3>4, Zenon DEF Enter
      <4>3. /\ rundown' + failed' = rundown + failed
            /\ device' = device /\ LockSafe'
        BY <4>2, LockSame
      <4> QED
        BY <3>1, <3>2, <4>1, <4>3, <1>nat, <1>old, <1>new
    <3>5. CASE ~ service[r].post
      <4>1. Servicing' = Servicing \cup {r} /\ r \notin Servicing
        BY <3>1, <3>3, <3>5 DEF Servicing, OthersServed
      <4>2. Cardinality(Servicing') = Cardinality(Servicing) + 1
        BY <4>1, Counts, AddOne
      <4>3. ClassAcquireRemoveLock
        BY <2>1, <3>5, Zenon DEF Enter
      <4>4. r \in Outstanding
        BY <3>1 DEF IInv, ServedActive, Outstanding
      <4>5. /\ rundown' + failed' = rundown + failed + 1
            /\ device' = device /\ LockSafe'
        BY <4>3, <4>4, InUse, Acquires
      <4> QED
        BY <3>1, <3>2, <4>2, <4>5, <1>nat, <1>old, <1>new
    <3> QED
      BY <3>4, <3>5
  <2>2. CASE Gather(r)
    <3>1. /\ /\ UNCHANGED <<leaving, finishing, lockVars>>
          /\ service[r].pc = "gather"
          /\ \/ UNCHANGED service
             \/ service' = [service EXCEPT ![r].pc = "send"]
      BY <2>2, Zenon DEF Gather
    <3>2. OthersServed(r) /\ service'[r].pc \in {"gather", "send", "defer"}
      BY <3>1, <1>srv DEF OthersServed, ServiceType
    <3>3. Servicing' = Servicing
      BY <3>1, <3>2 DEF Servicing, OthersServed
    <3>4. \/ UNCHANGED req
          \/ req' =
               [req EXCEPT ![r] = Split(req[r], NumPackets(req[r].transfer))]
      BY <2>2, Zenon DEF Gather
    <3>5. req[r].transfer \in Transfers
      BY <3>1 DEF IInv, ServedActive
    <3>6. \A q \in Reqs : req'[q].state = req[q].state
      BY <3>4, <3>5, NumPacketsFacts, SplitEffect DEF OthersSame,
         SameReq
    <3>7. PICK h \in Available : OnePacket(h, "held", r)
      BY <2>2, GatherEffect
    <3>8. h \in Packets /\ pkt[h].state \in {"free", "none"}
      BY <3>7 DEF Available, In
    <3>9. Completing' = Completing
      BY <3>7, <3>8 DEF Completing, In, OnePacket
    <3>10. Outstanding' = Outstanding
      BY <3>6, UserFrames
    <3>11. /\ rundown' + failed' = rundown + failed
           /\ device' = device /\ LockSafe'
      BY <3>1, LockSame
    <3> QED
      BY <3>1, <3>11, <3>3, <3>9, <3>10, <1>nat, <1>old, <1>new
  <2>3. CASE GatherTooFew(r)
    <3>1. service[r].pc = "gather" /\ UNCHANGED finishing
      BY <2>3 DEF GatherTooFew
    <3>2. req' = [req EXCEPT ![r] = Split(req[r], 1)] /\ EndService(r)
      BY <2>3, Zenon DEF GatherTooFew
    <3>3. Outstanding' = Outstanding
      BY <3>2, SplitEffect, UserFrames DEF OthersSame, SameReq
    <3>4. PICK keep \in HeldFor(r) :
            /\ pkt'[keep].state = "queued"
            /\ \A k \in HeldFor(r) : k # keep => pkt'[k].state = "free"
            /\ \A k \in Packets : k \notin HeldFor(r) => pkt'[k] = pkt[k]
      BY <2>3, TooFewEffect
    <3>5. Completing' = Completing
      BY <3>4 DEF Completing, In, HeldFor
    <3>6. PICK l, w \in Int :
                 /\ Cardinality(Servicing') = Cardinality(Servicing) - 1
                 /\ rundown' + failed' = rundown + failed + l
                 /\ leaving' = leaving + w /\ w = l + 1
                 /\ device' = device /\ LockSafe'
      BY <3>1, <3>2, EndServiceBalance
    <3> QED
      BY <3>6, <3>1, <3>3, <3>5, <1>nat, <1>old, <1>new
  <2>4. CASE GatherNone(r)
    <3>1. /\ /\ UNCHANGED <<leaving, finishing, lockVars>>
          /\ service[r].pc = "gather"
          /\ \/ UNCHANGED service
             \/ service' = [service EXCEPT ![r].pc = "defer"]
      BY <2>4, Zenon DEF GatherNone
    <3>2. OthersServed(r) /\ service'[r].pc \in {"gather", "send", "defer"}
      BY <3>1, <1>srv DEF OthersServed, ServiceType
    <3>3. Servicing' = Servicing
      BY <3>1, <3>2 DEF Servicing, OthersServed
    <3>4. UNCHANGED <<req, pkt>>
      BY <2>4 DEF GatherNone
    <3>5. Outstanding' = Outstanding /\ Completing' = Completing
      BY <3>4, UserFrames
    <3>6. /\ rundown' + failed' = rundown + failed
          /\ device' = device /\ LockSafe'
      BY <3>1, LockSame
    <3> QED
      BY <3>1, <3>6, <3>3, <3>5, <1>nat, <1>old, <1>new
  <2>5. CASE Send(r)
    <3>1. service[r].pc = "send" /\ UNCHANGED finishing
      BY <2>5 DEF Send
    <3>2. PICK h \in HeldFor(r), x \in {"queued", "sent"} : OnePacket(h, x, r)
      BY <2>5, SendEffect
    <3>3. Completing' = Completing
      BY <3>2 DEF Completing, In, HeldFor, OnePacket
    <3>4. UNCHANGED req
      BY <2>5 DEF Send
    <3>5. Outstanding' = Outstanding
      BY <3>4, UserFrames
    <3>6. CASE EndService(r)
      <4>1. PICK l, w \in Int :
                   /\ Cardinality(Servicing') = Cardinality(Servicing) - 1
                   /\ rundown' + failed' = rundown + failed + l
                   /\ leaving' = leaving + w /\ w = l + 1
                   /\ device' = device /\ LockSafe'
        BY <3>1, <3>6, EndServiceBalance
      <4> QED
        BY <3>1, <3>3, <3>5, <4>1, <1>nat, <1>old, <1>new
    <3>7. CASE /\ service' =
                   [service EXCEPT ![r].at = @ + HwMax(req[r].transfer)]
              /\ UNCHANGED <<leaving, lockVars>>
      <4>1. OthersServed(r) /\ service'[r].pc = "send"
        BY <3>1, <3>7, <1>srv DEF OthersServed, ServiceType
      <4>2. Servicing' = Servicing
        BY <3>1, <4>1 DEF Servicing, OthersServed
      <4>3. /\ rundown' + failed' = rundown + failed
            /\ device' = device /\ LockSafe'
        BY <3>7, LockSame
      <4> QED
        BY <3>7, <3>1, <3>3, <3>5, <4>2, <4>3, <1>nat, <1>old, <1>new
    <3> QED
      BY <2>5, <3>6, <3>7, SendEffect2
  <2>6. CASE Defer(r)
    <3>1. service[r].pc = "defer" /\ UNCHANGED finishing
      BY <2>6 DEF Defer
    <3>2. UNCHANGED <<req, pkt>> /\ EndService(r)
      BY <2>6 DEF Defer
    <3>3. Outstanding' = Outstanding /\ Completing' = Completing
      BY <3>2, UserFrames
    <3>4. PICK l, w \in Int :
                 /\ Cardinality(Servicing') = Cardinality(Servicing) - 1
                 /\ rundown' + failed' = rundown + failed + l
                 /\ leaving' = leaving + w /\ w = l + 1
                 /\ device' = device /\ LockSafe'
      BY <3>1, <3>2, EndServiceBalance
    <3> QED
      BY <3>4, <3>1, <3>3, <1>nat, <1>old, <1>new
  <2> QED
    BY <1>2, <2>1, <2>2, <2>3, <2>4, <2>5, <2>6 DEF Serve
<1>3. ASSUME NEW p \in Packets, Returned(p)
      PROVE  LockCounts' /\ LockSafe'
  <2>1. CASE Succeeded(p)
    <3>1. /\ UNCHANGED <<service, leaving, finishing>> /\ pkt[p].state = "sent"
          /\ \A q \in Reqs : SameReq(q)
          /\ \/ OnePacket(p, "queued", pkt[p].irp) /\ UNCHANGED lockVars
             \/ OnePacket(p, "counting", pkt[p].irp) /\ ClassAcquireRemoveLock
      BY <2>1, ReturnedEffect DEF Returned
    <3>2. Outstanding' = Outstanding /\ Servicing' = Servicing
      BY <3>1, UserFrames DEF SameReq
    <3>3. p \notin Completing
      BY <3>1 DEF Completing, In
    <3>4. pkt[p].irp \in Outstanding /\ pkt[p].irp \in Reqs
      BY <3>1, PieceFacts DEF Outstanding
    <3>5. CASE OnePacket(p, "queued", pkt[p].irp) /\ UNCHANGED lockVars
      <4>1. Completing' = Completing
        BY <3>1, <3>5 DEF Completing, In, OnePacket
      <4>2. /\ rundown' + failed' = rundown + failed
            /\ device' = device /\ LockSafe'
        BY <3>5, LockSame
      <4> QED
        BY <3>1, <3>2, <4>1, <4>2, <1>nat, <1>old, <1>new
    <3>6. CASE /\ OnePacket(p, "counting", pkt[p].irp)
              /\ ClassAcquireRemoveLock
      <4>1. Completing' = Completing \cup {p}
        BY <3>1, <3>6 DEF Completing, In, OnePacket
      <4>2. Cardinality(Completing') = Cardinality(Completing) + 1
        BY <3>3, <4>1, Counts, AddOne
      <4>3. /\ rundown' + failed' = rundown + failed + 1
            /\ device' = device /\ LockSafe'
        BY <3>4, <3>6, InUse, Acquires
      <4> QED
        BY <3>1, <3>2, <4>2, <4>3, <1>nat, <1>old, <1>new
    <3> QED
      BY <3>1, <3>5, <3>6
  <2>2. CASE FailedForGood(p)
    <3>1. /\ UNCHANGED <<service, leaving, finishing>> /\ pkt[p].state = "sent"
          /\ \A q \in Reqs : SameReq(q)
          /\ \/ OnePacket(p, "queued", pkt[p].irp) /\ UNCHANGED lockVars
             \/ OnePacket(p, "counting", pkt[p].irp) /\ ClassAcquireRemoveLock
      BY <2>2, ReturnedEffect DEF Returned
    <3>2. Outstanding' = Outstanding /\ Servicing' = Servicing
      BY <3>1, UserFrames DEF SameReq
    <3>3. p \notin Completing
      BY <3>1 DEF Completing, In
    <3>4. pkt[p].irp \in Outstanding /\ pkt[p].irp \in Reqs
      BY <3>1, PieceFacts DEF Outstanding
    <3>5. CASE OnePacket(p, "queued", pkt[p].irp) /\ UNCHANGED lockVars
      <4>1. Completing' = Completing
        BY <3>1, <3>5 DEF Completing, In, OnePacket
      <4>2. /\ rundown' + failed' = rundown + failed
            /\ device' = device /\ LockSafe'
        BY <3>5, LockSame
      <4> QED
        BY <3>1, <3>2, <4>1, <4>2, <1>nat, <1>old, <1>new
    <3>6. CASE /\ OnePacket(p, "counting", pkt[p].irp)
              /\ ClassAcquireRemoveLock
      <4>1. Completing' = Completing \cup {p}
        BY <3>1, <3>6 DEF Completing, In, OnePacket
      <4>2. Cardinality(Completing') = Cardinality(Completing) + 1
        BY <3>3, <4>1, Counts, AddOne
      <4>3. /\ rundown' + failed' = rundown + failed + 1
            /\ device' = device /\ LockSafe'
        BY <3>4, <3>6, InUse, Acquires
      <4> QED
        BY <3>1, <3>2, <4>2, <4>3, <1>nat, <1>old, <1>new
    <3> QED
      BY <3>1, <3>5, <3>6
  <2>3. CASE FailedOnce(p)
    <3>1. /\ UNCHANGED <<service, leaving, finishing>> /\ pkt[p].state = "sent"
          /\ \A q \in Reqs : SameReq(q)
          /\ \/ OnePacket(p, "queued", pkt[p].irp) /\ UNCHANGED lockVars
             \/ OnePacket(p, "counting", pkt[p].irp) /\ ClassAcquireRemoveLock
      BY <2>3, ReturnedEffect DEF Returned
    <3>2. Outstanding' = Outstanding /\ Servicing' = Servicing
      BY <3>1, UserFrames DEF SameReq
    <3>3. p \notin Completing
      BY <3>1 DEF Completing, In
    <3>4. pkt[p].irp \in Outstanding /\ pkt[p].irp \in Reqs
      BY <3>1, PieceFacts DEF Outstanding
    <3>5. CASE OnePacket(p, "queued", pkt[p].irp) /\ UNCHANGED lockVars
      <4>1. Completing' = Completing
        BY <3>1, <3>5 DEF Completing, In, OnePacket
      <4>2. /\ rundown' + failed' = rundown + failed
            /\ device' = device /\ LockSafe'
        BY <3>5, LockSame
      <4> QED
        BY <3>1, <3>2, <4>1, <4>2, <1>nat, <1>old, <1>new
    <3>6. CASE /\ OnePacket(p, "counting", pkt[p].irp)
              /\ ClassAcquireRemoveLock
      <4>1. Completing' = Completing \cup {p}
        BY <3>1, <3>6 DEF Completing, In, OnePacket
      <4>2. Cardinality(Completing') = Cardinality(Completing) + 1
        BY <3>3, <4>1, Counts, AddOne
      <4>3. /\ rundown' + failed' = rundown + failed + 1
            /\ device' = device /\ LockSafe'
        BY <3>4, <3>6, InUse, Acquires
      <4> QED
        BY <3>1, <3>2, <4>2, <4>3, <1>nat, <1>old, <1>new
    <3> QED
      BY <3>1, <3>5, <3>6
  <2>4. CASE FailedForMemory(p)
    <3>1. /\ UNCHANGED <<service, leaving, finishing>> /\ pkt[p].state = "sent"
          /\ \A q \in Reqs : SameReq(q)
          /\ \/ OnePacket(p, "queued", pkt[p].irp) /\ UNCHANGED lockVars
             \/ OnePacket(p, "counting", pkt[p].irp) /\ ClassAcquireRemoveLock
      BY <2>4, ReturnedEffect DEF Returned
    <3>2. Outstanding' = Outstanding /\ Servicing' = Servicing
      BY <3>1, UserFrames DEF SameReq
    <3>3. p \notin Completing
      BY <3>1 DEF Completing, In
    <3>4. pkt[p].irp \in Outstanding /\ pkt[p].irp \in Reqs
      BY <3>1, PieceFacts DEF Outstanding
    <3>5. CASE OnePacket(p, "queued", pkt[p].irp) /\ UNCHANGED lockVars
      <4>1. Completing' = Completing
        BY <3>1, <3>5 DEF Completing, In, OnePacket
      <4>2. /\ rundown' + failed' = rundown + failed
            /\ device' = device /\ LockSafe'
        BY <3>5, LockSame
      <4> QED
        BY <3>1, <3>2, <4>1, <4>2, <1>nat, <1>old, <1>new
    <3>6. CASE /\ OnePacket(p, "counting", pkt[p].irp)
              /\ ClassAcquireRemoveLock
      <4>1. Completing' = Completing \cup {p}
        BY <3>1, <3>6 DEF Completing, In, OnePacket
      <4>2. Cardinality(Completing') = Cardinality(Completing) + 1
        BY <3>3, <4>1, Counts, AddOne
      <4>3. /\ rundown' + failed' = rundown + failed + 1
            /\ device' = device /\ LockSafe'
        BY <3>4, <3>6, InUse, Acquires
      <4> QED
        BY <3>1, <3>2, <4>2, <4>3, <1>nat, <1>old, <1>new
    <3> QED
      BY <3>1, <3>5, <3>6
  <2> QED
    BY <1>3, <2>1, <2>2, <2>3, <2>4 DEF Returned
<1>4. ASSUME NEW p \in Packets, Finish(p)
      PROVE  LockCounts' /\ LockSafe'
  <2>1. CASE RetryDpc(p)
    <3>1. UNCHANGED <<req, service, leaving, finishing, lockVars>>
      BY <2>1 DEF RetryDpc
    <3>2. Outstanding' = Outstanding /\ Servicing' = Servicing
      BY <3>1, UserFrames
    <3>3. pkt[p].state = "queued" /\ OnePacket(p, "sent", pkt[p].irp)
      BY <2>1, FinishEffect DEF RetryDpc
    <3>4. Completing' = Completing
      BY <3>3 DEF Completing, In, OnePacket
    <3>5. /\ rundown' + failed' = rundown + failed
          /\ device' = device /\ LockSafe'
      BY <3>1, LockSame
    <3> QED
      BY <3>1, <3>2, <3>4, <3>5, <1>nat, <1>old, <1>new
  <2>2. CASE CountDown(p)
    <3>1. PICK r \in Reqs : r = pkt[p].irp
      BY <2>2, CountDownEffect
    <3>2. /\ OthersSame(r) /\ req[r].state = "active"
          /\ req[r].left = 1 => req'[r].state = "done"
          /\ req[r].left # 1 => req'[r].state = "active"
      BY <2>2, <3>1, CountDownEffect
    <3>3. /\ UNCHANGED <<service, leaving, finishing>>
          /\ pkt[p].state = "counting"
      BY <2>2 DEF CountDown
    <3>4. \E x \in {"unthrottling", "freeing"} : OnePacket(p, x, NoReq)
      BY <2>2, FinishEffect
    <3>5. Servicing' = Servicing /\ Completing' = Completing
      BY <3>3, <3>4, UserFrames DEF Completing, In, OnePacket
    <3>6. CASE req[r].left = 1
      <4>1. Outstanding' = Outstanding \ {r} /\ r \in Outstanding
        BY <3>2, <3>6 DEF Outstanding, OthersSame, SameReq
      <4>2. Cardinality(Outstanding') = Cardinality(Outstanding) - 1
        BY <4>1, Counts, RemoveOne
      <4>3. ReleasedLock /\ device' = device
        BY <2>2, <3>1, <3>6, Zenon DEF CountDown, Last,
           ClassReleaseRemoveLock
      <4>4. rundown' + failed' = rundown + failed - 1 /\ LockSafe'
        BY <4>1, <4>3, InUse, Releases
      <4> QED
        BY <3>3, <3>5, <4>2, <4>3, <4>4, <1>nat, <1>old, <1>new
    <3>7. CASE req[r].left # 1
      <4>1. Outstanding' = Outstanding
        BY <3>2, <3>7 DEF Outstanding, OthersSame, SameReq
      <4>2. UNCHANGED lockVars
        BY <2>2, <3>1, <3>7, Zenon DEF CountDown, Last
      <4>3. /\ rundown' + failed' = rundown + failed
            /\ device' = device /\ LockSafe'
        BY <4>2, LockSame
      <4> QED
        BY <3>3, <3>5, <4>1, <4>3, <1>nat, <1>old, <1>new
    <3> QED
      BY <3>6, <3>7
  <2>3. CASE Unthrottle(p)
    <3>1. UNCHANGED <<req, service, leaving, finishing, lockVars>>
      BY <2>3 DEF Unthrottle
    <3>2. Outstanding' = Outstanding /\ Servicing' = Servicing
      BY <3>1, UserFrames
    <3>3. /\ pkt[p].state = "unthrottling"
          /\ OnePacket(p, "freeing", pkt[p].irp)
      BY <2>3, FinishEffect DEF Unthrottle
    <3>4. Completing' = Completing
      BY <3>3 DEF Completing, In, OnePacket
    <3>5. /\ rundown' + failed' = rundown + failed
          /\ device' = device /\ LockSafe'
      BY <3>1, LockSame
    <3> QED
      BY <3>1, <3>2, <3>4, <3>5, <1>nat, <1>old, <1>new
  <2>4. CASE Free(p)
    <3>1. /\ UNCHANGED <<req, service, leaving, lockVars>>
          /\ finishing' = finishing + 1 /\ pkt[p].state = "freeing"
      BY <2>4 DEF Free
    <3>2. Outstanding' = Outstanding /\ Servicing' = Servicing
      BY <3>1, UserFrames
    <3>3. \E x \in {"none", "free"} : OnePacket(p, x, NoReq)
      BY <2>4, FinishEffect
    <3>4. Completing' = Completing \ {p} /\ p \in Completing
      BY <3>1, <3>3 DEF Completing, In, OnePacket
    <3>5. Cardinality(Completing') = Cardinality(Completing) - 1
      BY <3>4, Counts, RemoveOne
    <3>6. /\ rundown' + failed' = rundown + failed
          /\ device' = device /\ LockSafe'
      BY <3>1, LockSame
    <3> QED
      BY <3>1, <3>2, <3>5, <3>6, <1>nat, <1>old, <1>new
  <2> QED
    BY <1>4, <2>1, <2>2, <2>3, <2>4 DEF Finish
<1>5. CASE ServiceDeferred
  <2>1. /\ UNCHANGED <<req, pkt, leaving>>
        /\ finishing > 0 /\ finishing' = finishing - 1
    BY <1>5 DEF ServiceDeferred
  <2>2. Outstanding' = Outstanding /\ Completing' = Completing
    BY <2>1, UserFrames
  <2>3. CASE deferred = <<>>
    <3>1. UNCHANGED service /\ ReleasedLock /\ device' = device
      BY <1>5, <2>3, Zenon DEF ServiceDeferred, ClassReleaseRemoveLock
    <3>2. Servicing' = Servicing
      BY <3>1, UserFrames
    <3>3. rundown' + failed' = rundown + failed - 1 /\ LockSafe'
      BY <2>1, <3>1, InUse, Releases
    <3> QED
      BY <2>1, <2>2, <3>1, <3>2, <3>3, <1>nat, <1>old, <1>new
  <2>4. CASE deferred # <<>>
    <3>1. PICK r \in Reqs : r = Head(deferred)
      BY <2>4, DeferredFacts
    <3>2. service[r].pc = "none"
      BY <2>4, <3>1, DeferredFacts
    <3>3. /\ service' =
                 [service EXCEPT ![r] = [pc |-> "enter", post |-> TRUE, at |-> 0]]
          /\ UNCHANGED lockVars
      BY <1>5, <2>4, <3>1, Zenon DEF ServiceDeferred
    <3>4. OthersServed(r) /\ service'[r].pc = "enter" /\ service'[r].post
      BY <3>3, <1>srv DEF OthersServed
    <3>5. Servicing' = Servicing \cup {r} /\ r \notin Servicing
      BY <3>2, <3>4 DEF Servicing, OthersServed
    <3>6. Cardinality(Servicing') = Cardinality(Servicing) + 1
      BY <3>5, Counts, AddOne
    <3>7. /\ rundown' + failed' = rundown + failed
          /\ device' = device /\ LockSafe'
      BY <3>3, LockSame
    <3> QED
      BY <2>1, <2>2, <3>6, <3>7, <1>nat, <1>old, <1>new
  <2> QED
    BY <2>3, <2>4
<1>6. CASE Leave
  <2>1. /\ UNCHANGED <<req, pkt, service, finishing>>
        /\ leaving > 0 /\ leaving' = leaving - 1
        /\ ReleasedLock /\ device' = device
    BY <1>6 DEF Leave, ClassReleaseRemoveLock
  <2>2. /\ Outstanding' = Outstanding
        /\ Servicing' = Servicing
        /\ Completing' = Completing
    BY <2>1, UserFrames
  <2>3. rundown' + failed' = rundown + failed - 1 /\ LockSafe'
    BY <2>1, InUse, Releases
  <2> QED
    BY <2>1, <2>2, <2>3, <1>nat, <1>old, <1>new
<1>7. CASE ClassRemoveDevice
  <2>1. UNCHANGED <<req, service, leaving, finishing>>
    BY <1>7 DEF ClassRemoveDevice
  <2>2. Outstanding' = Outstanding /\ Servicing' = Servicing
    BY <2>1, UserFrames
  <2>3. CASE RemoveWait /\ UNCHANGED pkt
    <3>1. Completing' = Completing
      BY <2>3, UserFrames
    <3>2. /\ device = "present" /\ device' = "removing" /\ ReleasedLock
      BY <2>3 DEF RemoveWait
    <3>3. rundown' + failed' = rundown + failed - 1 /\ LockSafe'
      BY <3>2, InUse, Releases
    <3> QED
      BY <2>1, <2>2, <3>1, <3>2, <3>3, <1>nat, <1>old, <1>new
  <2>4. CASE /\ RemoveDone
            /\ pkt' = [k \in Packets |-> IF k \in In("free") THEN Packet("none")
                                                         ELSE pkt[k]]
    <3>1. Packet("none").state = "none"
      BY DEF Packet, IdlePacket
    <3>2. Completing' = Completing
      BY <2>4, <3>1 DEF Completing, In
    <3>3. /\ device = "removing" /\ device' = "removed" /\ rundown = 0
          /\ rundown' = rundown /\ failed' = failed
      BY <2>4 DEF RemoveDone, RundownOver
    <3>4. LockSafe'
      BY <3>3 DEF LockSafe, FailedWhileHeld, IInv
    <3> QED
      BY <2>1, <2>2, <3>2, <3>3, <3>4, <1>nat, <1>old, <1>new
  <2> QED
    BY <1>7, <2>3, <2>4 DEF ClassRemoveDevice
<1>8. CASE UNCHANGED vars
  <2>1. UNCHANGED <<req, service, pkt, leaving, finishing, lockVars>>
    BY <1>8 DEF vars
  <2>2. /\ Outstanding' = Outstanding
        /\ Servicing' = Servicing
        /\ Completing' = Completing
    BY <2>1, UserFrames
  <2>3. /\ rundown' + failed' = rundown + failed
        /\ device' = device /\ LockSafe'
    BY <2>1, LockSame
  <2> QED
    BY <2>1, <2>2, <2>3, <1>nat, <1>old, <1>new
<1> QED
  BY <1>1, <1>2, <1>3, <1>4, <1>5, <1>6, <1>7, <1>8 DEF Next, Work

(***************************************************************************)
(* ThrottleBalanced: each step                                             *)
(***************************************************************************)

Throttles(r) == service[r].pc \in {"gather", "send"} \/ req[r].left > 0

\* What a critical request adds, and what it takes back
LEMMA Interleaved ==
  ASSUME NEW c \in Nat, NEW i \in Nat, NEW C \in Nat, i <= c * C
  PROVE  /\ i + C <= (c + 1) * C
         /\ c >= 1 /\ i < C => 0 <= (c - 1) * C
         /\ c >= 1 /\ ~ i < C => i - C <= (c - 1) * C
<1>1. (c + 1) * C = c * C + C /\ (c - 1) * C = c * C - C
  OBVIOUS
<1>2. ASSUME c >= 1
      PROVE  0 <= (c - 1) * C
  BY <1>2
<1> QED
  BY <1>1, <1>2

LEMMA UnthrottledBalance ==
  ASSUME IInv, Unthrottled, critical >= 1
  PROVE  /\ critical' = critical - 1
         /\ interleave' <= critical' * ClassMaxInterleavePerCriticalIo
<1>1. /\ critical \in Nat /\ interleave \in Nat
      /\ ClassMaxInterleavePerCriticalIo \in Nat
      /\ interleave <= critical * ClassMaxInterleavePerCriticalIo
  BY XferAssumption DEF IInv, TypeOK, ThrottleBalanced
<1> DEFINE C == ClassMaxInterleavePerCriticalIo
<1>2. /\ critical' = critical - 1
      /\ interleave' = IF interleave < C THEN 0 ELSE interleave - C
  BY DEF Unthrottled
<1>3. /\ interleave < C => 0 <= (critical - 1) * C
      /\ ~ interleave < C => interleave - C <= (critical - 1) * C
  BY <1>1, Interleaved
<1> QED
  BY <1>2, <1>3

LEMMA ThrottleFrames ==
  /\ \A r : r \in Throttling <=> r \in Critical /\ Throttles(r)
  /\ \A r : r \in Throttling' <=> r \in Critical /\ Throttles(r)'
  /\ (\A q \in Critical : Throttles(q)' <=> Throttles(q)) =>
       Throttling' = Throttling
  /\ UNCHANGED pkt => In("unthrottling")' = In("unthrottling")
<1>1. /\ \A r : r \in Throttling <=> r \in Critical /\ Throttles(r)
      /\ \A r : r \in Throttling' <=> r \in Critical /\ Throttles(r)'
  BY DEF Throttling, Throttles
<1>2. UNCHANGED pkt => In("unthrottling")' = In("unthrottling")
  BY DEF In
<1> QED
  BY <1>1, <1>2

LEMMA PacketFrame ==
  ASSUME NEW p \in Packets, NEW x, NEW r, OnePacket(p, x, r),
         x # "unthrottling", pkt[p].state # "unthrottling"
  PROVE  In("unthrottling")' = In("unthrottling")
BY DEF In, OnePacket

LEMMA ThrottleStep ==
  ASSUME IInv, [Next]_vars
  PROVE  ThrottleBalanced'
<1>srv. service \in [Reqs -> ServiceType]
  BY Typed DEF IInv
<1>left. \A q \in Reqs : req[q].left \in Nat
  BY Typed DEF IInv, ReqType
<1>crit. Critical \subseteq Reqs /\ ClassMaxInterleavePerCriticalIo \in Nat
  BY XferAssumption
<1>nat. /\ Cardinality(Throttling) \in Nat
        /\ Cardinality(In("unthrottling")) \in Nat
        /\ critical \in Nat /\ interleave \in Nat
  BY Counts DEF IInv, TypeOK
<1>old. /\ critical = Cardinality(Throttling) + Cardinality(In("unthrottling"))
        /\ interleave <= critical * ClassMaxInterleavePerCriticalIo
  BY DEF IInv, ThrottleBalanced
<1>new. ASSUME critical' =
                 Cardinality(Throttling') + Cardinality(In("unthrottling")'),
               interleave' <= critical' * ClassMaxInterleavePerCriticalIo
        PROVE  ThrottleBalanced'
  BY <1>new DEF ThrottleBalanced
<1> USE DEF threadVars, throttleVars
<1>1. ASSUME NEW r \in Reqs, ClassReadWrite(r)
      PROVE  ThrottleBalanced'
  <2>1. /\ OthersSame(r) /\ req[r].left = 0 /\ req'[r].left = 0
        /\ service[r].pc = "none"
        /\ \/ UNCHANGED service
           \/ service' = [service EXCEPT ![r].pc = "enter"]
    BY <1>1, ReadWriteEffect DEF NoService
  <2>2. OthersServed(r) /\ service'[r].pc \in {"none", "enter"}
    BY <2>1, <1>srv DEF OthersServed, ServiceType
  <2>3. \A q \in Critical : Throttles(q)' <=> Throttles(q)
    BY <2>1, <2>2, <1>crit DEF OthersSame, SameReq, OthersServed,
       Throttles
  <2>4. UNCHANGED <<pkt, throttleVars>>
    BY <1>1 DEF ClassReadWrite
  <2>5. Throttling' = Throttling /\ In("unthrottling")' = In("unthrottling")
    BY <2>3, <2>4, ThrottleFrames
  <2> QED
    BY <2>4, <2>5, <1>old, <1>new
<1>2. ASSUME NEW r \in Reqs, Serve(r)
      PROVE  ThrottleBalanced'
  <2>1. CASE Enter(r)
    <3>1. /\ UNCHANGED <<req, pkt>> /\ service[r].pc = "enter"
          /\ service' = [service EXCEPT ![r].pc = IF Throttled(r) THEN "defer"
                                                              ELSE "gather"]
      BY <2>1 DEF Enter
    <3>2. /\ OthersServed(r)
          /\ req[r].left = 0
          /\ In("unthrottling")' = In("unthrottling")
      BY <3>1, <1>srv, ThrottleFrames DEF OthersServed, ServiceType,
         IInv, ServedActive
    <3>3. CASE r \in Critical
      <4>1. service'[r].pc = "gather"
        BY <3>1, <3>3, <1>srv DEF Throttled, ServiceType
      <4>2. /\ r \notin Throttling
            /\ Throttling' = Throttling \cup {r}
        BY <3>1, <3>2, <3>3, <4>1, <1>crit, ThrottleFrames DEF
           OthersServed, Throttles
      <4>3. Cardinality(Throttling') = Cardinality(Throttling) + 1
        BY <4>2, Counts, AddOne
      <4>4. /\ critical' = critical + 1
            /\ interleave' = interleave + ClassMaxInterleavePerCriticalIo
        BY <2>1, <3>3, Zenon DEF Enter
      <4>5. interleave' <= critical' * ClassMaxInterleavePerCriticalIo
        BY <4>4, <1>nat, <1>crit, <1>old, Interleaved
      <4> QED
        BY <3>2, <4>3, <4>4, <4>5, <1>nat, <1>old, <1>new
    <3>4. CASE r \notin Critical
      <4>1. \A q \in Critical : Throttles(q)' <=> Throttles(q)
        BY <3>1, <3>2, <3>4, <1>crit DEF OthersServed, Throttles
      <4>2. /\ UNCHANGED critical
            /\ \/ UNCHANGED interleave
               \/ interleave # 0 /\ interleave' = interleave - 1
        BY <2>1, <3>4, Zenon DEF Enter
      <4>3. Throttling' = Throttling /\ interleave' <= interleave
        BY <4>1, <4>2, <1>nat, ThrottleFrames
      <4>4. /\ interleave' \in Nat
            /\ critical' * ClassMaxInterleavePerCriticalIo \in Nat
        BY <4>2, <1>nat, <1>crit
      <4>5. interleave' <= critical' * ClassMaxInterleavePerCriticalIo
        BY <4>2, <4>3, <4>4, <1>nat, <1>old
      <4> QED
        BY <3>2, <4>2, <4>3, <4>5, <1>old, <1>new
    <3> QED
      BY <3>3, <3>4
  <2>2. CASE Gather(r)
    <3>1. /\ UNCHANGED throttleVars /\ service[r].pc = "gather"
          /\ \/ UNCHANGED service
             \/ service' = [service EXCEPT ![r].pc = "send"]
      BY <2>2, Zenon DEF Gather
    <3>2. OthersServed(r) /\ service'[r].pc \in {"gather", "send"}
      BY <3>1, <1>srv DEF OthersServed, ServiceType
    <3>3. \/ UNCHANGED req
          \/ req' =
               [req EXCEPT ![r] = Split(req[r], NumPackets(req[r].transfer))]
      BY <2>2, Zenon DEF Gather
    <3>4. req[r].transfer \in Transfers
      BY <3>1 DEF IInv, ServedActive
    <3>5. OthersSame(r)
      BY <3>3, <3>4, NumPacketsFacts, SplitEffect DEF OthersSame,
         SameReq
    <3>6. \A q \in Critical : Throttles(q)' <=> Throttles(q)
      BY <3>1, <3>2, <3>5, <1>crit DEF OthersSame, SameReq,
         OthersServed, Throttles
    <3>7. PICK h \in Available : OnePacket(h, "held", r)
      BY <2>2, GatherEffect
    <3>8. h \in Packets /\ pkt[h].state \in {"free", "none"}
      BY <3>7 DEF Available, In
    <3>9. Throttling' = Throttling /\ In("unthrottling")' = In("unthrottling")
      BY <3>6, <3>7, <3>8, ThrottleFrames, PacketFrame
    <3> QED
      BY <3>1, <3>9, <1>old, <1>new
  <2>3. CASE GatherTooFew(r)
    <3>1. /\ UNCHANGED throttleVars /\ service[r].pc = "gather"
          /\ service' = [service EXCEPT ![r] = NoService]
          /\ req' = [req EXCEPT ![r] = Split(req[r], 1)]
      BY <2>3, EndServiceEffect DEF GatherTooFew
    <3>2. OthersSame(r) /\ req'[r].left = 1 /\ OthersServed(r)
      BY <3>1, SplitEffect, <1>srv DEF OthersServed
    <3>3. \A q \in Critical : Throttles(q)' <=> Throttles(q)
      BY <3>1, <3>2, <1>crit DEF OthersSame, SameReq, OthersServed,
         Throttles
    <3>4. PICK keep \in HeldFor(r) :
            /\ pkt'[keep].state = "queued"
            /\ \A k \in HeldFor(r) : k # keep => pkt'[k].state = "free"
            /\ \A k \in Packets : k \notin HeldFor(r) => pkt'[k] = pkt[k]
      BY <2>3, TooFewEffect
    <3>5. In("unthrottling")' = In("unthrottling")
      BY <3>4 DEF In, HeldFor
    <3>6. Throttling' = Throttling
      BY <3>3, ThrottleFrames
    <3> QED
      BY <3>1, <3>5, <3>6, <1>old, <1>new
  <2>4. CASE GatherNone(r)
    <3>1. /\ UNCHANGED <<req, pkt>> /\ service[r].pc = "gather"
          /\ service' = [service EXCEPT ![r].pc = "defer"]
      BY <2>4 DEF GatherNone
    <3>2. /\ OthersServed(r) /\ service'[r].pc = "defer" /\ req[r].left = 0
          /\ In("unthrottling")' = In("unthrottling")
      BY <3>1, <1>srv, ThrottleFrames DEF OthersServed, ServiceType,
         IInv, ServedActive
    <3>3. CASE r \in Critical
      <4>1. /\ r \in Throttling
            /\ Throttling' = Throttling \ {r}
        BY <3>1, <3>2, <3>3, <1>crit, ThrottleFrames DEF OthersServed,
           Throttles
      <4>2. Cardinality(Throttling') = Cardinality(Throttling) - 1
        BY <4>1, Counts, RemoveOne
      <4>3. Unthrottled /\ critical >= 1
        BY <2>4, <3>1, <3>3, CriticalCounted DEF GatherNone
      <4> QED
        BY <3>2, <4>2, <4>3, UnthrottledBalance, <1>nat, <1>old,
           <1>new
    <3>4. CASE r \notin Critical
      <4>1. \A q \in Critical : Throttles(q)' <=> Throttles(q)
        BY <3>1, <3>2, <3>4, <1>crit DEF OthersServed, Throttles
      <4>2. UNCHANGED throttleVars
        BY <2>4, <3>4, Zenon DEF GatherNone
      <4>3. Throttling' = Throttling
        BY <4>1, ThrottleFrames
      <4> QED
        BY <3>2, <4>2, <4>3, <1>old, <1>new
    <3> QED
      BY <3>3, <3>4
  <2>5. CASE Send(r)
    <3>1. PICK h \in HeldFor(r), x \in {"queued", "sent"} : OnePacket(h, x, r)
      BY <2>5, SendEffect
    <3>2. /\ UNCHANGED <<req, critical, interleave>> /\ service[r].pc = "send"
          /\ \/ service' = [service EXCEPT ![r] = NoService]
             \/ service' =
                    [service EXCEPT ![r].at = @ + HwMax(req[r].transfer)]
      BY <2>5, SendEffect2, EndServiceEffect
    <3>3. h \in Packets /\ pkt[h].state = "held" /\ PieceOf(h, r)
      BY <3>1, <3>2 DEF HeldFor, In, PieceOf
    <3>4. req[r].left > 0
      BY <3>3, NoPieces, <1>left
    <3>5. OthersServed(r)
      BY <3>2, <1>srv DEF OthersServed
    <3>6. \A q \in Critical : Throttles(q)' <=> Throttles(q)
      BY <3>2, <3>4, <3>5, <1>crit DEF OthersServed, Throttles
    <3>7. Throttling' = Throttling /\ In("unthrottling")' = In("unthrottling")
      BY <3>1, <3>3, <3>6, ThrottleFrames, PacketFrame
    <3> QED
      BY <3>2, <3>7, <1>old, <1>new
  <2>6. CASE Defer(r)
    <3>1. /\ UNCHANGED <<req, pkt, throttleVars>> /\ service[r].pc = "defer"
          /\ service' = [service EXCEPT ![r] = NoService]
      BY <2>6, EndServiceEffect DEF Defer
    <3>2. OthersServed(r) /\ service'[r].pc = "none" /\ req[r].left = 0
      BY <3>1, <1>srv DEF OthersServed, NoService, IInv, ServedActive
    <3>3. \A q \in Critical : Throttles(q)' <=> Throttles(q)
      BY <3>1, <3>2, <1>crit DEF OthersServed, Throttles
    <3>4. Throttling' = Throttling /\ In("unthrottling")' = In("unthrottling")
      BY <3>1, <3>3, ThrottleFrames
    <3> QED
      BY <3>1, <3>4, <1>old, <1>new
  <2> QED
    BY <1>2, <2>1, <2>2, <2>3, <2>4, <2>5, <2>6 DEF Serve
<1>3. ASSUME NEW p \in Packets, Returned(p)
      PROVE  ThrottleBalanced'
  <2>1. CASE Succeeded(p)
    <3>1. /\ /\ UNCHANGED <<service, critical, interleave>>
          /\ pkt[p].state = "sent"
          /\ \A q \in Reqs : SameReq(q)
          /\ \E x \in {"queued", "counting"} : OnePacket(p, x, pkt[p].irp)
      BY <2>1, ReturnedEffect DEF Returned
    <3>2. \A q \in Critical : Throttles(q)' <=> Throttles(q)
      BY <3>1, <1>crit DEF SameReq, Throttles
    <3>3. Throttling' = Throttling /\ In("unthrottling")' = In("unthrottling")
      BY <3>1, <3>2, ThrottleFrames, PacketFrame
    <3> QED
      BY <3>1, <3>3, <1>old, <1>new
  <2>2. CASE FailedForGood(p)
    <3>1. /\ /\ UNCHANGED <<service, critical, interleave>>
          /\ pkt[p].state = "sent"
          /\ \A q \in Reqs : SameReq(q)
          /\ \E x \in {"queued", "counting"} : OnePacket(p, x, pkt[p].irp)
      BY <2>2, ReturnedEffect DEF Returned
    <3>2. \A q \in Critical : Throttles(q)' <=> Throttles(q)
      BY <3>1, <1>crit DEF SameReq, Throttles
    <3>3. Throttling' = Throttling /\ In("unthrottling")' = In("unthrottling")
      BY <3>1, <3>2, ThrottleFrames, PacketFrame
    <3> QED
      BY <3>1, <3>3, <1>old, <1>new
  <2>3. CASE FailedOnce(p)
    <3>1. /\ /\ UNCHANGED <<service, critical, interleave>>
          /\ pkt[p].state = "sent"
          /\ \A q \in Reqs : SameReq(q)
          /\ \E x \in {"queued", "counting"} : OnePacket(p, x, pkt[p].irp)
      BY <2>3, ReturnedEffect DEF Returned
    <3>2. \A q \in Critical : Throttles(q)' <=> Throttles(q)
      BY <3>1, <1>crit DEF SameReq, Throttles
    <3>3. Throttling' = Throttling /\ In("unthrottling")' = In("unthrottling")
      BY <3>1, <3>2, ThrottleFrames, PacketFrame
    <3> QED
      BY <3>1, <3>3, <1>old, <1>new
  <2>4. CASE FailedForMemory(p)
    <3>1. /\ /\ UNCHANGED <<service, critical, interleave>>
          /\ pkt[p].state = "sent"
          /\ \A q \in Reqs : SameReq(q)
          /\ \E x \in {"queued", "counting"} : OnePacket(p, x, pkt[p].irp)
      BY <2>4, ReturnedEffect DEF Returned
    <3>2. \A q \in Critical : Throttles(q)' <=> Throttles(q)
      BY <3>1, <1>crit DEF SameReq, Throttles
    <3>3. Throttling' = Throttling /\ In("unthrottling")' = In("unthrottling")
      BY <3>1, <3>2, ThrottleFrames, PacketFrame
    <3> QED
      BY <3>1, <3>3, <1>old, <1>new
  <2> QED
    BY <1>3, <2>1, <2>2, <2>3, <2>4 DEF Returned
<1>4. ASSUME NEW p \in Packets, Finish(p)
      PROVE  ThrottleBalanced'
  <2>1. CASE RetryDpc(p)
    <3>1. UNCHANGED <<req, service, throttleVars>> /\ pkt[p].state = "queued"
      BY <2>1 DEF RetryDpc
    <3>2. OnePacket(p, "sent", pkt[p].irp)
      BY <2>1, FinishEffect
    <3>3. \A q \in Critical : Throttles(q)' <=> Throttles(q)
      BY <3>1 DEF Throttles
    <3>4. Throttling' = Throttling /\ In("unthrottling")' = In("unthrottling")
      BY <3>1, <3>2, <3>3, ThrottleFrames, PacketFrame
    <3> QED
      BY <3>1, <3>4, <1>old, <1>new
  <2>2. CASE CountDown(p)
    <3>1. PICK r \in Reqs : r = pkt[p].irp
      BY <2>2, CountDownEffect
    <3>2. /\ OthersSame(r) /\ req[r].left \in Nat \ {0}
          /\ req'[r].left = req[r].left - 1
      BY <2>2, <3>1, CountDownEffect
    <3>3. UNCHANGED <<service, throttleVars>> /\ pkt[p].state = "counting"
      BY <2>2 DEF CountDown
    <3>4. CASE r \in Critical /\ req[r].left = 1
      <4>1. OnePacket(p, "unthrottling", NoReq)
        BY <2>2, <3>1, <3>4, FinishEffect
      <4>2. In("unthrottling")' = In("unthrottling") \cup {p}
        BY <4>1 DEF In, OnePacket
      <4>3. p \notin In("unthrottling")
        BY <3>3 DEF In
      <4>4. Cardinality(In("unthrottling")') = Cardinality(In("unthrottling")) + 1
        BY <4>2, <4>3, Counts, AddOne
      <4>5. service[r].pc = "none"
        BY <3>1, <3>3, <3>4, LastFacts
      <4>6. /\ r \in Throttling
            /\ Throttling' = Throttling \ {r}
        BY <3>2, <3>3, <3>4, <4>5, <1>crit, ThrottleFrames DEF
           OthersSame, SameReq, Throttles
      <4>7. Cardinality(Throttling') = Cardinality(Throttling) - 1
        BY <4>6, Counts, RemoveOne
      <4> QED
        BY <3>3, <4>4, <4>7, <1>nat, <1>old, <1>new
    <3>5. CASE ~ (r \in Critical /\ req[r].left = 1)
      <4>1. OnePacket(p, "freeing", NoReq)
        BY <2>2, <3>1, <3>5, FinishEffect
      <4>2. \A q \in Critical : Throttles(q)' <=> Throttles(q)
        BY <3>2, <3>3, <3>5, <1>crit DEF OthersSame, SameReq,
           Throttles
      <4>3. /\ Throttling' = Throttling
            /\ In("unthrottling")' = In("unthrottling")
        BY <3>3, <4>1, <4>2, ThrottleFrames, PacketFrame
      <4> QED
        BY <3>3, <4>3, <1>old, <1>new
    <3> QED
      BY <3>4, <3>5
  <2>3. CASE Unthrottle(p)
    <3>1. /\ UNCHANGED <<req, service>> /\ Unthrottled
          /\ pkt[p].state = "unthrottling"
      BY <2>3 DEF Unthrottle
    <3>2. OnePacket(p, "freeing", pkt[p].irp) /\ critical >= 1
      BY <2>3, <3>1, FinishEffect, CriticalCounted
    <3>3. Throttling' = Throttling
      BY <3>1, ThrottleFrames DEF Throttles
    <3>4. /\ p \in In("unthrottling")
          /\ In("unthrottling")' = In("unthrottling") \ {p}
      BY <3>1, <3>2 DEF In, OnePacket
    <3>5. Cardinality(In("unthrottling")') = Cardinality(In("unthrottling")) - 1
      BY <3>4, Counts, RemoveOne
    <3> QED
      BY <3>1, <3>2, <3>3, <3>5, UnthrottledBalance, <1>nat, <1>old,
         <1>new
  <2>4. CASE Free(p)
    <3>1. UNCHANGED <<req, service, throttleVars>> /\ pkt[p].state = "freeing"
      BY <2>4 DEF Free
    <3>2. \E x \in {"none", "free"} : OnePacket(p, x, NoReq)
      BY <2>4, FinishEffect
    <3>3. \A q \in Critical : Throttles(q)' <=> Throttles(q)
      BY <3>1 DEF Throttles
    <3>4. Throttling' = Throttling /\ In("unthrottling")' = In("unthrottling")
      BY <3>1, <3>2, <3>3, ThrottleFrames, PacketFrame
    <3> QED
      BY <3>1, <3>4, <1>old, <1>new
  <2> QED
    BY <1>4, <2>1, <2>2, <2>3, <2>4 DEF Finish
<1>5. CASE ServiceDeferred
  <2>1. UNCHANGED <<req, pkt, throttleVars>>
    BY <1>5 DEF ServiceDeferred
  <2>2. CASE deferred = <<>>
    <3>1. UNCHANGED service
      BY <1>5, <2>2, Zenon DEF ServiceDeferred
    <3>2. Throttling' = Throttling /\ In("unthrottling")' = In("unthrottling")
      BY <2>1, <3>1, ThrottleFrames DEF Throttles
    <3> QED
      BY <2>1, <3>2, <1>old, <1>new
  <2>3. CASE deferred # <<>>
    <3>1. PICK r \in Reqs : r = Head(deferred)
      BY <2>3, DeferredFacts
    <3>2. service[r].pc = "none"
      BY <2>3, <3>1, DeferredFacts
    <3>3. service' =
           [service EXCEPT ![r] = [pc |-> "enter", post |-> TRUE, at |-> 0]]
      BY <1>5, <2>3, <3>1, Zenon DEF ServiceDeferred
    <3>4. OthersServed(r) /\ service'[r].pc = "enter"
      BY <3>3, <1>srv DEF OthersServed
    <3>5. \A q \in Critical : Throttles(q)' <=> Throttles(q)
      BY <2>1, <3>2, <3>4, <1>crit DEF OthersServed, Throttles
    <3>6. Throttling' = Throttling /\ In("unthrottling")' = In("unthrottling")
      BY <2>1, <3>5, ThrottleFrames
    <3> QED
      BY <2>1, <3>6, <1>old, <1>new
  <2> QED
    BY <2>2, <2>3
<1>6. CASE Leave
  <2>1. UNCHANGED <<req, service, pkt, throttleVars>>
    BY <1>6 DEF Leave
  <2>2. Throttling' = Throttling /\ In("unthrottling")' = In("unthrottling")
    BY <2>1, ThrottleFrames DEF Throttles
  <2> QED
    BY <2>1, <2>2, <1>old, <1>new
<1>7. CASE ClassRemoveDevice
  <2>1. UNCHANGED <<req, service, throttleVars>>
    BY <1>7 DEF ClassRemoveDevice
  <2>2. \/ UNCHANGED pkt
        \/ \A k \in Packets :
             pkt'[k] = IF k \in In("free") THEN Packet("none") ELSE pkt[k]
    BY <1>7 DEF ClassRemoveDevice
  <2>3. Packet("none").state = "none"
    BY DEF Packet, IdlePacket
  <2>4. In("unthrottling")' = In("unthrottling")
    BY <2>2, <2>3 DEF In
  <2>5. Throttling' = Throttling
    BY <2>1, ThrottleFrames DEF Throttles
  <2> QED
    BY <2>1, <2>4, <2>5, <1>old, <1>new
<1>8. CASE UNCHANGED vars
  <2>1. UNCHANGED <<req, service, pkt, throttleVars>>
    BY <1>8 DEF vars
  <2>2. Throttling' = Throttling /\ In("unthrottling")' = In("unthrottling")
    BY <2>1, ThrottleFrames DEF Throttles
  <2> QED
    BY <2>1, <2>2, <1>old, <1>new
<1> QED
  BY <1>1, <1>2, <1>3, <1>4, <1>5, <1>6, <1>7, <1>8 DEF Next, Work

(***************************************************************************)
(* Theorems                                                                *)
(***************************************************************************)

LEMMA InitIInv ==
  Init => IInv
<1> SUFFICES ASSUME Init
             PROVE  IInv
  OBVIOUS
<1>1. \A r \in Reqs : req[r] = NewReq /\ service[r] = NoService
  BY DEF Init
<1>2. \A p \in Packets : \E s \in {"free", "none"} : pkt[p] = Packet(s)
  BY DEF Init
<1>3. \A s \in {"free", "none"} :
        Packet(s) \in PktType /\ Packet(s).state = s
  BY PacketType DEF PacketState
<1>4. \A p \in Packets : pkt[p].state \in {"free", "none"}
  BY <1>2, <1>3
<1>5. TypeOK
  <2>1. NoService \in ServiceType
    BY DEF NoService, ServiceType
  <2>2. req \in [Reqs -> ReqType]
    BY NewReqType DEF Init
  <2>3. service \in [Reqs -> ServiceType]
    BY <2>1 DEF Init
  <2>4. pkt \in [Packets -> PktType]
    BY <1>2, <1>3 DEF Init
  <2>5. LockTypeOK
    BY DEF Init, LockInit, LockTypeOK, Device
  <2> QED
    BY <2>2, <2>3, <2>4, <2>5 DEF TypeOK, ReqType, PktType, ServiceType, Init
<1>6. /\ \A r : HeldFor(r) = {}
      /\ \A r \in Reqs : Uncounted(r) = {}
      /\ Outstanding = {} /\ Servicing = {} /\ Completing = {}
      /\ Throttling = {} /\ In("unthrottling") = {}
  <2>1. \A s : s \notin {"free", "none"} => In(s) = {}
    BY <1>4 DEF In
  <2>2. \A r \in Reqs : /\ req[r].state = "new" /\ req[r].left = 0
                        /\ service[r].pc = "none"
    BY <1>1, NewReqType DEF NoService
  <2>3. Critical \subseteq Reqs
    BY XferAssumption
  <2>4. \A r : HeldFor(r) = {}
    BY <2>1 DEF HeldFor
  <2> QED
    BY <2>1, <2>2, <2>3, <2>4 DEF Uncounted, Outstanding, Servicing,
       Completing, Throttling
<1>7. Cardinality({}) = 0
  BY FS_EmptySet
<1>8. ServedActive
  BY <1>1, NewReqType DEF ServedActive, NoService
<1>9. DeferredWaits
  BY DEF Init, DeferredWaits
<1>10. PacketsOwned
  BY <1>4 DEF PacketsOwned
<1>11. HeldSuffice
  BY <1>1 DEF HeldSuffice, NoService
<1>12. PiecesCounted
  BY <1>1, <1>6, <1>7, NewReqType DEF PiecesCounted
<1>13. FailedWhileHeld /\ (device = "removed" => rundown = 0)
  BY DEF FailedWhileHeld, Init, LockInit
<1>14. LockCounts
  BY <1>6, <1>7 DEF LockCounts, Users, Init, LockInit
<1>15. ThrottleBalanced
  <2>1. ClassMaxInterleavePerCriticalIo \in Nat
    BY XferAssumption
  <2>2. 0 <= 0 * ClassMaxInterleavePerCriticalIo
    BY <2>1
  <2>3. critical = 0 /\ interleave = 0
    BY DEF Init
  <2> QED
    BY <1>6, <1>7, <2>2, <2>3 DEF ThrottleBalanced
<1> QED
  BY <1>5, <1>8, <1>9, <1>10, <1>11, <1>12, <1>13, <1>14, <1>15 DEF IInv

LEMMA IInvStep ==
  IInv /\ [Next]_vars => IInv'
BY TypeStep, ServedStep, DeferredStep, OwnedStep, SufficesStep, CountedStep,
   LockStep, ThrottleStep DEF IInv, LockSafe

\* The invariant holds in every reachable state.
THEOREM Inductive ==
  Spec => []IInv
BY InitIInv, IInvStep, PTL DEF Spec

\* Every variable keeps its type: in particular, no packet is retried more
\* often than RetryTransferPacket allows, and no count goes below zero.
THEOREM TypeCorrect ==
  Spec => []TypeOK
<1>1. IInv => TypeOK
  BY DEF IInv
<1> QED
  BY <1>1, Inductive, PTL

\* The count in DriverContext[0] is the number of pieces that are not counted
\* yet, so that TransferPktComplete completes a request once, with the last
\* of its pieces, whichever that is.
THEOREM CountsPieces ==
  Spec => []PiecesCounted
<1>1. IInv => PiecesCounted
  BY DEF IInv
<1> QED
  BY <1>1, Inductive, PTL

\* The remove lock, with the acquisitions that failed and took no reference,
\* counts those that use the device: ClassRemoveDevice gets past the wait for
\* it only when no request, packet, thread or completion routine is left.
THEOREM OutlivesUse ==
  Spec => []DeviceOutlivesUse
<1>1. ASSUME IInv
      PROVE  DeviceOutlivesUse
  <2>1. rundown + failed = Users + (IF device = "present" THEN 1 ELSE 0)
    BY <1>1 DEF IInv, LockCounts
  <2>2. ASSUME device = "removed"
        PROVE  /\ Users = 0 /\ deferred = <<>>
               /\ \A p \in Packets : pkt[p].state \in {"none", "free"}
    <3>1. rundown = 0 /\ failed = 0
      BY <1>1, <2>2 DEF IInv, FailedWhileHeld
    <3>2. Users = 0
      BY <2>1, <2>2, <3>1, Counts, <1>1 DEF IInv, TypeOK, Users
    <3>3. /\ Cardinality(Outstanding) = 0 /\ Cardinality(Servicing) = 0
          /\ Cardinality(Completing) = 0
      BY <3>2, Counts, <1>1 DEF IInv, TypeOK, Users
    <3>4. Outstanding = {} /\ Completing = {}
      BY <3>3, Counts, FS_EmptySet
    <3>5. deferred = <<>>
      BY <1>1, <3>4, DeferredFacts DEF Outstanding
    <3>6. ASSUME NEW p \in Packets
          PROVE  pkt[p].state \in {"none", "free"}
      <4>1. pkt[p].state \in PacketState
        BY Typed, <1>1 DEF IInv, PktType
      <4>2. pkt[p].state \notin {"counting", "unthrottling", "freeing"}
        BY <3>4 DEF Completing, In
      <4>3. pkt[p].state \notin {"queued", "sent"}
        BY <1>1, <3>4, PieceFacts DEF Outstanding
      <4>4. pkt[p].state # "held"
        BY <1>1, <3>4 DEF IInv, PacketsOwned, ServedActive, Outstanding
      <4> QED
        BY <4>1, <4>2, <4>3, <4>4 DEF PacketState
    <3> QED
      BY <3>2, <3>5, <3>6
  <2> QED
    BY <2>1, <2>2 DEF DeviceOutlivesUse
<1> QED
  BY <1>1, Inductive, PTL

\* Whatever way a critical paging request takes through ServiceTransferRequest,
\* deferral or TransferPktComplete, NumHighPriorityPagingIo counts it exactly
\* while others have to give way to it, and no more of them may be let go
\* ahead than the critical requests together allow.
THEOREM ThrottleIsBalanced ==
  Spec => []ThrottleBalanced
<1>1. IInv => ThrottleBalanced
  BY DEF IInv
<1> QED
  BY <1>1, Inductive, PTL

(***************************************************************************)
(* Which sector of a request is where                                      *)
(***************************************************************************)

\* The part of the buffer that was handed out to packets: it has no pieces at
\* first, then those that were sent, and then all of them.
HandedOut(r) ==
  IF service[r].pc = "send" THEN service[r].at
  ELSE IF req[r].left = 0 THEN 0
  ELSE req[r].transfer.length

\* Packet p is to transfer sector n of request r: now, or in a later chunk.
Carries(p, r, n) ==
  /\ pkt[p].state \in {"queued", "sent"} /\ pkt[p].irp = r
  /\ n \in pkt[p].at .. pkt[p].at + pkt[p].len + pkt[p].rest - 1

\* A piece has failed, and the request with it.
FailedPiece(p, r) ==
  pkt[p].state = "counting" /\ pkt[p].irp = r /\ ~ pkt[p].ok

Spoilt(r) == ~ req[r].ok \/ \E p \in Packets : FailedPiece(p, r)

Within(r) ==
  /\ \A n \in req[r].sectors : n \in 0 .. HandedOut(r) - 1
  /\ \A p \in Packets, n \in Nat :
       Carries(p, r, n) => n \in 0 .. HandedOut(r) - 1

Apart(r) ==
  /\ \A p \in Packets, n \in Nat : Carries(p, r, n) => n \notin req[r].sectors
  /\ \A p, q \in Packets, n \in Nat :
       Carries(p, r, n) /\ Carries(q, r, n) => p = q

Covered(r) ==
  \/ Spoilt(r)
  \/ \A n \in 0 .. HandedOut(r) - 1 :
       n \in req[r].sectors \/ \E p \in Packets : Carries(p, r, n)

\* What was handed out is transferred, or on its way, each sector once.
Partition(r) ==
  /\ req[r].info = Cardinality(req[r].sectors)
  /\ Within(r) /\ Apart(r) /\ Covered(r)

WholeInv ==
  /\ \A r \in Reqs :
       /\ req[r].state = "new" => req[r].info = 0 /\ req[r].sectors = {}
       /\ req[r].state = "active" => Partition(r)
  /\ \A p \in Packets :
       pkt[p].state \in {"queued", "sent"} => pkt[p].low \/ pkt[p].rest = 0

LEMMA HandedOutFacts ==
  ASSUME IInv, NEW r \in Reqs, req[r].state = "active"
  PROVE  /\ HandedOut(r) \in Nat /\ req[r].transfer.length \in Nat
         /\ HandedOut(r) <= req[r].transfer.length
<1>1. /\ req[r].transfer \in Transfers
  BY DEF IInv, ServedActive
<1>2. req[r].transfer.length \in Nat \ {0} /\ service[r].at \in Nat
  BY <1>1, Typed, HwMaxFacts DEF IInv, ServiceType
<1>3. service[r].pc = "send" =>
        service[r].at < req[r].transfer.length
  BY <1>2, SendFacts
<1> QED
  BY <1>2, <1>3 DEF HandedOut

\* A packet that carries a sector of a request is one of its pieces.
LEMMA CarriesFacts ==
  ASSUME IInv, NEW p \in Packets, NEW r, NEW n
  PROVE  /\ Carries(p, r, n) =>
              /\ PieceOf(p, r) /\ n \in Nat
              /\ pkt[p].at <= n /\ n < pkt[p].at + pkt[p].len + pkt[p].rest
         /\ FailedPiece(p, r) => PieceOf(p, r)
<1>1. pkt[p].at \in Nat /\ pkt[p].len \in Nat /\ pkt[p].rest \in Nat
  BY Typed DEF IInv, PktType
<1> QED
  BY <1>1 DEF Carries, FailedPiece, PieceOf

\* The data of a request
SameData(r) ==
  /\ req'[r].info = req[r].info /\ req'[r].sectors = req[r].sectors
  /\ HandedOut(r)' = HandedOut(r)

LEMMA PartitionKept ==
  ASSUME NEW r, Partition(r), SameData(r),
         Spoilt(r) => Spoilt(r)',
         \A p \in Packets, n \in Nat : Carries(p, r, n)' <=> Carries(p, r, n)
  PROVE  Partition(r)'
<1>1. req'[r].info = Cardinality(req'[r].sectors)
  BY DEF Partition, SameData
<1>2. Within(r)'
  BY DEF Partition, SameData, Within
<1>3. Apart(r)'
  BY DEF Partition, SameData, Apart
<1>4. Covered(r)'
  BY DEF Partition, SameData, Covered
<1> QED
  BY <1>1, <1>2, <1>3, <1>4 DEF Partition

\* A packet that is neither before nor after a step a piece of the request
Aside(p, r) ==
  pkt[p].irp # r \/ pkt[p].state \notin {"queued", "sent", "counting"}

AsideKept(r) ==
  \A p \in Packets :
    pkt'[p] # pkt[p] => Aside(p, r) /\ Aside(p, r)'

LEMMA PartitionFrame ==
  ASSUME NEW r, Partition(r), SameData(r), req'[r].ok = req[r].ok,
         AsideKept(r)
  PROVE  Partition(r)'
<1>1. \A p \in Packets, n \in Nat : Carries(p, r, n)' <=> Carries(p, r, n)
  BY DEF AsideKept, Aside, Carries
<1>2. \A p \in Packets : FailedPiece(p, r)' <=> FailedPiece(p, r)
  BY DEF AsideKept, Aside, FailedPiece
<1>3. Spoilt(r) => Spoilt(r)'
  BY <1>2 DEF Spoilt
<1> QED
  BY <1>1, <1>3, PartitionKept

\* Before a request is split, none of it is transferred or on its way.
LEMMA FreshPartition ==
  ASSUME NEW r, req'[r].info = 0, req'[r].sectors = {}, HandedOut(r)' = 0,
         \A p \in Packets, n \in Nat : ~ Carries(p, r, n)'
  PROVE  Partition(r)'
<1>1. req'[r].info = Cardinality(req'[r].sectors)
  BY FS_EmptySet
<1>2. Within(r)' /\ Apart(r)' /\ Covered(r)'
  BY DEF Within, Apart, Covered
<1> QED
  BY <1>1, <1>2 DEF Partition

\* The next part of the buffer is given to one more packet.
LEMMA GivenOut ==
  ASSUME NEW r, Partition(r), HandedOut(r) \in Nat, HandedOut(r)' \in Nat,
         HandedOut(r) <= HandedOut(r)',
         req'[r].info = req[r].info, req'[r].sectors = req[r].sectors,
         Spoilt(r) => Spoilt(r)',
         NEW p \in Packets,
         \A n \in Nat : ~ Carries(p, r, n),
         \A n \in Nat :
           Carries(p, r, n)' <=> HandedOut(r) <= n /\ n < HandedOut(r)',
         \A k \in Packets, n \in Nat :
           k # p => (Carries(k, r, n)' <=> Carries(k, r, n))
  PROVE  Partition(r)'
<1> DEFINE h == HandedOut(r)
           x == HandedOut(r)'
           S == req[r].sectors
<1>1. h \in Nat /\ x \in Nat /\ h <= x
  OBVIOUS
<1>2. /\ \A n \in S : n \in 0 .. h - 1
      /\ \A k \in Packets, n \in Nat : Carries(k, r, n) => n \in 0 .. h - 1
  BY DEF Partition, Within
<1>3. /\ \A n \in Nat : Carries(p, r, n)' <=> h <= n /\ n < x
      /\ req'[r].sectors = S /\ HandedOut(r)' = x
  OBVIOUS
<1> HIDE DEF h, x, S
<1>4. Within(r)'
  BY <1>1, <1>2, <1>3 DEF Within
<1>5. \A k \in Packets, n \in Nat : Carries(k, r, n)' => n \notin S
  BY <1>1, <1>2, <1>3 DEF Partition, Apart, S
<1>6. ASSUME NEW k \in Packets, NEW q \in Packets, NEW n \in Nat,
             Carries(k, r, n)', Carries(q, r, n)'
      PROVE  k = q
  <2>1. CASE k # p /\ q # p
    BY <1>6, <2>1 DEF Partition, Apart
  <2>2. CASE k = p /\ q # p
    BY <1>1, <1>2, <1>3, <1>6, <2>2
  <2>3. CASE k # p /\ q = p
    BY <1>1, <1>2, <1>3, <1>6, <2>3
  <2> QED
    BY <2>1, <2>2, <2>3
<1>7. ASSUME ~ Spoilt(r)', NEW n \in 0 .. x - 1
      PROVE  n \in S \/ \E k \in Packets : Carries(k, r, n)'
  <2>1. CASE n >= h
    BY <1>1, <1>3, <1>7, <2>1
  <2>2. CASE n < h
    <3>1. n \in 0 .. h - 1 /\ n \in Nat
      BY <1>1, <1>7, <2>2
    <3>2. n \in S \/ \E k \in Packets : Carries(k, r, n)
      BY <1>7, <3>1 DEF Partition, Covered, h, S
    <3> QED
      BY <3>1, <3>2
  <2> QED
    BY <1>1, <1>7, <2>1, <2>2
<1>8. req'[r].info = Cardinality(req'[r].sectors)
  BY DEF Partition
<1> QED
  BY <1>3, <1>4, <1>5, <1>6, <1>7, <1>8 DEF Partition, Apart, Covered

\* A packet has transferred the first len of the sectors that it carries.
LEMMA TransferStep ==
  ASSUME NEW r, Partition(r), HandedOut(r) \in Nat,
         HandedOut(r)' = HandedOut(r),
         NEW p \in Packets, NEW at \in Nat, NEW len \in Nat, NEW rest \in Nat,
         req'[r].info = req[r].info + len,
         req'[r].sectors = req[r].sectors \cup (at .. at + len - 1),
         Spoilt(r) => Spoilt(r)',
         \A n \in Nat :
           Carries(p, r, n) <=> at <= n /\ n < at + len + rest,
         \A n \in Nat :
           Carries(p, r, n)' <=> at + len <= n /\ n < at + len + rest,
         \A k \in Packets, n \in Nat :
           k # p => (Carries(k, r, n)' <=> Carries(k, r, n))
  PROVE  Partition(r)'
<1> DEFINE S == req[r].sectors
           h == HandedOut(r)
           now == at .. at + len - 1
<1>1. /\ \A n \in S : n \in 0 .. h - 1
      /\ \A k \in Packets, n \in Nat : Carries(k, r, n) => n \in 0 .. h - 1
      /\ h \in Nat /\ HandedOut(r)' = h
  BY DEF Partition, Within
<1>2. \A n \in now : n \in Nat /\ Carries(p, r, n) /\ ~ Carries(p, r, n)'
  OBVIOUS
<1>3. \A k \in Packets, n \in Nat : Carries(k, r, n)' => Carries(k, r, n)
  OBVIOUS
<1>4. req'[r].sectors = S \cup now
  OBVIOUS
<1>5. \A n \in Nat :
        Carries(p, r, n) => n \in now \/ Carries(p, r, n)'
  OBVIOUS
<1>6. now \cap S = {}
  BY <1>2 DEF Partition, Apart
<1>7. req'[r].info = Cardinality(req'[r].sectors)
  <2>1. IsFiniteSet(now) /\ Cardinality(now) = len
    <3> DEFINE last == at + len - 1
    <3>1. /\ at \in Int /\ last \in Int
          /\ (IF at > last THEN 0 ELSE last - at + 1) = len
      OBVIOUS
    <3> HIDE DEF last
    <3>2. /\ IsFiniteSet(at .. last)
          /\ Cardinality(at .. last) = IF at > last THEN 0 ELSE last - at + 1
      BY <3>1, FS_Interval
    <3>3. now = at .. last
      BY DEF last
    <3> QED
      BY <3>1, <3>2, <3>3
  <2>2. IsFiniteSet(0 .. h - 1)
    BY <1>1, FS_Interval
  <2>3. S \subseteq 0 .. h - 1
    BY <1>1
  <2>4. IsFiniteSet(S) /\ Cardinality(S) \in Nat
    BY <2>2, <2>3, FS_Subset, FS_CardinalityType
  <2> HIDE DEF S, now
  <2>5. Cardinality(S \cup now) =
          Cardinality(S) + len - Cardinality(S \cap now)
    BY <2>1, <2>4, FS_Union
  <2>6. S \cap now = {} /\ Cardinality({}) = 0
    BY <1>6, FS_EmptySet
  <2>7. req[r].info = Cardinality(S)
    BY DEF Partition, S
  <2>8. Cardinality(S \cup now) = Cardinality(S) + len
    <3>1. Cardinality(S \cap now) = 0
      BY <2>6
    <3> QED
      BY <2>4, <2>5, <3>1
  <2> QED
    BY <1>4, <2>7, <2>8
<1> HIDE DEF S, h, now
<1>8. Within(r)'
  BY <1>1, <1>2, <1>3, <1>4 DEF Within
<1>9. \A k \in Packets, n \in Nat : Carries(k, r, n)' => n \notin S
  BY <1>3 DEF Partition, Apart, S
<1>10. \A k \in Packets, n \in Nat : Carries(k, r, n)' => n \notin now
  BY <1>2, <1>3 DEF Partition, Apart
<1>11. \A k, q \in Packets, n \in Nat :
         Carries(k, r, n)' /\ Carries(q, r, n)' => k = q
  BY <1>3 DEF Partition, Apart
<1>12. ASSUME ~ Spoilt(r)', NEW n \in 0 .. h - 1
       PROVE  n \in S \cup now \/ \E k \in Packets : Carries(k, r, n)'
  <2>1. n \in S \/ \E k \in Packets : Carries(k, r, n)
    BY <1>12 DEF Partition, Covered, h, S
  <2>2. n \in Nat
    BY <1>1, <1>12
  <2> QED
    BY <1>5, <2>1, <2>2
<1> QED
  BY <1>1, <1>4, <1>7, <1>8, <1>9, <1>10, <1>11, <1>12
     DEF Partition, Apart, Covered

\* A piece is given up.
LEMMA Spoils ==
  ASSUME NEW r, Partition(r), SameData(r), Spoilt(r)',
         \A p \in Packets, n \in Nat : Carries(p, r, n)' => Carries(p, r, n)
  PROVE  Partition(r)'
<1>1. req'[r].info = Cardinality(req'[r].sectors)
  BY DEF Partition, SameData
<1>2. Within(r)'
  BY DEF Partition, SameData, Within
<1>3. Apart(r)'
  BY DEF Partition, SameData, Apart
<1>4. Covered(r)'
  BY DEF Covered
<1> QED
  BY <1>1, <1>2, <1>3, <1>4 DEF Partition
\* The other packets stay as they are.
LEMMA OtherPieces ==
  ASSUME NEW p, NEW r, \A k \in Packets : k # p => pkt'[k] = pkt[k]
  PROVE  \A k \in Packets :
           k # p =>
             /\ \A n \in Nat : Carries(k, r, n)' <=> Carries(k, r, n)
             /\ FailedPiece(k, r)' <=> FailedPiece(k, r)
BY DEF Carries, FailedPiece

LEMMA NowCarries ==
  ASSUME NEW p, NEW r, NEW at \in Nat, NEW len \in Nat,
         pkt'[p].state \in {"queued", "sent"}, pkt'[p].irp = r,
         pkt'[p].at = at, pkt'[p].len \in Nat, pkt'[p].rest \in Nat,
         pkt'[p].len + pkt'[p].rest = len
  PROVE  \A n \in Nat : Carries(p, r, n)' <=> at <= n /\ n < at + len
BY DEF Carries

\* What WholeInv says of a request
Good(r) ==
  /\ req[r].state = "new" => req[r].info = 0 /\ req[r].sectors = {}
  /\ req[r].state = "active" => Partition(r)

NotSending(r) ==
  \/ service'[r] = service[r]
  \/ service[r].pc # "send" /\ service'[r].pc # "send"

LEMMA GoodFrame ==
  ASSUME WholeInv, NEW r \in Reqs, req'[r] = req[r], NotSending(r),
         AsideKept(r)
  PROVE  Good(r)'
<1>1. CASE req[r].state = "active"
  <2>1. Partition(r)
    BY <1>1 DEF WholeInv
  <2>2. SameData(r)
    BY DEF SameData, HandedOut, NotSending
  <2> QED
    BY <1>1, <2>1, <2>2, PartitionFrame DEF Good
<1>2. CASE req[r].state # "active"
  BY <1>2 DEF Good, WholeInv
<1> QED
  BY <1>1, <1>2

LEMMA ReadWriteKeeps ==
  ASSUME IInv, WholeInv, NEW r \in Reqs, ClassReadWrite(r)
  PROVE  \A q \in Reqs : Good(q)'
<1>1. /\ req \in [Reqs -> ReqType] /\ service \in [Reqs -> ServiceType]
      /\ req[r] \in ReqType /\ req[r].state = "new" /\ UNCHANGED pkt
  BY Typed DEF IInv, ClassReadWrite
<1>2. req[r].left = 0 /\ service[r].pc = "none"
  BY <1>1 DEF IInv, ServedActive
<1>3. req[r].info = 0 /\ req[r].sectors = {}
  BY <1>1 DEF WholeInv
<1>4. \A q \in Reqs : q # r => req'[q] = req[q]
  BY <1>1 DEF ClassReadWrite
<1>5. \A q \in Reqs : q # r => service'[q] = service[q]
  BY <1>1 DEF ClassReadWrite
<1>6. \A q \in Reqs : q # r => Good(q)'
  <2> SUFFICES ASSUME NEW q \in Reqs, q # r
               PROVE  Good(q)'
    OBVIOUS
  <2>1. NotSending(q)
    BY <1>5 DEF NotSending
  <2>2. AsideKept(q)
    BY <1>1 DEF AsideKept
  <2> QED
    BY <1>4, <2>1, <2>2, GoodFrame
<1>7. CASE IsRemoved
  <2>1. req'[r] = Answered(FALSE)
    BY <1>1, <1>7 DEF ClassReadWrite
  <2> QED
    BY <1>6, <2>1, NewReqType DEF Good
<1>8. CASE ~ IsRemoved
  <2>1. PICK t \in Transfers : req' = [req EXCEPT ![r] = Started(req[r], t)]
    BY <1>8 DEF ClassReadWrite
  <2>2. req'[r] = Started(req[r], t)
    BY <1>1, <2>1
  <2>3. /\ req'[r].state = "active" /\ req'[r].left = 0
        /\ req'[r].info = 0 /\ req'[r].sectors = {}
    BY <1>1, <1>2, <1>3, <2>2, StartedFacts
  <2>4. service'[r].pc # "send"
    BY <1>1, <1>8 DEF ClassReadWrite, ServiceType
  <2>5. HandedOut(r)' = 0
    BY <2>3, <2>4 DEF HandedOut
  <2>6. \A p \in Packets, n \in Nat : ~ Carries(p, r, n)
    BY <1>2, NoPieces, CarriesFacts
  <2>7. \A p \in Packets, n \in Nat : ~ Carries(p, r, n)'
    BY <1>1, <2>6 DEF Carries
  <2>8. Partition(r)'
    BY <2>3, <2>5, <2>7, FreshPartition
  <2> QED
    BY <1>6, <2>3, <2>8 DEF Good
<1> QED
  BY <1>7, <1>8
\* The service of a request begins, or ends without a piece.
LEMMA IdleServeKeeps ==
  ASSUME IInv, WholeInv, NEW r \in Reqs,
         Enter(r) \/ GatherNone(r) \/ Defer(r)
  PROVE  \A q \in Reqs : Good(q)'
<1>1. service \in [Reqs -> ServiceType]
  BY Typed DEF IInv
<1>2. UNCHANGED <<req, pkt>> /\ service[r].pc # "send"
  BY DEF Enter, GatherNone, Defer
<1>3. /\ \A q \in Reqs : q # r => service'[q] = service[q]
      /\ service'[r].pc # "send"
  BY <1>1 DEF Enter, GatherNone, Defer, EndService, NoService, ServiceType
<1>4. \A q \in Reqs : NotSending(q)
  BY <1>2, <1>3 DEF NotSending
<1>5. \A q \in Reqs : AsideKept(q)
  BY <1>2 DEF AsideKept
<1> QED
  BY <1>2, <1>4, <1>5, GoodFrame

\* The packets that are gathered carry nothing yet.
LEMMA GatherKeeps ==
  ASSUME IInv, WholeInv, NEW r \in Reqs, Gather(r)
  PROVE  \A q \in Reqs : Good(q)'
<1> DEFINE need == NumPackets(req[r].transfer)
<1>1. /\ req \in [Reqs -> ReqType] /\ service \in [Reqs -> ServiceType]
  BY Typed DEF IInv
<1>2. /\ service[r].pc = "gather"
      /\ \/ UNCHANGED <<req, service>>
         \/ /\ service' = [service EXCEPT ![r].pc = "send"]
            /\ req' = [req EXCEPT ![r] = Split(req[r], need)]
  BY Zenon DEF Gather
<1>3. /\ req[r].state = "active" /\ req[r].transfer \in Transfers
      /\ req[r].left = 0 /\ service[r].at = 0
  BY <1>2 DEF IInv, ServedActive
<1>4. need \in Nat
  BY <1>3, NumPacketsFacts
<1> HIDE DEF need
<1>5. PICK h \in Available : OnePacket(h, "held", r)
  BY GatherEffect
<1>6. /\ h \in Packets /\ pkt[h].state \in {"free", "none"}
      /\ pkt'[h].state = "held"
      /\ \A k \in Packets : k # h => pkt'[k] = pkt[k]
  BY <1>5 DEF Available, In, OnePacket
<1>7. \A q \in Reqs : AsideKept(q)
  BY <1>6 DEF AsideKept, Aside
<1>8. CASE UNCHANGED <<req, service>>
  BY <1>7, <1>8, GoodFrame DEF NotSending
<1>9. CASE /\ service' = [service EXCEPT ![r].pc = "send"]
           /\ req' = [req EXCEPT ![r] = Split(req[r], need)]
  <2>1. /\ req'[r].state = "active" /\ req'[r].info = 0
        /\ req'[r].sectors = req[r].sectors
    BY <1>3, <1>4, <1>9, SplitEffect
  <2>2. /\ \A q \in Reqs : q # r => req'[q] = req[q]
        /\ \A q \in Reqs : q # r => service'[q] = service[q]
        /\ service'[r].pc = "send" /\ service'[r].at = 0
    BY <1>1, <1>3, <1>9 DEF ServiceType
  <2>3. HandedOut(r)' = 0 /\ HandedOut(r) = 0
    BY <1>2, <1>3, <2>2 DEF HandedOut
  <2>4. req[r].sectors = {}
    BY <1>3, <2>3 DEF WholeInv, Partition, Within
  <2>5. \A p \in Packets, n \in Nat : ~ Carries(p, r, n)
    BY <1>3, NoPieces, CarriesFacts
  <2>6. \A p \in Packets, n \in Nat : ~ Carries(p, r, n)'
    BY <1>6, <2>5 DEF Carries
  <2>7. Partition(r)'
    BY <2>1, <2>3, <2>4, <2>6, FreshPartition
  <2>8. ASSUME NEW q \in Reqs, q # r
        PROVE  Good(q)'
    <3>1. NotSending(q)
      BY <2>2, <2>8 DEF NotSending
    <3> QED
      BY <1>7, <2>2, <2>8, <3>1, GoodFrame
  <2> QED
    BY <2>1, <2>7, <2>8 DEF Good
<1> QED
  BY <1>2, <1>8, <1>9

\* The one packet that is kept carries the whole buffer.
LEMMA TooFewKeeps ==
  ASSUME IInv, WholeInv, NEW r \in Reqs, GatherTooFew(r)
  PROVE  \A q \in Reqs : Good(q)'
<1> DEFINE x == Chunk(r, 0, req[r].transfer.length)
           l == req[r].transfer.length
<1>1. /\ req \in [Reqs -> ReqType] /\ service \in [Reqs -> ServiceType]
  BY Typed DEF IInv
<1>2. /\ service' = [service EXCEPT ![r] = NoService]
      /\ service[r].pc = "gather"
      /\ req' = [req EXCEPT ![r] = Split(req[r], 1)]
  BY EndServiceEffect DEF GatherTooFew
<1>3. /\ req[r].state = "active" /\ req[r].transfer \in Transfers
      /\ req[r].left = 0 /\ Partition(r)
  BY <1>2 DEF IInv, ServedActive, WholeInv
<1>4. l \in Nat
  BY <1>3, HwMaxFacts
<1>5. /\ req'[r].state = "active" /\ req'[r].info = 0 /\ req'[r].left = 1
      /\ req'[r].transfer = req[r].transfer
      /\ req'[r].sectors = req[r].sectors /\ req'[r].ok = req[r].ok
  BY <1>2, <1>3, SplitEffect
<1>6. /\ \A q \in Reqs : q # r => req'[q] = req[q]
      /\ \A q \in Reqs : q # r => service'[q] = service[q]
      /\ service'[r].pc = "none"
  BY <1>1, <1>2 DEF NoService
<1>7. PICK keep \in HeldFor(r) :
        pkt' = [k \in Packets |->
                  IF k = keep THEN x
                  ELSE IF k \in HeldFor(r) THEN Packet("free") ELSE pkt[k]]
  BY Zenon DEF GatherTooFew
<1>8. /\ x.state = "queued" /\ x.irp = r /\ x.at = 0 /\ x.len + x.rest = l
      /\ x \in PktType
  BY <1>3, <1>4, ChunkType
<1>9. Packet("free").state = "free"
  BY DEF Packet, IdlePacket
<1>10. /\ keep \in Packets
       /\ \A k \in HeldFor(r) :
            k \in Packets /\ pkt[k].state = "held" /\ pkt[k].irp = r
  BY DEF HeldFor, In
<1> HIDE DEF x, l
<1>11. /\ pkt'[keep] = x
       /\ \A k \in HeldFor(r) : k # keep => pkt'[k].state = "free"
       /\ \A k \in Packets : k \notin HeldFor(r) => pkt'[k] = pkt[k]
  BY <1>7, <1>9, <1>10
<1>12. ASSUME NEW q \in Reqs, q # r
       PROVE  Good(q)'
  <2>1. NotSending(q)
    BY <1>6, <1>12 DEF NotSending
  <2>2. AsideKept(q)
    BY <1>8, <1>10, <1>11, <1>12 DEF AsideKept, Aside
  <2> QED
    BY <1>6, <1>12, <2>1, <2>2, GoodFrame
<1>13. HandedOut(r) = 0 /\ HandedOut(r)' = l
  BY <1>2, <1>3, <1>5, <1>6 DEF HandedOut, l
<1>14. \A p \in Packets, n \in Nat : ~ Carries(p, r, n)
  BY <1>3, NoPieces, CarriesFacts
<1>15. \A k \in Packets, n \in Nat : k # keep => ~ Carries(k, r, n)'
  BY <1>11, <1>14 DEF Carries
<1>16. \A n \in Nat : Carries(keep, r, n)' <=> 0 <= n /\ n < 0 + l
  <2>1. x.len \in Nat /\ x.rest \in Nat
    BY <1>8 DEF PktType
  <2> QED
    BY <1>4, <1>8, <1>11, <2>1, NowCarries
<1>17. Spoilt(r) => Spoilt(r)'
  <2>1. \A p \in Packets : ~ FailedPiece(p, r)
    BY <1>3, NoPieces, CarriesFacts
  <2> QED
    BY <1>5, <2>1 DEF Spoilt
<1>18. req[r].sectors = {}
  BY <1>13, <1>3 DEF Partition, Within
<1>19. req[r].info = 0
  BY <1>3, <1>18, FS_EmptySet DEF Partition
<1>20. Partition(r)'
  BY <1>3, <1>4, <1>5, <1>10, <1>13, <1>14, <1>15, <1>16, <1>17, <1>19,
     GivenOut
<1> QED
  BY <1>5, <1>12, <1>20 DEF Good

\* The next piece begins where the last one ended.
LEMMA SendKeeps ==
  ASSUME IInv, WholeInv, NEW r \in Reqs, Send(r)
  PROVE  \A q \in Reqs : Good(q)'
<1> DEFINE at == service[r].at
           l == req[r].transfer.length
           m == HwMax(req[r].transfer)
           len == Min(m, l - at)
<1>1. /\ req \in [Reqs -> ReqType] /\ service \in [Reqs -> ServiceType]
  BY Typed DEF IInv
<1>2. service[r].pc = "send" /\ UNCHANGED req
  BY DEF Send
<1>3. /\ req[r].state = "active" /\ Partition(r)
  BY <1>2 DEF IInv, ServedActive, WholeInv
<1>4. /\ at \in Nat /\ l \in Nat /\ m \in Nat \ {0} /\ l - at > 0
  BY <1>2, SendFacts
<1>5. IF at + len = l
        THEN EndService(r)
        ELSE /\ service' = [service EXCEPT ![r].at = at + len]
             /\ UNCHANGED <<leaving, lockVars>>
  BY Zenon DEF Send
<1>6. PICK p \in HeldFor(r), s \in {"queued", "sent"} :
        /\ OnePacket(p, s, r)
        /\ pkt'[p].at = at /\ pkt'[p].rest = 0 /\ pkt'[p].len = len
  BY SendEffect
<1>7. /\ p \in Packets /\ pkt[p].state = "held" /\ pkt[p].irp = r
      /\ pkt'[p].state \in {"queued", "sent"} /\ pkt'[p].irp = r
      /\ \A k \in Packets : k # p => pkt'[k] = pkt[k]
  BY <1>6 DEF OnePacket, HeldFor, In
<1>8. req[r].left # 0
  <2>1. p \in Uncounted(r)
    BY <1>2, <1>6 DEF Uncounted
  <2> QED
    BY <2>1, Counts, NonEmpty DEF IInv, PiecesCounted
<1>9. len \in Nat
  BY <1>4 DEF Min
<1> HIDE DEF m, l, at, len
<1>10. HandedOut(r) = at /\ HandedOut(r)' = at + len
  <2>1. CASE at + len = l
    <3>1. service'[r].pc = "none"
      BY <1>1, <1>5, <2>1 DEF EndService, NoService
    <3> QED
      BY <1>2, <1>8, <2>1, <3>1 DEF HandedOut, at, l
  <2>2. CASE at + len # l
    <3>1. service'[r].pc = "send" /\ service'[r].at = at + len
      BY <1>1, <1>2, <1>5, <2>2 DEF ServiceType
    <3> QED
      BY <1>2, <3>1 DEF HandedOut, at
  <2> QED
    BY <2>1, <2>2
<1>11. \A n \in Nat : Carries(p, r, n)' <=> at <= n /\ n < at + len
  BY <1>4, <1>6, <1>7, <1>9, NowCarries
<1>12. \A n \in Nat : ~ Carries(p, r, n)
  BY <1>7 DEF Carries
<1>13. /\ \A k \in Packets, n \in Nat :
            k # p => (Carries(k, r, n)' <=> Carries(k, r, n))
       /\ \A k \in Packets :
            k # p => (FailedPiece(k, r)' <=> FailedPiece(k, r))
  BY <1>7, OtherPieces
<1>14. Spoilt(r) => Spoilt(r)'
  <2>1. ~ FailedPiece(p, r)
    BY <1>7 DEF FailedPiece
  <2> QED
    BY <1>2, <1>13, <2>1 DEF Spoilt
<1>15. Partition(r)'
  BY <1>2, <1>3, <1>4, <1>7, <1>9, <1>10, <1>11, <1>12, <1>13, <1>14, GivenOut
<1>16. ASSUME NEW q \in Reqs, q # r
       PROVE  Good(q)'
  <2>1. service'[q] = service[q]
    BY <1>1, <1>5, <1>16 DEF EndService
  <2>2. NotSending(q)
    BY <2>1 DEF NotSending
  <2>3. AsideKept(q)
    BY <1>7, <1>16 DEF AsideKept, Aside
  <2> QED
    BY <1>2, <2>2, <2>3, GoodFrame
<1> QED
  BY <1>2, <1>3, <1>15, <1>16 DEF Good
\* What is known of a packet that the lower driver returns
LEMMA SentFacts ==
  ASSUME IInv, WholeInv, NEW p \in Packets,
         pkt[p].state \in {"queued", "sent"},
         NEW r, r = pkt[p].irp
  PROVE  /\ r \in Reqs /\ req[r].state = "active" /\ Partition(r)
         /\ req[r].transfer \in Transfers /\ req[r] \in ReqType
         /\ pkt \in [Packets -> PktType] /\ pkt[p] \in PktType
         /\ pkt[p].at \in Nat /\ pkt[p].len \in Nat /\ pkt[p].rest \in Nat
         /\ pkt[p].low \/ pkt[p].rest = 0
         /\ HandedOut(r) \in Nat
         /\ \A n \in Nat : Carries(p, r, n) <=>
              pkt[p].at <= n /\ n < pkt[p].at + pkt[p].len + pkt[p].rest
         /\ ~ FailedPiece(p, r)
<1>1. /\ r \in Reqs /\ req[r].state = "active" /\ req[r].transfer \in Transfers
  BY PieceFacts
<1>2. Partition(r) /\ (pkt[p].low \/ pkt[p].rest = 0)
  BY <1>1 DEF WholeInv
<1>3. /\ pkt \in [Packets -> PktType] /\ pkt[p] \in PktType
      /\ req[r] \in ReqType
  BY <1>1, Typed DEF IInv
<1>4. pkt[p].at \in Nat /\ pkt[p].len \in Nat /\ pkt[p].rest \in Nat
  BY <1>3 DEF PktType
<1>5. \A n \in Nat : Carries(p, r, n) <=>
        pkt[p].at <= n /\ n < pkt[p].at + pkt[p].len + pkt[p].rest
  BY <1>4 DEF Carries
<1> QED
  BY <1>1, <1>2, <1>3, <1>4, <1>5, HandedOutFacts DEF FailedPiece

\* Only the request of the packet is concerned.
LEMMA PieceFrame ==
  ASSUME WholeInv, NEW p \in Packets, NEW r \in Reqs, r = pkt[p].irp,
         \A k \in Packets : k # p => pkt'[k] = pkt[k],
         \/ pkt'[p].irp = r
         \/ pkt'[p].state \notin {"queued", "sent", "counting"},
         UNCHANGED service,
         \A q \in Reqs : q # r => req'[q] = req[q]
  PROVE  \A q \in Reqs : q # r => Good(q)'
<1> SUFFICES ASSUME NEW q \in Reqs, q # r
             PROVE  Good(q)'
  OBVIOUS
<1>1. NotSending(q)
  BY DEF NotSending
<1>2. AsideKept(q)
  BY DEF AsideKept, Aside
<1> QED
  BY <1>1, <1>2, GoodFrame

\* The packet goes on with all that it carries.
LEMMA SentAgain ==
  ASSUME IInv, WholeInv, NEW p \in Packets,
         pkt[p].state \in {"queued", "sent"},
         UNCHANGED <<req, service>>,
         \A k \in Packets : k # p => pkt'[k] = pkt[k],
         pkt'[p].state \in {"queued", "sent"}, pkt'[p].irp = pkt[p].irp,
         pkt'[p].at = pkt[p].at, pkt'[p].len \in Nat, pkt'[p].rest \in Nat,
         pkt'[p].len + pkt'[p].rest = pkt[p].len + pkt[p].rest
  PROVE  \A q \in Reqs : Good(q)'
<1> DEFINE r == pkt[p].irp
           total == pkt[p].len + pkt[p].rest
<1>1. /\ r \in Reqs /\ req[r].state = "active" /\ Partition(r)
      /\ pkt[p].at \in Nat /\ pkt[p].len \in Nat /\ pkt[p].rest \in Nat
      /\ \A n \in Nat : Carries(p, r, n) <=>
           pkt[p].at <= n /\ n < pkt[p].at + pkt[p].len + pkt[p].rest
      /\ ~ FailedPiece(p, r)
  BY SentFacts
<1>2. \A n \in Nat :
        Carries(p, r, n)' <=> pkt[p].at <= n /\ n < pkt[p].at + total
  BY <1>1, NowCarries
<1>3. \A n \in Nat : Carries(p, r, n)' <=> Carries(p, r, n)
  BY <1>1, <1>2
<1>4. /\ \A k \in Packets, n \in Nat :
           k # p => (Carries(k, r, n)' <=> Carries(k, r, n))
      /\ \A k \in Packets :
           k # p => (FailedPiece(k, r)' <=> FailedPiece(k, r))
  BY OtherPieces
<1>5. Spoilt(r) => Spoilt(r)'
  BY <1>1, <1>4 DEF Spoilt
<1>6. SameData(r)
  BY DEF SameData, HandedOut
<1>7. \A k \in Packets, n \in Nat : Carries(k, r, n)' <=> Carries(k, r, n)
  BY <1>3, <1>4
<1>8. Partition(r)'
  BY <1>1, <1>5, <1>6, <1>7, PartitionKept
<1>9. \A q \in Reqs : q # r => Good(q)'
  BY <1>1, PieceFrame
<1> QED
  BY <1>1, <1>8, <1>9 DEF Good

\* The packet has failed for good.
LEMMA FailedKeeps ==
  ASSUME IInv, WholeInv, NEW p \in Packets, pkt[p].state = "sent",
         UNCHANGED <<req, service>>, Done(p, FALSE)
  PROVE  \A q \in Reqs : Good(q)'
<1>1. PICK r : r = pkt[p].irp
  OBVIOUS
<1> DEFINE x == IdlePacket("counting", r, FALSE)
<1>2. /\ r \in Reqs /\ req[r].state = "active" /\ Partition(r)
      /\ pkt \in [Packets -> PktType]
  BY <1>1, SentFacts
<1>3. x.state = "counting" /\ x.irp = r /\ x.ok = FALSE
  BY DEF IdlePacket
<1>4. pkt' = [pkt EXCEPT ![p] = x]
  BY <1>1, Zenon DEF Done
<1> HIDE DEF x
<1>5. /\ pkt'[p] = x
      /\ \A k \in Packets : k # p => pkt'[k] = pkt[k]
  BY <1>2, <1>4
<1>6. FailedPiece(p, r)'
  BY <1>3, <1>5 DEF FailedPiece
<1>7. Spoilt(r)'
  BY <1>6 DEF Spoilt
<1>8. \A k \in Packets, n \in Nat : Carries(k, r, n)' => Carries(k, r, n)
  BY <1>3, <1>5 DEF Carries
<1>9. SameData(r)
  BY DEF SameData, HandedOut
<1>10. Partition(r)'
  BY <1>2, <1>7, <1>8, <1>9, Spoils
<1>11. \A q \in Reqs : q # r => Good(q)'
  BY <1>2, <1>3, <1>5, <1>1, PieceFrame
<1> QED
  BY <1>2, <1>10, <1>11 DEF Good

\* What was transferred is added to the request; the chunks that remain are
\* still carried by the packet.
LEMMA SucceededKeeps ==
  ASSUME IInv, WholeInv, NEW p \in Packets, Succeeded(p)
  PROVE  \A q \in Reqs : Good(q)'
<1>1. PICK r, at, len, rest :
        /\ r = pkt[p].irp /\ at = pkt[p].at
        /\ len = pkt[p].len /\ rest = pkt[p].rest
  OBVIOUS
<1>2. pkt[p].state = "sent" /\ UNCHANGED service
  BY DEF Succeeded
<1>3. /\ r \in Reqs /\ req[r].state = "active" /\ Partition(r)
      /\ req[r].transfer \in Transfers /\ req[r] \in ReqType
      /\ pkt \in [Packets -> PktType]
      /\ at \in Nat /\ len \in Nat /\ rest \in Nat
      /\ pkt[p].low \/ rest = 0
      /\ HandedOut(r) \in Nat
      /\ \A n \in Nat : Carries(p, r, n) <=> at <= n /\ n < at + len + rest
      /\ ~ FailedPiece(p, r)
  BY <1>2, <1>1, SentFacts
<1>4. r \in Reqs /\ req[r].transfer \in Transfers
  BY <1>3
<1>5. req' = [req EXCEPT ![r] = Transferred(req[r], at, len)]
  BY <1>1, Zenon DEF Succeeded
<1>6. req \in [Reqs -> ReqType]
  BY Typed DEF IInv
<1> DEFINE q0 == req[r]
           y == Transferred(q0, at, len)
<1>7. /\ y.state = req[r].state /\ y.transfer = req[r].transfer
      /\ y.left = req[r].left /\ y.info = req[r].info + len
      /\ y.ok = req[r].ok
      /\ y.sectors = req[r].sectors \cup (at .. at + len - 1)
  <2>1. q0 \in ReqType /\ at \in Nat /\ len \in Nat
    BY <1>3
  <2> HIDE DEF q0
  <2>2. /\ y.state = q0.state /\ y.transfer = q0.transfer
        /\ y.left = q0.left /\ y.info = q0.info + len
        /\ y.ok = q0.ok
        /\ y.sectors = q0.sectors \cup (at .. at + len - 1)
    BY <2>1, TransferredFacts, ZenonT(30)
  <2> QED
    BY <2>2 DEF q0
<1> HIDE DEF y
<1>8. req'[r] = y /\ \A q \in Reqs : q # r => req'[q] = req[q]
  BY <1>3, <1>5, <1>6 DEF y
<1>9. HandedOut(r)' = HandedOut(r)
  BY <1>2, <1>7, <1>8 DEF HandedOut
<1>10. /\ \A k \in Packets : k # p => pkt'[k] = pkt[k]
       /\ pkt'[p].irp = r /\ pkt'[p].state \in {"queued", "counting"}
       /\ pkt'[p].state = "counting" => pkt'[p].ok
       /\ \A n \in Nat :
            Carries(p, r, n)' <=> at + len <= n /\ n < at + len + rest
  <2>1. CASE ChunksRemain(p)
    <3> DEFINE x == Chunk(r, at + len, rest)
    <3>1. at + len \in Nat /\ rest \in Nat
      BY <1>3
    <3>2. pkt' = [pkt EXCEPT ![p] = x]
      BY <2>1, <1>1, Zenon DEF Succeeded
    <3>3. /\ x \in PktType /\ x.state = "queued" /\ x.irp = r
          /\ x.at = at + len /\ x.len + x.rest = rest
      BY <3>1, <1>4, ChunkType
    <3>4. x.len \in Nat /\ x.rest \in Nat
      BY <3>3 DEF PktType
    <3> HIDE DEF x
    <3>5. pkt'[p] = x /\ \A k \in Packets : k # p => pkt'[k] = pkt[k]
      BY <1>3, <3>2
    <3> DEFINE b == at + len
    <3>6. b \in Nat /\ rest \in Nat
      BY <1>3
    <3>7. /\ pkt'[p].state \in {"queued", "sent"} /\ pkt'[p].irp = r
          /\ pkt'[p].at = b /\ pkt'[p].len \in Nat /\ pkt'[p].rest \in Nat
          /\ pkt'[p].len + pkt'[p].rest = rest
      BY <3>3, <3>4, <3>5
    <3> HIDE DEF b
    <3>8. \A n \in Nat : Carries(p, r, n)' <=> b <= n /\ n < b + rest
      BY <3>6, <3>7, NowCarries
    <3> QED
      BY <3>3, <3>5, <3>8 DEF b
  <2>2. CASE ~ ChunksRemain(p)
    <3> DEFINE x == IdlePacket("counting", r, TRUE)
    <3>1. pkt' = [pkt EXCEPT ![p] = x]
      BY <2>2, <1>1, Zenon DEF Succeeded, Done
    <3>2. x.state = "counting" /\ x.irp = r /\ x.ok = TRUE
      BY DEF IdlePacket
    <3> HIDE DEF x
    <3>3. pkt'[p] = x /\ \A k \in Packets : k # p => pkt'[k] = pkt[k]
      BY <1>3, <3>1
    <3>4. rest = 0
      BY <1>3, <1>1, <2>2 DEF ChunksRemain
    <3>5. \A n \in Nat : ~ Carries(p, r, n)'
      BY <3>2, <3>3 DEF Carries
    <3>6. \A n \in Nat : ~ (at + len <= n /\ n < at + len + rest)
      BY <1>3, <3>4
    <3> QED
      BY <3>2, <3>3, <3>5, <3>6
  <2> QED
    BY <2>1, <2>2
<1>11. /\ \A k \in Packets, n \in Nat :
            k # p => (Carries(k, r, n)' <=> Carries(k, r, n))
       /\ \A k \in Packets :
            k # p => (FailedPiece(k, r)' <=> FailedPiece(k, r))
  BY <1>10, OtherPieces
<1>12. Spoilt(r) => Spoilt(r)'
  BY <1>3, <1>7, <1>8, <1>11 DEF Spoilt
<1>13. Partition(r)'
  BY <1>3, <1>7, <1>8, <1>9, <1>10, <1>11, <1>12, TransferStep
<1>14. \A q \in Reqs : q # r => Good(q)'
  BY <1>2, <1>3, <1>8, <1>10, <1>1, PieceFrame
<1> QED
  BY <1>3, <1>7, <1>8, <1>13, <1>14 DEF Good

LEMMA ReturnedKeeps ==
  ASSUME IInv, WholeInv, NEW p \in Packets, Returned(p)
  PROVE  \A q \in Reqs : Good(q)'
<1>1. pkt[p].state = "sent"
  BY DEF Returned, Succeeded, FailedForGood, FailedOnce, FailedForMemory
<1>2. /\ pkt[p].irp \in Reqs /\ req[pkt[p].irp].transfer \in Transfers
      /\ pkt \in [Packets -> PktType] /\ pkt[p] \in PktType
      /\ pkt[p].at \in Nat /\ pkt[p].len \in Nat /\ pkt[p].rest \in Nat
      /\ pkt[p].low \/ pkt[p].rest = 0
  BY <1>1, SentFacts
<1>3. CASE FailedForGood(p)
  BY <1>1, <1>3, FailedKeeps DEF FailedForGood
<1>4. CASE FailedOnce(p)
  <2>1. UNCHANGED <<req, service>>
    BY <1>4 DEF FailedOnce
  <2>2. CASE RetriesLeft(p)
    <3> DEFINE x == Retried(pkt[p])
    <3>1. pkt' = [pkt EXCEPT ![p] = x]
      BY <1>4, <2>2, Zenon DEF FailedOnce
    <3>2. /\ x.state = "queued" /\ x.irp = pkt[p].irp /\ x.at = pkt[p].at
          /\ x.len = pkt[p].len /\ x.rest = pkt[p].rest
      BY <1>2, <2>2, RetriedFacts DEF RetriesLeft
    <3> HIDE DEF x
    <3>3. pkt'[p] = x /\ \A k \in Packets : k # p => pkt'[k] = pkt[k]
      BY <1>2, <3>1
    <3> QED
      BY <1>1, <1>2, <2>1, <3>2, <3>3, SentAgain
  <2>3. CASE ~ RetriesLeft(p)
    <3>1. Done(p, FALSE)
      BY <1>4, <2>3 DEF FailedOnce
    <3> QED
      BY <1>1, <2>1, <3>1, FailedKeeps
  <2> QED
    BY <2>2, <2>3
<1>5. CASE FailedForMemory(p)
  <2>1. UNCHANGED <<req, service>>
    BY <1>5 DEF FailedForMemory
  <2>2. CASE MayBeChunked(p)
    <3> DEFINE x == Chunk(pkt[p].irp, pkt[p].at, pkt[p].len)
    <3>1. pkt' = [pkt EXCEPT ![p] = x]
      BY <1>5, <2>2, Zenon DEF FailedForMemory
    <3>2. /\ x \in PktType /\ x.state = "queued" /\ x.irp = pkt[p].irp
          /\ x.at = pkt[p].at /\ x.len + x.rest = pkt[p].len
      BY <1>2, ChunkType
    <3>3. x.len \in Nat /\ x.rest \in Nat
      BY <3>2 DEF PktType
    <3> HIDE DEF x
    <3>4. pkt'[p] = x /\ \A k \in Packets : k # p => pkt'[k] = pkt[k]
      BY <1>2, <3>1
    <3>5. pkt[p].rest = 0
      BY <1>2, <2>2 DEF MayBeChunked
    <3>6. x.len + x.rest = pkt[p].len + pkt[p].rest
      BY <1>2, <3>2, <3>5
    <3> QED
      BY <1>1, <2>1, <3>2, <3>3, <3>4, <3>6, SentAgain
  <2>3. CASE ~ MayBeChunked(p)
    <3>1. Done(p, FALSE)
      BY <1>5, <2>3 DEF FailedForMemory
    <3> QED
      BY <1>1, <2>1, <3>1, FailedKeeps
  <2> QED
    BY <2>2, <2>3
<1> QED
  BY <1>3, <1>4, <1>5, SucceededKeeps DEF Returned
\* A failure of a piece that is counted becomes one of the request.
LEMMA CountDownKeeps ==
  ASSUME IInv, WholeInv, NEW p \in Packets, CountDown(p)
  PROVE  \A q \in Reqs : Good(q)'
<1>1. PICK r : r = pkt[p].irp
  OBVIOUS
<1> DEFINE ok == req[r].ok /\ pkt[p].ok
<1>2. /\ req \in [Reqs -> ReqType] /\ pkt \in [Packets -> PktType]
      /\ ok \in BOOLEAN
  BY Typed DEF IInv
<1>3. /\ r \in Reqs /\ req[r].state = "active" /\ req[r].left \in Nat \ {0}
      /\ pkt[p].state = "counting" /\ UNCHANGED service
  BY <1>1, PieceFacts DEF CountDown
<1>4. /\ Partition(r)
  BY <1>3 DEF WholeInv
<1>5. PICK s \in {"unthrottling", "freeing"} :
        pkt' = [pkt EXCEPT ![p] = Packet(s)]
  BY Zenon DEF CountDown
<1>6. /\ pkt'[p].state \in {"unthrottling", "freeing"}
      /\ \A k \in Packets : k # p => pkt'[k] = pkt[k]
  BY <1>2, <1>5 DEF Packet, IdlePacket
<1>7. CASE req[r].left = 1
  <2>1. req' = [req EXCEPT ![r] = Answered(ok)]
    BY <1>7, <1>1, Zenon DEF CountDown, Last
  <2> HIDE DEF ok
  <2>2. /\ req'[r] = Answered(ok)
        /\ \A q \in Reqs : q # r => req'[q] = req[q]
    BY <1>2, <1>3, <2>1
  <2>3. req'[r].state = "done"
    BY <1>2, <2>2, NewReqType
  <2>4. \A q \in Reqs : q # r => Good(q)'
    BY <1>3, <1>6, <2>2, <1>1, PieceFrame
  <2> QED
    BY <2>3, <2>4 DEF Good
<1>8. CASE req[r].left # 1
  <2>1. req' = [req EXCEPT ![r] = Counted(req[r], ok)]
    BY <1>8, <1>1, Zenon DEF CountDown, Last
  <2>2. req[r] \in ReqType
    BY <1>2, <1>3
  <2>3. ok => req[r].ok /\ pkt[p].ok
    OBVIOUS
  <2> HIDE DEF ok
  <2>4. /\ req'[r] = Counted(req[r], ok)
        /\ \A q \in Reqs : q # r => req'[q] = req[q]
    BY <1>2, <1>3, <2>1
  <2>5. /\ req'[r].state = "active" /\ req'[r].transfer = req[r].transfer
        /\ req'[r].left = req[r].left - 1 /\ req'[r].info = req[r].info
        /\ req'[r].sectors = req[r].sectors /\ req'[r].ok = ok
    BY <1>2, <1>3, <2>2, <2>4, CountedFacts
  <2>6. req'[r].left # 0
    BY <1>3, <1>8, <2>5
  <2>7. SameData(r)
    BY <1>3, <2>5, <2>6 DEF SameData, HandedOut
  <2>8. \A k \in Packets, n \in Nat : Carries(k, r, n)' <=> Carries(k, r, n)
    BY <1>3, <1>6 DEF Carries
  <2>9. Spoilt(r) => Spoilt(r)'
    <3>1. \A k \in Packets :
            FailedPiece(k, r) => ~ pkt[p].ok \/ FailedPiece(k, r)'
      BY <1>6 DEF FailedPiece
    <3> QED
      BY <2>3, <2>5, <3>1 DEF Spoilt
  <2>10. Partition(r)'
    BY <1>4, <2>7, <2>8, <2>9, PartitionKept
  <2>11. \A q \in Reqs : q # r => Good(q)'
    BY <1>3, <1>6, <2>4, <1>1, PieceFrame
  <2> QED
    BY <2>5, <2>10, <2>11 DEF Good
<1> QED
  BY <1>7, <1>8

LEMMA FinishKeeps ==
  ASSUME IInv, WholeInv, NEW p \in Packets, Finish(p)
  PROVE  \A q \in Reqs : Good(q)'
<1>1. pkt \in [Packets -> PktType] /\ pkt[p] \in PktType
  BY Typed DEF IInv
<1>2. CASE RetryDpc(p)
  <2>1. /\ pkt[p].state = "queued" /\ UNCHANGED <<req, service>>
        /\ pkt' = [pkt EXCEPT ![p].state = "sent"]
    BY <1>2 DEF RetryDpc
  <2>2. /\ \A k \in Packets : k # p => pkt'[k] = pkt[k]
        /\ pkt'[p].state = "sent" /\ pkt'[p].irp = pkt[p].irp
        /\ pkt'[p].at = pkt[p].at /\ pkt'[p].len = pkt[p].len
        /\ pkt'[p].rest = pkt[p].rest
    BY <1>1, <2>1 DEF PktType
  <2>3. pkt[p].len \in Nat /\ pkt[p].rest \in Nat
    BY <1>1 DEF PktType
  <2> QED
    BY <2>1, <2>2, <2>3, SentAgain
<1>3. CASE Unthrottle(p) \/ Free(p)
  <2>1. /\ UNCHANGED <<req, service>>
        /\ pkt[p].state \in {"unthrottling", "freeing"}
    BY <1>3 DEF Unthrottle, Free
  <2>2. PICK s \in {"freeing", "none", "free"} : OnePacket(p, s, pkt'[p].irp)
    BY <1>3, FinishEffect DEF OnePacket
  <2>3. \A q \in Reqs : AsideKept(q)
    BY <2>1, <2>2 DEF AsideKept, Aside, OnePacket
  <2> QED
    BY <2>1, <2>3, GoodFrame DEF NotSending
<1> QED
  BY <1>2, <1>3, CountDownKeeps DEF Finish

\* Every step keeps the sectors of all requests apart, and none is forgotten.
LEMMA GoodStep ==
  ASSUME IInv, WholeInv, [Next]_vars
  PROVE  \A q \in Reqs : Good(q)'
<1>1. ASSUME NEW r \in Reqs, Serve(r)
      PROVE  \A q \in Reqs : Good(q)'
  BY <1>1, IdleServeKeeps, GatherKeeps, TooFewKeeps, SendKeeps DEF Serve
<1>2. CASE ServiceDeferred
  <2>1. UNCHANGED <<req, pkt>>
    BY <1>2 DEF ServiceDeferred
  <2>2. \A q \in Reqs : AsideKept(q)
    BY <2>1 DEF AsideKept
  <2>3. CASE deferred = <<>>
    BY <1>2, <2>1, <2>2, <2>3, GoodFrame DEF ServiceDeferred, NotSending
  <2>4. CASE deferred # <<>>
    <3> DEFINE h == Head(deferred)
               x == [pc |-> "enter", post |-> TRUE, at |-> 0]
    <3>1. h \in Reqs /\ service[h].pc = "none"
      BY <2>4, DeferredFacts
    <3>2. /\ service \in [Reqs -> ServiceType]
          /\ service' = [service EXCEPT ![h] = x]
      BY <1>2, <2>4, Typed DEF ServiceDeferred, IInv
    <3>3. x.pc # "send"
      OBVIOUS
    <3> HIDE DEF h, x
    <3>4. \A q \in Reqs : NotSending(q)
      BY <3>1, <3>2, <3>3 DEF NotSending
    <3> QED
      BY <2>1, <2>2, <3>4, GoodFrame
  <2> QED
    BY <2>3, <2>4
<1>3. CASE Leave \/ UNCHANGED vars
  <2>1. UNCHANGED <<req, pkt, service>>
    BY <1>3 DEF Leave, vars
  <2>2. \A q \in Reqs : AsideKept(q) /\ NotSending(q)
    BY <2>1 DEF AsideKept, NotSending
  <2> QED
    BY <2>1, <2>2, GoodFrame
<1>4. CASE ClassRemoveDevice
  <2>1. UNCHANGED <<req, service>>
    BY <1>4 DEF ClassRemoveDevice
  <2>2. \A k \in Packets :
          pkt'[k] # pkt[k] => pkt[k].state = "free" /\ pkt'[k] = Packet("none")
    BY <1>4 DEF ClassRemoveDevice, In
  <2>3. Packet("none").state = "none"
    BY DEF Packet, IdlePacket
  <2>4. \A q \in Reqs : AsideKept(q)
    BY <2>2, <2>3 DEF AsideKept, Aside
  <2> QED
    BY <2>1, <2>4, GoodFrame DEF NotSending
<1> QED
  BY <1>1, <1>2, <1>3, <1>4, ReadWriteKeeps, ReturnedKeeps, FinishKeeps
     DEF Next, Work

\* A packet that has a rest to transfer is in chunks.
RestInChunks(p) ==
  pkt[p].state \in {"queued", "sent"} => pkt[p].low \/ pkt[p].rest = 0

LEMMA ChunksStep ==
  ASSUME IInv, WholeInv, [Next]_vars
  PROVE  \A p \in Packets : RestInChunks(p)'
<1>1. pkt \in [Packets -> PktType]
  BY Typed DEF IInv
<1>2. \A p \in Packets : RestInChunks(p)
  BY DEF WholeInv, RestInChunks
<1>3. ASSUME NEW p, \A k \in Packets : k # p => pkt'[k] = pkt[k],
             RestInChunks(p)'
      PROVE  \A k \in Packets : RestInChunks(k)'
  BY <1>2, <1>3 DEF RestInChunks
<1>4. ASSUME NEW p, NEW s, NEW r, OnePacket(p, s, r),
             s \notin {"queued", "sent"}
      PROVE  \A k \in Packets : RestInChunks(k)'
  BY <1>3, <1>4 DEF OnePacket, RestInChunks
<1>5. ASSUME UNCHANGED pkt
      PROVE  \A k \in Packets : RestInChunks(k)'
  BY <1>2, <1>5 DEF RestInChunks
<1>6. ASSUME NEW r \in Reqs, Serve(r)
      PROVE  \A k \in Packets : RestInChunks(k)'
  <2>1. CASE Enter(r) \/ GatherNone(r) \/ Defer(r)
    BY <2>1, <1>5 DEF Enter, GatherNone, Defer
  <2>2. CASE Gather(r)
    BY <2>2, GatherEffect, <1>4
  <2>3. CASE GatherTooFew(r)
    <3> DEFINE x == Chunk(r, 0, req[r].transfer.length)
    <3>1. PICK keep \in HeldFor(r) :
            pkt' = [k \in Packets |->
                      IF k = keep THEN x
                      ELSE IF k \in HeldFor(r) THEN Packet("free") ELSE pkt[k]]
      BY <2>3, Zenon DEF GatherTooFew
    <3>2. req[r].transfer \in Transfers
      BY <2>3 DEF GatherTooFew, IInv, ServedActive
    <3>3. x.low /\ Packet("free").state = "free"
      BY <3>2, HwMaxFacts, ChunkType DEF Packet, IdlePacket
    <3> HIDE DEF x
    <3> QED
      BY <3>1, <3>3, <1>2 DEF RestInChunks
  <2>4. CASE Send(r)
    <3>1. PICK p : (\A k \in Packets : k # p => pkt'[k] = pkt[k])
                     /\ pkt'[p].rest = 0
      BY <2>4, SendEffect DEF OnePacket
    <3>2. RestInChunks(p)'
      BY <3>1 DEF RestInChunks
    <3> QED
      BY <3>1, <3>2, <1>3
  <2> QED
    BY <1>6, <2>1, <2>2, <2>3, <2>4 DEF Serve
<1>7. ASSUME NEW p \in Packets, Returned(p)
      PROVE  \A k \in Packets : RestInChunks(k)'
  <2>1. pkt[p].state = "sent"
    BY <1>7, ReturnedEffect
  <2>2. /\ pkt[p].irp \in Reqs /\ req[pkt[p].irp].transfer \in Transfers
        /\ pkt[p].at \in Nat /\ pkt[p].len \in Nat /\ pkt[p].rest \in Nat
        /\ pkt[p] \in PktType
    BY <2>1, SentFacts
  <2>3. \A ok \in BOOLEAN : Done(p, ok) => OnePacket(p, "counting", pkt[p].irp)
    BY DoneEffect
  <2>4. CASE \E ok \in BOOLEAN : Done(p, ok)
    BY <2>3, <2>4, <1>4
  <2>5. ASSUME NEW x, pkt' = [pkt EXCEPT ![p] = x],
               x.low \/ x.rest = 0
        PROVE  \A k \in Packets : RestInChunks(k)'
    <3>1. pkt'[p] = x /\ \A k \in Packets : k # p => pkt'[k] = pkt[k]
      BY <2>5, <1>1
    <3> QED
      BY <2>5, <3>1, <1>3 DEF RestInChunks
  <2>6. CASE Succeeded(p)
    <3> DEFINE x == Chunk(pkt[p].irp, pkt[p].at + pkt[p].len, pkt[p].rest)
    <3>1. pkt' = [pkt EXCEPT ![p] = x] \/ Done(p, TRUE)
      BY <2>6, Zenon DEF Succeeded
    <3>2. x.low
      BY <2>2, ChunkType
    <3> HIDE DEF x
    <3> QED
      BY <2>4, <2>5, <3>1, <3>2
  <2>7. CASE FailedForGood(p)
    BY <2>4, <2>7 DEF FailedForGood
  <2>8. CASE FailedOnce(p)
    <3>1. \/ RetriesLeft(p) /\ pkt' = [pkt EXCEPT ![p] = Retried(pkt[p])]
          \/ Done(p, FALSE)
      BY <2>8, Zenon DEF FailedOnce
    <3>2. RetriesLeft(p) =>
            /\ Retried(pkt[p]).low = pkt[p].low
            /\ Retried(pkt[p]).rest = pkt[p].rest
      BY <2>2, RetriedFacts DEF RetriesLeft
    <3>3. pkt[p].low \/ pkt[p].rest = 0
      BY <1>2, <2>1 DEF RestInChunks
    <3> QED
      BY <2>4, <2>5, <3>1, <3>2, <3>3
  <2>9. CASE FailedForMemory(p)
    <3> DEFINE x == Chunk(pkt[p].irp, pkt[p].at, pkt[p].len)
    <3>1. pkt' = [pkt EXCEPT ![p] = x] \/ Done(p, FALSE)
      BY <2>9, Zenon DEF FailedForMemory
    <3>2. x.low
      BY <2>2, ChunkType
    <3> HIDE DEF x
    <3> QED
      BY <2>4, <2>5, <3>1, <3>2
  <2> QED
    BY <1>7, <2>6, <2>7, <2>8, <2>9 DEF Returned
<1>8. ASSUME NEW p \in Packets, Finish(p)
      PROVE  \A k \in Packets : RestInChunks(k)'
  <2>1. CASE RetryDpc(p)
    <3>1. /\ pkt'[p].low = pkt[p].low /\ pkt'[p].rest = pkt[p].rest
          /\ pkt[p].state = "queued"
          /\ \A k \in Packets : k # p => pkt'[k] = pkt[k]
      BY <2>1, <1>1 DEF RetryDpc, PktType
    <3> QED
      BY <3>1, <1>2, <1>3 DEF RestInChunks
  <2>2. CASE CountDown(p) \/ Unthrottle(p) \/ Free(p)
    BY <2>2, FinishEffect, <1>4
  <2> QED
    BY <1>8, <2>1, <2>2 DEF Finish
<1>9. CASE ClassRemoveDevice
  <2>1. \A k \in Packets : pkt'[k] = pkt[k] \/ pkt'[k] = Packet("none")
    BY <1>9 DEF ClassRemoveDevice
  <2>2. Packet("none").state = "none"
    BY DEF Packet, IdlePacket
  <2> QED
    BY <2>1, <2>2, <1>2 DEF RestInChunks
<1>10. CASE \/ ServiceDeferred \/ Leave \/ UNCHANGED vars
            \/ \E r \in Reqs : ClassReadWrite(r)
  BY <1>10, <1>5 DEF ServiceDeferred, Leave, vars, ClassReadWrite
<1> QED
  BY <1>6, <1>7, <1>8, <1>9, <1>10 DEF Next, Work

LEMMA WholeStep ==
  IInv /\ WholeInv /\ [Next]_vars => WholeInv'
BY GoodStep, ChunksStep DEF WholeInv, Good, RestInChunks

LEMMA WholeInit ==
  Init => WholeInv
<1> SUFFICES ASSUME Init
             PROVE  WholeInv
  OBVIOUS
<1>1. \A r \in Reqs : req[r] = NewReq
  BY DEF Init
<1>2. \A p \in Packets : pkt[p].state \in {"free", "none"}
  BY DEF Init, Packet, IdlePacket
<1> QED
  BY <1>1, <1>2, NewReqType DEF WholeInv

\* A request that succeeds has nothing on its way, and nothing left to send.
LEMMA DoneWhole ==
  ASSUME IInv, WholeInv, [Next]_vars, NEW r \in Reqs,
         req[r].state = "active", req'[r].state = "done", req'[r].ok
  PROVE  req[r].sectors = 0 .. req[r].transfer.length - 1
<1>1. req \in [Reqs -> ReqType]
  BY Typed DEF IInv
<1>2. PICK p \in Packets : CountDown(p) /\ pkt[p].irp = r
  <2>1. ASSUME NEW q \in Reqs, ClassReadWrite(q)
        PROVE  FALSE
    <3>1. q # r
      BY <2>1, ReadWriteEffect
    <3> QED
      BY <2>1, <3>1, ReadWriteEffect DEF OthersSame, SameReq
  <2>2. ASSUME NEW q \in Reqs, Serve(q)
        PROVE  FALSE
    <3>1. CASE \E n \in Nat : req' = [req EXCEPT ![q] = Split(req[q], n)]
      BY <3>1, SplitEffect DEF OthersSame, SameReq
    <3>2. CASE UNCHANGED req
      BY <3>2
    <3>3. ASSUME Gather(q)
          PROVE  NumPackets(req[q].transfer) \in Nat
      BY <3>3, NumPacketsFacts DEF Gather, IInv, ServedActive
    <3> QED
      BY <2>2, <3>1, <3>2, <3>3, Zenon
         DEF Serve, Enter, Gather, GatherTooFew, GatherNone, Send, Defer
  <2>3. ASSUME NEW p \in Packets, Returned(p)
        PROVE  FALSE
    BY <2>3, ReturnedEffect DEF SameReq
  <2>4. PICK p \in Packets : CountDown(p)
    BY <2>1, <2>2, <2>3 DEF Next, Work, Finish, RetryDpc, Unthrottle, Free,
       ServiceDeferred, Leave, ClassRemoveDevice, vars
  <2>5. pkt[p].irp = r
    BY <2>4, CountDownEffect DEF OthersSame, SameReq
  <2> QED
    BY <2>4, <2>5
<1>3. pkt[p].state = "counting" /\ req[r].left = 1
  BY <1>2, CountDownEffect DEF CountDown
<1>4. req[r].ok /\ pkt[p].ok
  <2> DEFINE ok == req[r].ok /\ pkt[p].ok
  <2>1. req' = [req EXCEPT ![r] = Answered(ok)]
    BY <1>2, <1>3, Zenon DEF CountDown, Last
  <2>2. req'[r] = Answered(ok)
    BY <1>1, <2>1
  <2> QED
    BY <2>2 DEF Answered, NewReq
<1>5. service[r].pc = "none"
  BY <1>2, <1>3, LastFacts
<1>6. HandedOut(r) = req[r].transfer.length
  BY <1>3, <1>5 DEF HandedOut
<1>7. \A k : PieceOf(k, r) => k = p
  <2>1. p \in Uncounted(r) /\ Cardinality(Uncounted(r)) = 1
    BY <1>2, <1>3, PieceFacts DEF IInv, PiecesCounted
  <2>2. Uncounted(r) = {p}
    BY <2>1, Counts, OneLeft
  <2> QED
    BY <2>2, UncountedIs
<1>8. ~ Spoilt(r)
  BY <1>4, <1>7, CarriesFacts DEF Spoilt, FailedPiece
<1>9. \A k \in Packets, n \in Nat : ~ Carries(k, r, n)
  BY <1>3, <1>7, CarriesFacts DEF Carries
<1>10. Partition(r) /\ HandedOut(r) \in Nat
  BY HandedOutFacts DEF WholeInv
<1>11. \A n \in 0 .. HandedOut(r) - 1 : n \in req[r].sectors
  <2>1. \A n \in 0 .. HandedOut(r) - 1 : n \in Nat
    BY <1>10
  <2> QED
    BY <1>8, <1>9, <1>10, <2>1 DEF Partition, Covered
<1>12. \A n \in req[r].sectors : n \in 0 .. HandedOut(r) - 1
  BY <1>10 DEF Partition, Within
<1> QED
  BY <1>6, <1>11, <1>12

\* However ServiceTransferRequest splits a request, and TransferPktComplete and
\* RetryTransferPacket retry its pieces or cut them into chunks, in whatever
\* order they return: Information counts each sector once, and a request is
\* completed with success only when all of them were transferred.
THEOREM TransfersWhole ==
  Spec => WholeTransfer
<1>1. ASSUME IInv, WholeInv, [Next]_vars
      PROVE  [\A r \in Reqs :
                req[r].state = "active" =>
                  /\ req[r].info = Cardinality(req[r].sectors)
                  /\ req'[r].state = "done" /\ req'[r].ok =>
                       req[r].sectors = 0 .. req[r].transfer.length - 1]_vars
  BY <1>1, DoneWhole DEF WholeInv, Partition
<1>2. Spec => []WholeInv
  BY WholeInit, WholeStep, Inductive, PTL DEF Spec
<1> QED
  BY <1>1, <1>2, Inductive, PTL DEF Spec, WholeTransfer
==============================================================================
