----------------------------- MODULE IoCsqProofs -----------------------------
(***************************************************************************)
(* What the operations of the cancel-safe queue do to the set of IRPs in   *)
(* it, for both drivers that use it.                                       *)
(***************************************************************************)
EXTENDS IoCsq, TLAPS

\* RemoveAt takes out one element, and the others stay in order.
LEMMA RemoveAtFacts ==
  ASSUME NEW S, NEW s \in Seq(S), NEW i \in DOMAIN s
  PROVE  /\ RemoveAt(s, i) \in Seq(S)
         /\ Len(RemoveAt(s, i)) = Len(s) - 1
         /\ \A j \in 1 .. Len(s) - 1 :
              RemoveAt(s, i)[j] = IF j < i THEN s[j] ELSE s[j + 1]
<1> DEFINE front == SubSeq(s, 1, i - 1)
           back == SubSeq(s, i + 1, Len(s))
<1>1. i \in 1 .. Len(s) /\ Len(s) \in Nat
  OBVIOUS
<1>2. front \in Seq(S) /\ back \in Seq(S)
  BY <1>1
<1>3. Len(front) = i - 1 /\ Len(back) = Len(s) - i
  BY <1>1
<1>4. \A j \in 1 .. i - 1 : front[j] = s[j]
  BY <1>1
<1>5. \A j \in 1 .. Len(s) - i : back[j] = s[i + j]
  BY <1>1
<1>6. RemoveAt(s, i) = front \o back
  BY DEF RemoveAt
<1> HIDE DEF front, back
<1>7. \A j \in 1 .. Len(s) - 1 :
        RemoveAt(s, i)[j] = IF j < i THEN s[j] ELSE s[j + 1]
  <2> SUFFICES ASSUME NEW j \in 1 .. Len(s) - 1
               PROVE  (front \o back)[j] = IF j < i THEN s[j] ELSE s[j + 1]
    BY <1>6
  <2>1. CASE j < i
    BY <2>1, <1>1, <1>2, <1>3, <1>4
  <2>2. CASE ~ (j < i)
    <3>1. (front \o back)[j] = back[j - (i - 1)]
      BY <2>2, <1>1, <1>2, <1>3
    <3>2. j - (i - 1) \in 1 .. Len(s) - i
      BY <2>2, <1>1
    <3>3. back[j - (i - 1)] = s[i + (j - (i - 1))]
      BY <3>2, <1>5
    <3>4. i + (j - (i - 1)) = j + 1
      BY <1>1
    <3> QED
      BY <2>2, <3>1, <3>3, <3>4
  <2> QED
    BY <2>1, <2>2
<1> QED
  BY <1>1, <1>2, <1>3, <1>6, <1>7

\* IoCsqRemoveNextIrp and CsampRemoveIrp: the IRP that is unlinked was in the
\* queue, and afterwards just the others are.
LEMMA UnlinkFacts ==
  ASSUME CsqTypeOK, NoDuplicates, NEW i \in DOMAIN queue,
         queue' = RemoveAt(queue, i)
  PROVE  /\ queue[i] \in Reqs
         /\ queue[i] \in ToSet(queue)
         /\ ToSet(queue') = ToSet(queue) \ {queue[i]}
         /\ queue' \in Seq(Reqs)
         /\ NoDuplicates'
<1>1. queue \in Seq(Reqs) /\ Len(queue) \in Nat /\ i \in 1 .. Len(queue)
  BY DEF CsqTypeOK
<1>2. /\ queue' \in Seq(Reqs)
      /\ Len(queue') = Len(queue) - 1
      /\ \A j \in 1 .. Len(queue) - 1 :
           queue'[j] = IF j < i THEN queue[j] ELSE queue[j + 1]
  BY <1>1, RemoveAtFacts
<1>3. DOMAIN queue = 1 .. Len(queue) /\ DOMAIN queue' = 1 .. Len(queue) - 1
  BY <1>1, <1>2
<1> DEFINE From(j) == IF j < i THEN j ELSE j + 1
<1>4. \A j \in DOMAIN queue' : From(j) \in DOMAIN queue \ {i}
  BY <1>1, <1>3
<1>5. \A j \in DOMAIN queue' : queue'[j] = queue[From(j)]
  BY <1>1, <1>2, <1>3
<1>6. \A k \in DOMAIN queue \ {i} : \E j \in DOMAIN queue' : From(j) = k
  <2> SUFFICES ASSUME NEW k \in DOMAIN queue \ {i}
               PROVE  \E j \in DOMAIN queue' : From(j) = k
    OBVIOUS
  <2>1. CASE k < i
    <3>1. k \in DOMAIN queue' /\ From(k) = k
      BY <2>1, <1>1, <1>3
    <3> QED
      BY <3>1
  <2>2. CASE ~ (k < i)
    <3>1. k - 1 \in DOMAIN queue' /\ From(k - 1) = k
      BY <2>2, <1>1, <1>3
    <3> QED
      BY <3>1
  <2> QED
    BY <2>1, <2>2
<1>7. \A j, k \in DOMAIN queue' : From(j) = From(k) => j = k
  BY <1>1, <1>3
<1> HIDE DEF From
<1>8. NoDuplicates'
  BY <1>4, <1>5, <1>7 DEF NoDuplicates
<1>9. ToSet(queue') = ToSet(queue) \ {queue[i]}
  BY <1>4, <1>5, <1>6 DEF ToSet, NoDuplicates
<1>10. queue[i] \in Reqs
  BY <1>1
<1>11. queue[i] \in ToSet(queue)
  BY DEF ToSet
<1> QED
  BY <1>2, <1>8, <1>9, <1>10, <1>11

\* CsampInsertIrp
LEMMA InsertFacts ==
  ASSUME CsqTypeOK, NoDuplicates, NEW r \in Reqs, queue' = Append(queue, r)
  PROVE  /\ ToSet(queue') = ToSet(queue) \cup {r}
         /\ queue' \in Seq(Reqs)
         /\ r \notin ToSet(queue) => NoDuplicates'
<1>1. queue \in Seq(Reqs) /\ Len(queue) \in Nat
  BY DEF CsqTypeOK
<1>2. /\ queue' \in Seq(Reqs)
      /\ Len(queue') = Len(queue) + 1
      /\ \A j \in 1 .. Len(queue) : queue'[j] = queue[j]
      /\ queue'[Len(queue) + 1] = r
  BY <1>1
<1>3. /\ DOMAIN queue = 1 .. Len(queue)
      /\ DOMAIN queue' = (DOMAIN queue) \cup {Len(queue) + 1}
      /\ Len(queue) + 1 \notin DOMAIN queue
  BY <1>1, <1>2
<1>4. ToSet(queue') = ToSet(queue) \cup {r}
  BY <1>2, <1>3 DEF ToSet
<1>5. r \notin ToSet(queue) => NoDuplicates'
  BY <1>2, <1>3 DEF ToSet, NoDuplicates
<1> QED
  BY <1>2, <1>4, <1>5

\* What IoCsqRemoveNextIrp finds can be taken; if it finds nothing, nothing
\* can be.
LEMMA PeekFacts ==
  ASSUME CsqTypeOK
  PROVE  NoneLeft(Reqs) => \A r \in ToSet(queue) : ~ cancelRoutine[r]
<1>1. \A i \in DOMAIN queue : queue[i] \in Reqs
  BY DEF CsqTypeOK
<1> QED
  BY <1>1 DEF NoneLeft, TakesIrp, ToSet
=============================================================================
