-------------------------- MODULE SerialReadProofs --------------------------
(***************************************************************************)
(* Proofs about SerialRead, for any set of requests, any sizes of the      *)
(* buffers and any number of characters.                                   *)
(***************************************************************************)
EXTENDS SerialRead, TLAPS

(***************************************************************************)
(* The inductive invariant                                                 *)
(***************************************************************************)

\* The record of a request
CtxType == [kind : {"none", "read", "resize"}, len : 0 .. MaxLen,
            info : 0 .. MaxLen, refs : SUBSET RefTypes, routine : BOOLEAN]

RequestTypeOK ==
  /\ queue \in Seq(Reqs)
  /\ current \in Reqs \cup {NoReq}
  /\ ctx \in [Reqs -> CtxType]
  /\ asked \subseteq Reqs
  /\ cancelable \subseteq Reqs
  /\ completions \in [Reqs -> Nat]
  /\ delivered \in Seq(Chars)

\* SerialStartRead, or SerialResizeBuffer, is under way.
Starting == pc \in {"start", "update", "switch", "arm", "resize"}

InQueue(r) == \E i \in 1 .. Len(queue) : queue[i] = r

\* A request has a context from its arrival to its completion, as the current
\* one or in the queue, where it waits untouched.
ContextInv(r) ==
  /\ ctx[r].kind = "none" => ctx[r] = NoContext
  /\ ctx[r].kind # "none" <=> r = current \/ InQueue(r)
  /\ completions[r] # 0 => completions[r] = 1 /\ ctx[r].kind = "none"
  /\ r # current => ctx[r].refs = {} /\ ctx[r].info = 0 /\ ~ ctx[r].routine

QueueInv ==
  /\ \A i, j \in 1 .. Len(queue) : queue[i] = queue[j] => i = j
  /\ \A r \in Reqs : ContextInv(r)
  /\ ~ InQueue(current)
  /\ queue # <<>> => current # NoReq

RequestInv ==
  /\ QueueInv
  /\ asked \subseteq {current} /\ cancelable \subseteq {current}

\* The interrupt buffer holds its characters from the first readable slot to
\* the current one; a buffer given to the ISR is that of the current request.
RingInv ==
  /\ rx.size > 0 /\ start.copied <= rx.count
  /\ rx.base = Ring =>
       /\ rx.last = rx.size - 1 /\ rx.first <= rx.last
       /\ rx.cur = FirstAfter(ReducedCount)
  /\ rx.base # Ring =>
       /\ rx.base = current /\ rx.count = 0
       /\ rx.last = ctx[current].len - 1
       /\ ~ readDpc

\* What the holder of the lock has computed before it let interrupts in
StartInv ==
  /\ Starting \/ pc = "expire" => current # NoReq
  /\ pc \notin {"update", "switch", "resize"} => start.copied = 0
  /\ pc = "start" =>
       /\ ctx[current].info = 0 /\ ctx[current].refs = {}
  /\ pc \in {"update", "switch", "arm"} => ctx[current].kind = "read"
  /\ pc = "update" => ctx[current].info = start.copied
  /\ pc = "switch" =>
       /\ ctx[current].info = start.copied /\ ctx[current].refs = {}
       /\ start.needed > 0
       /\ start.needed + start.copied = ctx[current].len
  /\ pc = "arm" => ctx[current].refs = {"isr"} /\ (OwnedByIsr \/ readDpc)
  /\ pc = "resize" =>
       /\ ctx[current].kind = "resize" /\ ctx[current].info = 0
       /\ rx.size < NewSize
  /\ pc = "expire" => intTimer = "idle"
  /\ ~ Starting /\ current # NoReq => ctx[current].kind = "read"
  /\ ~ OwnedByIsr /\ current # NoReq => ctx[current].info <= ctx[current].len

Inv == TypeOK /\ RequestInv /\ RingInv /\ StartInv /\ RefCountTrue

(***************************************************************************)
(* Slots and characters                                                    *)
(***************************************************************************)

\* Every offset that a buffer may need is a slot.
LEMMA SlotFacts ==
  /\ 0 \in Slots
  /\ BufSize - 1 \in Slots
  /\ NewSize > 0 => NewSize - 1 \in Slots
  /\ \A n \in 1 .. MaxLen : n - 1 \in Slots
  /\ \A s \in Slots : s \in Nat
  /\ \A s \in Slots, t \in Nat : t <= s => t \in Slots
  /\ EmptySlots \in [Slots -> Chars]
  /\ BufSize \in Nat /\ NewSize \in Nat /\ MaxLen \in Nat /\ MaxChars \in Nat
<1> DEFINE top == Larger(Larger(BufSize, NewSize), MaxLen)
<1>1. /\ BufSize \in Nat /\ BufSize > 0 /\ NewSize \in Nat
      /\ MaxLen \in Nat /\ MaxLen > 0 /\ MaxChars \in Nat
  BY RxAssumption
<1>2. top \in Nat /\ top >= BufSize /\ top >= NewSize /\ top >= MaxLen
  BY <1>1 DEF Larger
<1> HIDE DEF top
<1>3. Slots = 0 .. top - 1
  BY DEF Slots, top
<1>4. EmptySlots \in [Slots -> Chars]
  BY <1>1 DEF EmptySlots, Chars
<1> QED
  BY <1>1, <1>2, <1>3, <1>4

\* FirstReadableChar stays in the ring.
LEMMA FirstAfterBound ==
  ASSUME rx.first \in Nat, rx.last \in Nat, rx.first <= rx.last,
         NEW n \in 0 .. rx.last + 1
  PROVE  FirstAfter(n) \in 0 .. rx.last
<1> DEFINE f == rx.first
           l == rx.last
<1>1. f \in Nat /\ l \in Nat /\ f <= l /\ n \in Int /\ 0 <= n /\ n <= l + 1
  OBVIOUS
<1> HIDE DEF f, l
<1>2. /\ (l - f + 1 > n => f + n \in 0 .. l)
      /\ (~ (l - f + 1 > n) => n - (l - f + 1) \in 0 .. l)
  BY <1>1
<1> QED
  BY <1>2 DEF FirstAfter, FirstTry, f, l

\* The slot after that of the n-th character is that of the next one.
LEMMA FirstAfterNext ==
  ASSUME rx.first \in Nat, rx.last \in Nat, rx.first <= rx.last,
         NEW n \in 0 .. rx.last, rx.cur = FirstAfter(n)
  PROVE  FirstAfter(n + 1) = Advanced
<1> DEFINE f == rx.first
           l == rx.last
           c == rx.cur
<1>1. f \in Nat /\ l \in Nat /\ f <= l /\ n \in Int /\ 0 <= n /\ n <= l
  OBVIOUS
<1>2. c = IF l - f + 1 > n THEN f + n ELSE n - (l - f + 1)
  BY DEF FirstAfter, FirstTry
<1> HIDE DEF f, l, c
<1>3. (IF l - f + 1 > n + 1 THEN f + (n + 1) ELSE (n + 1) - (l - f + 1))
        = IF c = l THEN 0 ELSE c + 1
  BY <1>1, <1>2
<1> QED
  BY <1>3 DEF FirstAfter, FirstTry, Advanced, f, l, c

\* Characters can be taken in two goes.
LEMMA FirstAfterTwice ==
  ASSUME rx.first \in Nat, rx.last \in Nat, rx.first <= rx.last,
         rx.last' = rx.last,
         NEW m \in Nat, NEW n \in Nat, m + n <= rx.last + 1,
         rx.first' = FirstAfter(m)
  PROVE  FirstAfter(n)' = FirstAfter(m + n)
<1> DEFINE f == rx.first
           l == rx.last
           g == rx.first'
<1>1. f \in Nat /\ l \in Nat /\ f <= l /\ m \in Nat /\ n \in Nat
      /\ m + n <= l + 1
  OBVIOUS
<1>2. g = IF l - f + 1 > m THEN f + m ELSE m - (l - f + 1)
  BY DEF FirstAfter, FirstTry
<1>3. FirstAfter(n)' = IF l - g + 1 > n THEN g + n ELSE n - (l - g + 1)
  BY DEF FirstAfter, FirstTry
<1>4. FirstAfter(m + n)
        = IF l - f + 1 > m + n THEN f + (m + n) ELSE (m + n) - (l - f + 1)
  BY DEF FirstAfter, FirstTry
<1> HIDE DEF f, l, g
<1>5. (IF l - g + 1 > n THEN g + n ELSE n - (l - g + 1))
        = IF l - f + 1 > m + n THEN f + (m + n) ELSE (m + n) - (l - f + 1)
  <2>1. CASE l - f + 1 > m
    <3>1. g = f + m
      BY <1>2, <2>1
    <3> QED
      BY <1>1, <2>1, <3>1
  <2>2. CASE ~ (l - f + 1 > m)
    <3>1. g = m - (l - f + 1)
      BY <1>2, <2>2
    <3> QED
      BY <1>1, <2>2, <3>1
  <2> QED
    BY <2>1, <2>2
<1> QED
  BY <1>5, <1>3, <1>4

\* A character of the ring
LEMMA ReadableCharType ==
  ASSUME RxTypeOK, rx.first <= rx.last, NEW n \in 0 .. rx.last
  PROVE  ReadableChar(n) \in Chars
<1> DEFINE f == rx.first
           l == rx.last
<1>1. f \in Slots /\ l \in Slots /\ ring \in [Slots -> Chars]
  BY DEF RxTypeOK
<1>2. f \in Nat /\ l \in Nat /\ f <= l
  BY <1>1, SlotFacts
<1> HIDE DEF f, l
<1>3. /\ (n < l - f + 1 => f + n \in Slots)
      /\ (~ (n < l - f + 1) => n - (l - f + 1) \in Slots)
  <2>1. /\ (n < l - f + 1 => f + n \in Nat /\ f + n <= l)
        /\ (~ (n < l - f + 1) =>
              n - (l - f + 1) \in Nat /\ n - (l - f + 1) <= l)
    BY <1>2 DEF l
  <2> QED
    BY <1>1, <2>1, SlotFacts
<1> QED
  BY <1>1, <1>3 DEF ReadableChar, FirstTry, f, l

\* SerialGetCharsFromIntBuffer fills slots of a buffer with characters.
LEMMA CopiedType ==
  ASSUME RxTypeOK, rx.first <= rx.last, NEW slots \in [Slots -> Chars],
         NEW at \in Nat, NEW n \in 0 .. rx.last + 1
  PROVE  Copied(slots, at, n) \in [Slots -> Chars]
<1>1. rx.last \in Nat
  BY SlotFacts DEF RxTypeOK
<1>2. ASSUME NEW i \in Slots, i \in at .. at + n - 1
      PROVE  ReadableChar(i - at) \in Chars
  <2>1. i - at \in 0 .. rx.last
    BY <1>1, <1>2
  <2> QED
    BY <2>1, ReadableCharType
<1> QED
  BY <1>2 DEF Copied

(***************************************************************************)
(* The queue                                                               *)
(***************************************************************************)

LEMMA NoContextType ==
  /\ NoContext \in CtxType
  /\ NoContext.kind = "none" /\ NoContext.info = 0 /\ NoContext.refs = {}
  /\ ~ NoContext.routine
<1>1. 0 \in 0 .. MaxLen
  BY SlotFacts
<1> QED
  BY <1>1 DEF NoContext, CtxType

\* WdfIoQueueRetrieveNextRequest takes the first request, and the others stay.
LEMMA TailFacts ==
  ASSUME NEW S, NEW s \in Seq(S), s # << >>
  PROVE  /\ Head(s) \in S /\ Tail(s) \in Seq(S) /\ Len(s) \in Nat
         /\ Len(Tail(s)) = Len(s) - 1 /\ Len(s) > 0
         /\ s[1] = Head(s)
         /\ \A i \in 1 .. Len(Tail(s)) : Tail(s)[i] = s[i + 1]
OBVIOUS

\* A request that is taken out of the queue, and the others stay in order.
LEMMA RemoveAtFacts ==
  ASSUME NEW S, NEW s \in Seq(S), NEW i \in DOMAIN s
  PROVE  /\ RemoveAt(s, i) \in Seq(S)
         /\ Len(RemoveAt(s, i)) = Len(s) - 1
         /\ \A j \in 1 .. Len(s) - 1 :
              RemoveAt(s, i)[j] = IF j < i THEN s[j] ELSE s[j + 1]
<1> DEFINE before == SubSeq(s, 1, i - 1)
           after == SubSeq(s, i + 1, Len(s))
<1>1. i \in 1 .. Len(s) /\ Len(s) \in Nat
  OBVIOUS
<1>2. before \in Seq(S) /\ after \in Seq(S)
  BY <1>1
<1>3. Len(before) = i - 1 /\ Len(after) = Len(s) - i
  BY <1>1
<1>4. \A j \in 1 .. i - 1 : before[j] = s[j]
  BY <1>1
<1>5. \A j \in 1 .. Len(s) - i : after[j] = s[i + j]
  BY <1>1
<1>6. RemoveAt(s, i) = before \o after
  BY DEF RemoveAt
<1> HIDE DEF before, after
<1>7. \A j \in 1 .. Len(s) - 1 :
        RemoveAt(s, i)[j] = IF j < i THEN s[j] ELSE s[j + 1]
  <2> SUFFICES ASSUME NEW j \in 1 .. Len(s) - 1
               PROVE  (before \o after)[j] = IF j < i THEN s[j] ELSE s[j + 1]
    BY <1>6
  <2>1. CASE j < i
    BY <2>1, <1>1, <1>2, <1>3, <1>4
  <2>2. CASE ~ (j < i)
    <3>1. (before \o after)[j] = after[j - (i - 1)]
      <4>1. /\ j \in 1 .. Len(before) + Len(after) /\ ~ (j <= Len(before))
            /\ Len(before) = i - 1
        BY <2>2, <1>1, <1>3
      <4> QED
        BY <4>1, <1>2
    <3>2. j - (i - 1) \in 1 .. Len(s) - i /\ i + (j - (i - 1)) = j + 1
      BY <2>2, <1>1
    <3> QED
      BY <2>2, <3>1, <3>2, <1>5
  <2> QED
    BY <2>1, <2>2
<1>8. before \o after \in Seq(S) /\ Len(before \o after) = Len(s) - 1
  <2>1. (i - 1) + (Len(s) - i) = Len(s) - 1
    BY <1>1
  <2> QED
    BY <1>2, <1>3, <2>1
<1> QED
  BY <1>6, <1>7, <1>8

\* The current request goes on with an other context of the same kind.
LEMMA CurrentGoesOn ==
  ASSUME RequestTypeOK, QueueInv, current \in Reqs,
         ctx'[current].kind = ctx[current].kind,
         \A r \in Reqs : r # current => ctx'[r] = ctx[r],
         UNCHANGED <<queue, current, completions>>
  PROVE  QueueInv'
<1>1. \A r \in Reqs : r # current => ctx'[r] = ctx[r]
  OBVIOUS
<1>2. \A r \in Reqs : InQueue(r)' <=> InQueue(r)
  BY DEF InQueue
<1>3. ASSUME NEW r \in Reqs
      PROVE  ContextInv(r)'
  <2>1. ContextInv(r) /\ ContextInv(current)
    BY DEF QueueInv
  <2>2. ctx'[r].kind = ctx[r].kind
    BY <1>1
  <2>3. ctx[current].kind # "none"
    BY <2>1 DEF ContextInv
  <2>4. CASE r = current
    BY <1>1, <1>2, <2>1, <2>2, <2>3, <2>4 DEF ContextInv
  <2>5. CASE r # current
    BY <1>1, <1>2, <2>1, <2>5 DEF ContextInv
  <2> QED
    BY <2>4, <2>5
<1>4. (~ InQueue(current))' /\ (queue # <<>> => current # NoReq)'
  BY DEF QueueInv, InQueue
<1>5. (\A i, j \in 1 .. Len(queue) : queue[i] = queue[j] => i = j)'
  BY DEF QueueInv
<1> QED
  BY <1>3, <1>4, <1>5 DEF QueueInv

\* What the rest of the state means for the next request, if there is one
NextIsFresh(then) ==
  \/ current' = NoReq /\ pc' = then
  \/ /\ current' \in Reqs /\ pc' = "start"
     /\ ctx'[current'].info = 0 /\ ctx'[current'].refs = {}

\* SerialCompleteRequest and SerialGetNextRequest: the current request is
\* gone, and the first of the queue is the current one.
LEMMA CompleteFacts ==
  ASSUME RequestTypeOK, QueueInv, asked \subseteq {current}, current \in Reqs,
         user \in [Reqs -> [Slots -> Chars]],
         NEW c \in CtxType, NEW slots \in [Slots -> Chars], NEW then,
         CompleteAndNext(c, slots, then)
  PROVE  /\ ctx' \in [Reqs -> CtxType] /\ completions' \in [Reqs -> Nat]
         /\ user' \in [Reqs -> [Slots -> Chars]]
         /\ delivered' \in Seq(Chars) /\ queue' \in Seq(Reqs)
         /\ current' \in Reqs \cup {NoReq} /\ asked' = {}
         /\ QueueInv'
         /\ NextIsFresh(then)
<1>1. /\ queue \in Seq(Reqs) /\ ctx \in [Reqs -> CtxType]
      /\ completions \in [Reqs -> Nat] /\ delivered \in Seq(Chars)
  BY DEF RequestTypeOK
<1>2. /\ ctx' = [ctx EXCEPT ![current] = NoContext]
      /\ completions' = [completions EXCEPT ![current] = @ + 1]
      /\ asked' = asked \ {current}
      /\ delivered' = delivered \o [i \in 1 .. c.info |-> slots[i - 1]]
      /\ user' = [user EXCEPT ![current] = EmptySlots]
  BY DEF CompleteAndNext
<1>3. /\ ctx' \in [Reqs -> CtxType] /\ ctx'[current] = NoContext
      /\ \A r \in Reqs : r # current => ctx'[r] = ctx[r]
  BY <1>1, <1>2, NoContextType
<1>4. /\ completions' \in [Reqs -> Nat]
      /\ completions'[current] = completions[current] + 1
      /\ \A r \in Reqs : r # current => completions'[r] = completions[r]
  BY <1>1, <1>2
<1>5. delivered' \in Seq(Chars)
  <2>1. c.info \in 0 .. MaxLen
    BY DEF CtxType
  <2>2. \A i \in 1 .. c.info : slots[i - 1] \in Chars
    BY <2>1, SlotFacts
  <2>3. [i \in 1 .. c.info |-> slots[i - 1]] \in Seq(Chars)
    BY <2>1, <2>2
  <2> QED
    BY <1>1, <1>2, <2>3
<1>6. user' \in [Reqs -> [Slots -> Chars]]
  BY <1>2, SlotFacts
<1>7. asked' = {}
  BY <1>2
<1>8. ASSUME NEW r \in Reqs
      PROVE  /\ r # current => (ctx[r].kind # "none" <=> InQueue(r))
             /\ r = current => ~ InQueue(r)
             /\ ctx[r].kind = "none" => ctx[r] = NoContext
             /\ completions[r] # 0 =>
                  completions[r] = 1 /\ ctx[r].kind = "none"
             /\ r # current => ctx[r].refs = {} /\ ctx[r].info = 0
                               /\ ~ ctx[r].routine
             /\ r = current => completions[r] = 0
  <2>1. ContextInv(r) /\ ContextInv(current) /\ ~ InQueue(current)
    BY DEF QueueInv
  <2> QED
    BY <2>1, <1>1 DEF ContextInv
<1>9. NoReq \notin Reqs
  BY RxAssumption
<1>10. CASE queue = <<>>
  <2>1. current' = NoReq /\ pc' = then /\ queue' = queue
    BY <1>10 DEF CompleteAndNext, NoneWaiting
  <2>2. \A r : ~ InQueue(r) /\ ~ InQueue(r)'
    BY <1>10, <2>1 DEF InQueue
  <2>3. ASSUME NEW r \in Reqs
        PROVE  ContextInv(r)'
    <3>1. CASE r = current
      BY <3>1, <1>3, <1>4, <1>8, <1>9, <2>1, <2>2, NoContextType
        DEF ContextInv
    <3>2. CASE r # current
      BY <3>2, <1>3, <1>4, <1>8, <1>9, <2>1, <2>2 DEF ContextInv
    <3> QED
      BY <3>1, <3>2
  <2>4. QueueInv'
    BY <2>1, <2>2, <2>3, <1>10 DEF QueueInv
  <2> QED
    BY <1>1, <1>3, <1>4, <1>5, <1>6, <1>7, <2>1, <2>4 DEF NextIsFresh
<1>11. CASE queue # <<>>
  <2>1. current' = Head(queue) /\ queue' = Tail(queue) /\ pc' = "start"
    BY <1>11 DEF CompleteAndNext, NoneWaiting
  <2>2. /\ Head(queue) \in Reqs /\ Tail(queue) \in Seq(Reqs)
        /\ Len(queue) \in Nat /\ Len(queue) > 0
        /\ Len(queue') = Len(queue) - 1 /\ queue[1] = current'
        /\ \A i \in 1 .. Len(queue') : queue'[i] = queue[i + 1]
    BY <1>1, <1>11, <2>1, TailFacts
  <2>3. \A i, j \in 1 .. Len(queue) : queue[i] = queue[j] => i = j
    BY DEF QueueInv
  <2>4. \A i, j \in 1 .. Len(queue') : queue'[i] = queue'[j] => i = j
    <3> TAKE i, j \in 1 .. Len(queue')
    <3> HAVE queue'[i] = queue'[j]
    <3>1. i + 1 \in 1 .. Len(queue) /\ j + 1 \in 1 .. Len(queue)
      BY <2>2
    <3>2. i + 1 = j + 1
      BY <2>2, <2>3, <3>1
    <3> QED
      BY <3>2
  <2>5. ~ InQueue(current)'
    <3> SUFFICES ASSUME NEW i \in 1 .. Len(queue'), queue'[i] = current'
                 PROVE  FALSE
      BY DEF InQueue
    <3>1. i + 1 \in 1 .. Len(queue) /\ 1 \in 1 .. Len(queue) /\ i + 1 # 1
      BY <2>2
    <3> QED
      BY <2>2, <2>3, <3>1
  <2>6. \A r : InQueue(r) <=> r = current' \/ InQueue(r)'
    <3> SUFFICES ASSUME NEW r
                 PROVE  InQueue(r) <=> r = current' \/ InQueue(r)'
      OBVIOUS
    <3>1. ASSUME NEW i \in 1 .. Len(queue), queue[i] = r, r # current'
          PROVE  InQueue(r)'
      <4>1. i # 1
        BY <2>2, <3>1
      <4>2. i - 1 \in 1 .. Len(queue') /\ (i - 1) + 1 = i
        BY <2>2, <4>1
      <4> QED
        BY <2>2, <3>1, <4>2 DEF InQueue
    <3>2. ASSUME NEW i \in 1 .. Len(queue'), queue'[i] = r
          PROVE  InQueue(r)
      <4>1. i + 1 \in 1 .. Len(queue)
        BY <2>2
      <4> QED
        BY <2>2, <3>2, <4>1 DEF InQueue
    <3>3. InQueue(current')
      <4>1. 1 \in 1 .. Len(queue)
        BY <2>2
      <4> QED
        BY <2>2, <4>1 DEF InQueue
    <3> QED
      BY <3>1, <3>2, <3>3 DEF InQueue
  <2>7. current' \in Reqs /\ current' # current /\ queue' \in Seq(Reqs)
    <3>1. InQueue(current') /\ ~ InQueue(current)
      BY <2>6 DEF QueueInv
    <3> QED
      BY <2>1, <2>2, <3>1
  <2>8. ASSUME NEW r \in Reqs
        PROVE  ContextInv(r)'
    <3>1. InQueue(r) <=> r = current' \/ InQueue(r)'
      BY <2>6
    <3>2. CASE r = current
      <4>1. ctx'[r] = NoContext /\ completions'[r] = 1
        BY <3>2, <1>3, <1>4, <1>8
      <4>2. r # current' /\ ~ InQueue(r)'
        BY <3>1, <3>2, <1>8, <2>7
      <4> QED
        BY <4>1, <4>2, NoContextType DEF ContextInv
    <3>3. CASE r # current
      <4>1. ctx'[r] = ctx[r] /\ completions'[r] = completions[r]
        BY <3>3, <1>3, <1>4
      <4> QED
        BY <3>1, <3>3, <4>1, <1>8 DEF ContextInv
    <3> QED
      BY <3>2, <3>3
  <2>9. QueueInv'
    BY <2>4, <2>5, <2>7, <2>8, <1>9 DEF QueueInv
  <2>10. ctx'[current'].info = 0 /\ ctx'[current'].refs = {}
    BY <1>3, <1>8, <2>7
  <2> QED
    BY <1>1, <1>3, <1>4, <1>5, <1>6, <1>7, <2>1, <2>7, <2>9, <2>10
      DEF NextIsFresh
<1> QED
  BY <1>10, <1>11

\* The driver has no request of ReadQueue but the current one.
LEMMA QueueIdle ==
  ASSUME QueueInv, current = NoReq
  PROVE  IsQueueEmpty
<1>1. queue = <<>>
  BY DEF QueueInv
<1>2. current \notin Reqs
  BY RxAssumption
<1>3. \A r : ~ InQueue(r)
  BY <1>1 DEF InQueue
<1>4. \A r \in Reqs : ContextInv(r)
  BY DEF QueueInv
<1>5. \A r \in Reqs : ctx[r].kind = "none"
  BY <1>2, <1>3, <1>4, Zenon DEF ContextInv
<1> QED
  BY <1>1, <1>5 DEF IsQueueEmpty

\* SerialStartOrQueue: the request is new, and gets the lock or queues up.
LEMMA EnterFacts ==
  ASSUME RequestTypeOK, QueueInv, NEW r \in Reqs,
         NEW kind \in {"read", "resize"}, NEW len \in 0 .. MaxLen,
         StartOrQueue(r, kind, len)
  PROVE  /\ ctx' \in [Reqs -> CtxType]
         /\ queue' \in Seq(Reqs)
         /\ current' \in Reqs \cup {NoReq}
         /\ QueueInv'
         /\ \/ current = NoReq /\ NextIsFresh("start")
            \/ current \in Reqs /\ UNCHANGED <<current, pc>>
               /\ ctx'[current] = ctx[current]
<1>1. /\ queue \in Seq(Reqs) /\ ctx \in [Reqs -> CtxType]
      /\ completions \in [Reqs -> Nat] /\ current \in Reqs \cup {NoReq}
      /\ NoReq \notin Reqs
  BY RxAssumption DEF RequestTypeOK
<1>2. /\ ctx[r].kind = "none" /\ completions[r] = 0
      /\ ctx' = [ctx EXCEPT ![r].kind = kind, ![r].len = len]
      /\ UNCHANGED completions
  BY DEF StartOrQueue
<1>3. ctx[r] = NoContext /\ r # current /\ ~ InQueue(r)
  <2>1. ContextInv(r)
    BY DEF QueueInv
  <2> QED
    BY <2>1, <1>2 DEF ContextInv
<1>4. /\ ctx' \in [Reqs -> CtxType]
      /\ ctx'[r].kind = kind /\ ctx'[r].info = 0 /\ ctx'[r].refs = {}
      /\ ~ ctx'[r].routine
      /\ \A q \in Reqs : q # r => ctx'[q] = ctx[q]
  <2> DEFINE d == ctx[r]
             c == [d EXCEPT !.kind = kind, !.len = len]
  <2>1. d \in CtxType /\ d.info = 0 /\ d.refs = {} /\ ~ d.routine
    BY <1>1, <1>3, NoContextType
  <2> HIDE DEF d
  <2>2. /\ c \in CtxType
        /\ c.kind = kind /\ c.info = 0 /\ c.refs = {} /\ ~ c.routine
    BY <2>1 DEF CtxType
  <2> HIDE DEF c
  <2>3. ctx' = [ctx EXCEPT ![r] = c]
    BY <1>2 DEF c, d
  <2> QED
    BY <1>1, <2>2, <2>3
<1>5. \A q \in Reqs : ContextInv(q)
  BY DEF QueueInv
<1>6. \A i, j \in 1 .. Len(queue) : queue[i] = queue[j] => i = j
  BY DEF QueueInv
<1>7. ~ InQueue(current) /\ (queue # <<>> => current # NoReq)
  BY DEF QueueInv
<1>8. CASE current = NoReq
  <2>1. current' = r /\ pc' = "start" /\ queue' = queue /\ queue = <<>>
    BY <1>8, QueueIdle DEF StartOrQueue, IsQueueEmpty
  <2>2. \A q : ~ InQueue(q) /\ ~ InQueue(q)'
    BY <2>1 DEF InQueue
  <2>3. ASSUME NEW q \in Reqs
        PROVE  ContextInv(q)'
    <3>1. CASE q = r
      BY <3>1, <1>2, <1>4, <2>1 DEF ContextInv
    <3>2. CASE q # r
      BY <3>2, <1>1, <1>2, <1>4, <1>5, <1>8, <2>1, <2>2 DEF ContextInv
    <3> QED
      BY <3>1, <3>2
  <2>4. QueueInv'
    BY <2>1, <2>2, <2>3, <1>8 DEF QueueInv
  <2> QED
    BY <1>1, <1>4, <1>8, <2>1, <2>4 DEF NextIsFresh
<1>9. CASE current # NoReq
  <2>1. queue' = Append(queue, r) /\ current' = current /\ pc' = pc
    BY <1>9 DEF StartOrQueue
  <2>2. current \in Reqs
    BY <1>1, <1>7, <1>9
  <2>3. /\ queue' \in Seq(Reqs) /\ Len(queue) \in Nat
        /\ Len(queue') = Len(queue) + 1 /\ queue'[Len(queue) + 1] = r
        /\ \A i \in 1 .. Len(queue) : queue'[i] = queue[i]
    BY <1>1, <2>1
  <2>4. \A q : InQueue(q)' <=> InQueue(q) \/ q = r
    <3> SUFFICES ASSUME NEW q
                 PROVE  InQueue(q)' <=> InQueue(q) \/ q = r
      OBVIOUS
    <3>1. ASSUME NEW i \in 1 .. Len(queue'), queue'[i] = q, q # r
          PROVE  InQueue(q)
      <4>1. i \in 1 .. Len(queue)
        BY <2>3, <3>1
      <4> QED
        BY <2>3, <3>1, <4>1 DEF InQueue
    <3>2. ASSUME NEW i \in 1 .. Len(queue), queue[i] = q
          PROVE  InQueue(q)'
      <4>1. i \in 1 .. Len(queue')
        BY <2>3
      <4> QED
        BY <2>3, <3>2, <4>1 DEF InQueue
    <3>3. InQueue(r)'
      <4>1. Len(queue) + 1 \in 1 .. Len(queue')
        BY <2>3
      <4> QED
        BY <2>3, <4>1 DEF InQueue
    <3> QED
      BY <3>1, <3>2, <3>3 DEF InQueue
  <2>5. \A i, j \in 1 .. Len(queue') : queue'[i] = queue'[j] => i = j
    <3> TAKE i, j \in 1 .. Len(queue')
    <3> HAVE queue'[i] = queue'[j]
    <3>1. i \in 1 .. Len(queue) \/ i = Len(queue) + 1
      BY <2>3
    <3>2. j \in 1 .. Len(queue) \/ j = Len(queue) + 1
      BY <2>3
    <3>3. \A k \in 1 .. Len(queue) : queue[k] # r
      BY <1>3 DEF InQueue
    <3> QED
      BY <3>1, <3>2, <3>3, <2>3, <1>6
  <2>6. ASSUME NEW q \in Reqs
        PROVE  ContextInv(q)'
    <3>1. CASE q = r
      BY <3>1, <1>2, <1>3, <1>4, <2>1, <2>4 DEF ContextInv
    <3>2. CASE q # r
      BY <3>2, <1>1, <1>2, <1>4, <1>5, <2>1, <2>4 DEF ContextInv
    <3> QED
      BY <3>1, <3>2
  <2>7. ~ InQueue(current)'
    BY <1>3, <1>7, <2>1, <2>4
  <2>8. QueueInv'
    BY <1>1, <2>1, <2>2, <2>5, <2>6, <2>7 DEF QueueInv
  <2> QED
    BY <1>1, <1>3, <1>4, <2>1, <2>2, <2>3, <2>8
<1> QED
  BY <1>8, <1>9

\* WdfIoQueuePurge completes every request of the queue.
LEMMA FlushFacts ==
  ASSUME RequestTypeOK, QueueInv, NEW then, FlushQueue(then)
  PROVE  /\ ctx' \in [Reqs -> CtxType] /\ completions' \in [Reqs -> Nat]
         /\ queue' = <<>> /\ QueueInv'
         /\ current \in Reqs => ctx'[current] = ctx[current]
         /\ UNCHANGED <<bufferVars, current, delivered, asked, cancelable,
                        start, timerVars, countVars>>
         /\ pc' = then
<1>1. /\ queue \in Seq(Reqs) /\ ctx \in [Reqs -> CtxType]
      /\ completions \in [Reqs -> Nat] /\ current \in Reqs \cup {NoReq}
  BY DEF RequestTypeOK
<1>2. /\ queue' = <<>>
      /\ \A r \in Reqs :
           /\ ctx'[r] = IF InQueue(r) THEN NoContext ELSE ctx[r]
           /\ completions'[r] = IF InQueue(r) THEN completions[r] + 1
                                              ELSE completions[r]
      /\ UNCHANGED <<bufferVars, current, delivered, asked, cancelable,
                     start, timerVars, countVars>>
      /\ pc' = then
  <2>1. \A r : r \in {queue[i] : i \in 1 .. Len(queue)} <=> InQueue(r)
    BY DEF InQueue
  <2> QED
    BY <2>1 DEF FlushQueue
<1>3. ctx' \in [Reqs -> CtxType]
  <2>1. ctx' = [r \in Reqs |-> ctx'[r]]
    BY DEF FlushQueue
  <2>2. \A r \in Reqs : ctx'[r] \in CtxType
    BY <1>1, <1>2, NoContextType
  <2> QED
    BY <2>1, <2>2
<1>4. completions' \in [Reqs -> Nat]
  <2>1. completions' = [r \in Reqs |-> completions'[r]]
    BY DEF FlushQueue
  <2>2. \A r \in Reqs : completions'[r] \in Nat
    BY <1>1, <1>2
  <2> QED
    BY <2>1, <2>2
<1>5. \A r : ~ InQueue(r)'
  BY <1>2 DEF InQueue
<1>6. ASSUME NEW r \in Reqs
      PROVE  ContextInv(r)'
  <2>1. ContextInv(r) /\ ~ InQueue(current)
    BY DEF QueueInv
  <2>2. current' = current
    BY <1>2
  <2>3. CASE InQueue(r)
    <3>1. r # current /\ completions[r] = 0
      BY <1>1, <2>1, <2>3 DEF ContextInv
    <3>2. ctx'[r] = NoContext /\ completions'[r] = 1
      BY <1>2, <2>3, <3>1
    <3> QED
      BY <1>5, <2>2, <3>1, <3>2, NoContextType DEF ContextInv
  <2>4. CASE ~ InQueue(r)
    <3>1. ctx'[r] = ctx[r] /\ completions'[r] = completions[r]
      BY <1>2, <2>4
    <3> QED
      BY <1>5, <2>1, <2>2, <2>4, <3>1 DEF ContextInv
  <2> QED
    BY <2>3, <2>4
<1>7. QueueInv'
  BY <1>2, <1>5, <1>6 DEF QueueInv
<1>8. current \in Reqs => ctx'[current] = ctx[current]
  BY <1>2 DEF QueueInv
<1> QED
  BY <1>2, <1>3, <1>4, <1>7, <1>8

\* The framework completes a request of the queue that is cancelled.
LEMMA CancelFacts ==
  ASSUME RequestTypeOK, QueueInv, NEW r \in Reqs, r # current, Cancel(r)
  PROVE  /\ ctx' \in [Reqs -> CtxType] /\ completions' \in [Reqs -> Nat]
         /\ queue' \in Seq(Reqs) /\ QueueInv'
         /\ current \in Reqs => ctx'[current] = ctx[current]
         /\ UNCHANGED asked
<1>1. /\ queue \in Seq(Reqs) /\ ctx \in [Reqs -> CtxType]
      /\ completions \in [Reqs -> Nat] /\ current \in Reqs \cup {NoReq}
  BY DEF RequestTypeOK
<1>2. /\ ctx' = [ctx EXCEPT ![r] = NoContext]
      /\ completions' = [completions EXCEPT ![r] = @ + 1]
      /\ UNCHANGED <<asked, current>>
  BY DEF Cancel
<1>3. PICK k \in DOMAIN queue : queue[k] = r /\ queue' = RemoveAt(queue, k)
  BY DEF Cancel
<1>4. /\ k \in 1 .. Len(queue) /\ Len(queue) \in Nat
      /\ queue' \in Seq(Reqs) /\ Len(queue') = Len(queue) - 1
      /\ \A i \in 1 .. Len(queue') :
           queue'[i] = IF i < k THEN queue[i] ELSE queue[i + 1]
  <2>1. k \in 1 .. Len(queue) /\ Len(queue) \in Nat
    BY <1>1
  <2>2. /\ RemoveAt(queue, k) \in Seq(Reqs)
        /\ Len(RemoveAt(queue, k)) = Len(queue) - 1
        /\ \A i \in 1 .. Len(queue) - 1 :
             RemoveAt(queue, k)[i] = IF i < k THEN queue[i] ELSE queue[i + 1]
    BY <1>1, RemoveAtFacts
  <2> QED
    BY <1>3, <2>1, <2>2
<1>5. \A i, j \in 1 .. Len(queue) : queue[i] = queue[j] => i = j
  BY DEF QueueInv
<1>6. ASSUME NEW i \in 1 .. Len(queue')
      PROVE  \E j \in 1 .. Len(queue) :
               /\ j # k /\ queue[j] = queue'[i]
               /\ j = IF i < k THEN i ELSE i + 1
  <2>1. CASE i < k
    BY <1>4, <2>1
  <2>2. CASE ~ (i < k)
    <3>1. i + 1 \in 1 .. Len(queue) /\ i + 1 # k
      BY <1>4, <2>2
    <3> QED
      BY <1>4, <2>2, <3>1
  <2> QED
    BY <2>1, <2>2
<1>7. \A i, j \in 1 .. Len(queue') : queue'[i] = queue'[j] => i = j
  <2> TAKE i, j \in 1 .. Len(queue')
  <2> HAVE queue'[i] = queue'[j]
  <2>1. PICK m \in 1 .. Len(queue) :
          queue[m] = queue'[i] /\ m = IF i < k THEN i ELSE i + 1
    BY <1>6
  <2>2. PICK n \in 1 .. Len(queue) :
          queue[n] = queue'[j] /\ n = IF j < k THEN j ELSE j + 1
    BY <1>6
  <2>3. m = n
    BY <1>5, <2>1, <2>2
  <2> QED
    BY <1>4, <2>1, <2>2, <2>3
<1>8. \A q : InQueue(q)' <=> InQueue(q) /\ q # r
  <2> SUFFICES ASSUME NEW q
               PROVE  InQueue(q)' <=> InQueue(q) /\ q # r
    OBVIOUS
  <2>1. ASSUME InQueue(q)'
        PROVE  InQueue(q) /\ q # r
    <3>1. PICK i \in 1 .. Len(queue') : queue'[i] = q
      BY <2>1 DEF InQueue
    <3>2. PICK j \in 1 .. Len(queue) : j # k /\ queue[j] = q
      BY <3>1, <1>6
    <3> QED
      BY <1>3, <1>4, <1>5, <3>2 DEF InQueue
  <2>2. ASSUME NEW j \in 1 .. Len(queue), queue[j] = q, q # r
        PROVE  InQueue(q)'
    <3>1. j # k
      BY <1>3, <2>2
    <3>2. CASE j < k
      <4>1. j \in 1 .. Len(queue')
        BY <1>4, <3>2
      <4> QED
        BY <1>4, <2>2, <3>2, <4>1 DEF InQueue
    <3>3. CASE j > k
      <4>1. j - 1 \in 1 .. Len(queue') /\ ~ (j - 1 < k) /\ (j - 1) + 1 = j
        BY <1>4, <3>3
      <4> QED
        BY <1>4, <2>2, <4>1 DEF InQueue
    <3> QED
      BY <1>4, <3>1, <3>2, <3>3
  <2> QED
    BY <2>1, <2>2 DEF InQueue
<1>9. InQueue(r)
  BY <1>3, <1>4 DEF InQueue
<1>10. \A q \in Reqs : ContextInv(q)
  BY DEF QueueInv
<1>11. /\ ctx' \in [Reqs -> CtxType] /\ completions' \in [Reqs -> Nat]
       /\ ctx'[r] = NoContext /\ completions'[r] = completions[r] + 1
       /\ \A q \in Reqs : q # r => /\ ctx'[q] = ctx[q]
                                   /\ completions'[q] = completions[q]
  BY <1>1, <1>2, NoContextType
<1>12. completions[r] = 0
  BY <1>1, <1>9, <1>10 DEF ContextInv
<1>13. ASSUME NEW q \in Reqs
       PROVE  ContextInv(q)'
  <2>1. CASE q = r
    BY <2>1, <1>2, <1>8, <1>11, <1>12, NoContextType DEF ContextInv
  <2>2. CASE q # r
    BY <2>2, <1>2, <1>8, <1>10, <1>11 DEF ContextInv
  <2> QED
    BY <2>1, <2>2
<1>14. ~ InQueue(current)' /\ current # NoReq
  <2>1. ~ InQueue(current) /\ queue # <<>>
    BY <1>4 DEF QueueInv
  <2> QED
    BY <1>2, <1>8, <2>1 DEF QueueInv
<1>15. QueueInv'
  BY <1>2, <1>7, <1>13, <1>14 DEF QueueInv
<1> QED
  BY <1>2, <1>4, <1>11, <1>15

(***************************************************************************)
(* The parts of the type invariant                                         *)
(***************************************************************************)

RxType == [base : Reqs \cup {Ring}, cur : Slots, last : Slots,
           first : Slots, count : Nat, size : {BufSize, NewSize}]

StartType == [mode : Modes \cup {NoMode}, needed : 0 .. MaxLen,
              copied : 0 .. Larger(BufSize, NewSize)]

ControlTypeOK ==
  /\ pc \in PCs
  /\ start \in StartType
  /\ totTimer \in Timer
  /\ intTimer \in Timer
  /\ countOnLast \in {"none", "some", "total", "complete", "cancel"}
  /\ quiet \in BOOLEAN
  /\ readByIsr \in BOOLEAN
  /\ readDpc \in BOOLEAN
  /\ errorDpc \in BOOLEAN

LEMMA TypeParts == TypeOK <=> RxTypeOK /\ RequestTypeOK /\ ControlTypeOK
BY DEF TypeOK, RequestTypeOK, ControlTypeOK, CtxType, StartType

LEMMA TypePartsNext ==
  ASSUME RxTypeOK', RequestTypeOK', ControlTypeOK'
  PROVE  TypeOK'
BY DEF TypeOK, RequestTypeOK, ControlTypeOK, CtxType, StartType

\* No characters are copied from the interrupt buffer yet.
LEMMA NoStartFacts ==
  /\ NoStart \in StartType /\ NoStart.copied = 0
<1>1. 0 \in 0 .. MaxLen /\ 0 \in 0 .. Larger(BufSize, NewSize)
  BY SlotFacts DEF Larger
<1> QED
  BY <1>1 DEF NoStart, StartType

\* The ISR is switched back to the interrupt buffer, which is empty.
LEMMA SwitchToRingFacts ==
  ASSUME RxTypeOK, rx.size > 0
  PROVE  /\ SwitchToRing \in RxType
         /\ SwitchToRing.base = Ring /\ SwitchToRing.cur = 0
         /\ SwitchToRing.last = rx.size - 1 /\ SwitchToRing.first = 0
         /\ SwitchToRing.count = 0 /\ SwitchToRing.size = rx.size
<1>1. rx \in RxType
  BY DEF RxTypeOK, RxType
<1>2. rx.size - 1 \in Slots /\ 0 \in Slots
  BY <1>1, SlotFacts DEF RxType
<1> QED
  BY <1>1, <1>2 DEF SwitchToRing, RxType

LEMMA RingEmptied ==
  ASSUME RxTypeOK, rx.size > 0, rx' = SwitchToRing, start'.copied = 0,
         ring' \in [Slots -> Chars], user' \in [Reqs -> [Slots -> Chars]],
         arrived' \in Chars
  PROVE  RxTypeOK' /\ RingInv' /\ rx'.base = Ring /\ rx'.size = rx.size
<1>1. /\ rx' \in RxType /\ rx'.base = Ring /\ rx'.cur = 0
      /\ rx'.last = rx.size - 1 /\ rx'.first = 0
      /\ rx'.count = 0 /\ rx'.size = rx.size
  BY SwitchToRingFacts
<1>2. rx.size \in Nat
  BY SlotFacts DEF RxTypeOK
<1>3. RxTypeOK'
  BY <1>1, <1>2 DEF RxTypeOK, RxType
<1>4. FirstAfter(ReducedCount)' = 0
  BY <1>1, <1>2 DEF FirstAfter, FirstTry, ReducedCount
<1> QED
  BY <1>1, <1>2, <1>3, <1>4 DEF RingInv

(***************************************************************************)
(* SerialTryToCompleteCurrent                                              *)
(***************************************************************************)

\* The context that is left when the references were revoked
LEMMA RevokeFacts ==
  ASSUME NEW d \in CtxType, NEW ref \in RefTypes, NEW int, NEW tot
  PROVE  LET left == WithoutRefs(d, Revoked(d, ref, int, tot)) IN
         /\ left \in CtxType
         /\ left.kind = d.kind /\ left.len = d.len /\ left.info = d.info
         /\ \A t \in RefTypes :
              t \in left.refs <=>
                /\ t \in d.refs /\ t # ref
                /\ ~ (t = "cancel" /\ current \notin asked)
                /\ ~ (t = "interval" /\ int = "armed")
                /\ ~ (t = "total" /\ tot = "armed")
         /\ left.routine <=>
              /\ d.routine /\ ref # "cancel"
              /\ ~ ("cancel" \in d.refs /\ current \notin asked)
<1> DEFINE gone == Revoked(d, ref, int, tot)
<1>1. /\ \A t \in RefTypes :
           t \in gone <=>
             \/ t = ref
             \/ t = "cancel" /\ "cancel" \in d.refs /\ current \notin asked
             \/ t = "interval" /\ int = "armed"
             \/ t = "total" /\ tot = "armed"
      /\ gone \subseteq RefTypes
  BY DEF Revoked, RefTypes
<1> HIDE DEF gone
<1> DEFINE refs == d.refs \ gone
           routine == d.routine /\ "cancel" \notin gone
           left == [d EXCEPT !.refs = refs, !.routine = routine]
<1>2. left = WithoutRefs(d, gone)
  BY DEF WithoutRefs
<1>3. refs \in SUBSET RefTypes /\ routine \in BOOLEAN
  BY DEF CtxType
<1> HIDE DEF refs, routine
<1>4. /\ left \in CtxType /\ left.refs = refs /\ left.routine = routine
      /\ left.kind = d.kind /\ left.len = d.len /\ left.info = d.info
  BY <1>3 DEF CtxType
<1> HIDE DEF left
<1>5. routine <=> /\ d.routine /\ ref # "cancel"
                  /\ ~ ("cancel" \in d.refs /\ current \notin asked)
  <2>1. "cancel" \in RefTypes
    BY DEF RefTypes
  <2>2. \/ "cancel" \notin gone /\ ref # "cancel"
           /\ ~ ("cancel" \in d.refs /\ current \notin asked)
        \/ "cancel" \in gone
           /\ (ref = "cancel" \/ ("cancel" \in d.refs /\ current \notin asked))
    BY <1>1, <2>1
  <2> QED
    BY <2>2 DEF routine
<1>6. \A t \in RefTypes :
        t \in left.refs <=>
          /\ t \in d.refs /\ t # ref
          /\ ~ (t = "cancel" /\ current \notin asked)
          /\ ~ (t = "interval" /\ int = "armed")
          /\ ~ (t = "total" /\ tot = "armed")
  BY <1>1, <1>4 DEF refs
<1> QED
  BY <1>2, <1>4, <1>5, <1>6 DEF gone

\* SerialGrabReadFromIsr
LEMMA GrabFacts ==
  ASSUME RxTypeOK, RingInv, RequestTypeOK, current \in Reqs
  PROVE  LET g == Grabbed(ctx[current])
             d == ctx[current]
         IN
         /\ g \in CtxType
         /\ g.kind = d.kind /\ g.len = d.len /\ g.routine = d.routine
         /\ g.info = IF OwnedByIsr THEN rx.cur ELSE d.info
         /\ \A t : t \in g.refs <=> t \in d.refs /\ ~ (OwnedByIsr /\ t = "isr")
<1> DEFINE d == ctx[current]
<1>1. d \in CtxType
  BY DEF RequestTypeOK
<1>2. CASE OwnedByIsr
  <2>1. rx.last = d.len - 1 /\ rx.cur <= rx.last
    BY <1>2 DEF RingInv, OwnedByIsr, RxTypeOK
  <2>2. rx.cur \in Nat /\ d.len \in 0 .. MaxLen /\ MaxLen \in Nat
    BY <1>1, SlotFacts DEF RxTypeOK, CtxType
  <2>3. /\ d.len - ((rx.last - rx.cur) + 1) = rx.cur
        /\ rx.cur \in 0 .. MaxLen
    BY <2>1, <2>2
  <2> HIDE DEF d
  <2> DEFINE n == rx.cur
             refs == d.refs \ {"isr"}
             g == [d EXCEPT !.info = n, !.refs = refs]
  <2>4. Grabbed(d) = g
    BY <1>2, <2>3 DEF Grabbed
  <2>5. n \in 0 .. MaxLen /\ refs \in SUBSET RefTypes
    BY <1>1, <2>3 DEF CtxType
  <2> HIDE DEF n, refs
  <2>6. /\ g \in CtxType /\ g.refs = refs /\ g.info = n
        /\ g.kind = d.kind /\ g.len = d.len /\ g.routine = d.routine
    BY <1>1, <2>5 DEF CtxType
  <2> HIDE DEF g
  <2> QED
    BY <1>2, <2>4, <2>6 DEF n, refs, d
<1>3. CASE ~ OwnedByIsr
  BY <1>1, <1>3 DEF Grabbed
<1> QED
  BY <1>2, <1>3

\* left is what the call leaves of the context of the current request, which
\* is completed if no reference is left.
LeftByTry(left, synch, status, ref, int, tot, then) ==
  /\ left.kind = ctx[current].kind /\ left.len = ctx[current].len
  /\ left.info = IF synch /\ OwnedByIsr THEN rx.cur ELSE ctx[current].info
  /\ \A t \in RefTypes :
       t \in left.refs <=>
         /\ t \in ctx[current].refs /\ t # ref
         /\ ~ (t = "isr" /\ synch /\ OwnedByIsr)
         /\ ~ (t = "cancel" /\ current \notin asked)
         /\ ~ (t = "interval" /\ int = "armed")
         /\ ~ (t = "total" /\ tot = "armed")
  /\ left.routine <=>
       /\ ctx[current].routine /\ ref # "cancel"
       /\ ~ ("cancel" \in ctx[current].refs /\ current \notin asked)
  /\ \/ /\ left.refs = {}
        /\ \E c \in CtxType :
             /\ c.info = IF status = "cancelled" THEN 0 ELSE left.info
             /\ CompleteAndNext(c, user[current], then)
     \/ /\ left.refs # {}
        /\ ctx' = [ctx EXCEPT ![current] = left]
        /\ pc' = then
        /\ UNCHANGED <<completions, delivered, asked, current, queue, user>>

LEMMA TryFacts ==
  ASSUME RxTypeOK, RingInv, RequestTypeOK, current \in Reqs,
         NEW synch \in BOOLEAN, NEW status, NEW ref \in RefTypes, NEW int,
         NEW tot, NEW then,
         SerialTryToCompleteCurrent(synch, status, ref, int, tot, then)
  PROVE  \E left \in CtxType :
           LeftByTry(left, synch, status, ref, int, tot, then)
<1> DEFINE d == ctx[current]
           g == IF synch THEN Grabbed(d) ELSE d
           left == WithoutRefs(g, Revoked(g, ref, int, tot))
<1>1. /\ g \in CtxType
      /\ g.kind = d.kind /\ g.len = d.len /\ g.routine = d.routine
      /\ g.info = IF synch /\ OwnedByIsr THEN rx.cur ELSE d.info
      /\ \A t : t \in g.refs <=>
                  t \in d.refs /\ ~ (t = "isr" /\ synch /\ OwnedByIsr)
  <2>1. d \in CtxType
    BY DEF RequestTypeOK
  <2> QED
    BY <2>1, GrabFacts
<1>2. IF left.refs = {}
        THEN CompleteAndNext(IF status = "cancelled"
                               THEN [left EXCEPT !.info = 0] ELSE left,
                             user[current], then)
        ELSE /\ ctx' = [ctx EXCEPT ![current] = left]
             /\ pc' = then
             /\ UNCHANGED <<completions, delivered, asked, current, queue,
                            user>>
  BY Zenon DEF SerialTryToCompleteCurrent
<1> HIDE DEF d, g
<1>3. /\ left \in CtxType
      /\ left.kind = g.kind /\ left.len = g.len /\ left.info = g.info
      /\ \A t \in RefTypes :
           t \in left.refs <=>
             /\ t \in g.refs /\ t # ref
             /\ ~ (t = "cancel" /\ current \notin asked)
             /\ ~ (t = "interval" /\ int = "armed")
             /\ ~ (t = "total" /\ tot = "armed")
      /\ left.routine <=>
           /\ g.routine /\ ref # "cancel"
           /\ ~ ("cancel" \in g.refs /\ current \notin asked)
  BY <1>1, RevokeFacts
<1> HIDE DEF left
<1>4. \/ /\ left.refs = {}
         /\ \E c \in CtxType :
              /\ c.info = IF status = "cancelled" THEN 0 ELSE left.info
              /\ CompleteAndNext(c, user[current], then)
      \/ /\ left.refs # {}
         /\ ctx' = [ctx EXCEPT ![current] = left]
         /\ pc' = then
         /\ UNCHANGED <<completions, delivered, asked, current, queue, user>>
  <2>1. CASE left.refs = {} /\ status = "cancelled"
    <3>1. 0 \in 0 .. MaxLen
      BY SlotFacts
    <3>2. [left EXCEPT !.info = 0] \in CtxType
          /\ [left EXCEPT !.info = 0].info = 0
      BY <1>3, <3>1 DEF CtxType
    <3>3. CompleteAndNext([left EXCEPT !.info = 0], user[current], then)
      BY <1>2, <2>1
    <3> QED
      BY <2>1, <3>2, <3>3
  <2>2. CASE left.refs = {} /\ status # "cancelled"
    <3>1. CompleteAndNext(left, user[current], then)
      BY <1>2, <2>2
    <3> QED
      BY <1>3, <2>2, <3>1
  <2>3. CASE left.refs # {}
    BY <1>2, <2>3
  <2> QED
    BY <2>1, <2>2, <2>3
<1>5. left.info = IF synch /\ OwnedByIsr THEN rx.cur ELSE d.info
  BY <1>1, <1>3
<1>6. \A t \in RefTypes :
        t \in left.refs <=>
          /\ t \in d.refs /\ t # ref
          /\ ~ (t = "isr" /\ synch /\ OwnedByIsr)
          /\ ~ (t = "cancel" /\ current \notin asked)
          /\ ~ (t = "interval" /\ int = "armed")
          /\ ~ (t = "total" /\ tot = "armed")
  BY <1>1, <1>3
<1>7. left.routine <=>
        /\ d.routine /\ ref # "cancel"
        /\ ~ ("cancel" \in d.refs /\ current \notin asked)
  BY <1>1, <1>3
<1>8. left.kind = d.kind /\ left.len = d.len
  BY <1>1, <1>3
<1> QED
  BY <1>3, <1>4, <1>5, <1>6, <1>7, <1>8 DEF d, LeftByTry

\* Whoever runs SerialTryToCompleteCurrent, with the request taken back from
\* the ISR unless the ISR is done with it, keeps the invariant.  A timer that
\* calls it is idle from then on; any other party finds both as they are.
LEMMA TryStep ==
  ASSUME Inv, current \in Reqs, ~ Starting,
         NEW synch \in BOOLEAN, NEW status, NEW ref \in RefTypes, NEW int,
         NEW tot, NEW then \in {"free", "clear"},
         SerialTryToCompleteCurrent(synch, status, ref, int, tot, then),
         int = IF ref = "interval" THEN "idle" ELSE intTimer,
         tot = IF ref = "total" THEN "idle" ELSE totTimer,
         pc = "expire" => ref = "interval",
         synch <=> ref # "isr",
         ref = "isr" => ~ OwnedByIsr /\ readDpc' = FALSE,
         ref # "isr" => readDpc' = readDpc,
         countOnLast' \in {"none", "some", "total", "complete", "cancel"},
         readByIsr' \in BOOLEAN, errorDpc' \in BOOLEAN, start' = start
  PROVE  Inv'
<1>1. /\ RxTypeOK /\ RequestTypeOK /\ ControlTypeOK /\ QueueInv /\ RingInv
      /\ asked \subseteq {current} /\ cancelable \subseteq {current}
  BY TypeParts DEF Inv, RequestInv
<1>2. start.copied = 0
  BY DEF Inv, StartInv, Starting
<1>3. /\ current # NoReq /\ Ring \notin Reqs /\ NoReq \notin Reqs
      /\ ctx[current] \in CtxType /\ ctx[current].kind = "read"
  BY <1>1, RxAssumption DEF Inv, StartInv, RequestTypeOK
<1>4. /\ ctx[current].refs = Users
      /\ ctx[current].routine = (current \in cancelable)
  BY <1>3 DEF Inv, RefCountTrue, Starting
<1>5. /\ rx' = IF synch /\ OwnedByIsr THEN SwitchToRing ELSE rx
      /\ intTimer' = Stopped(int) /\ totTimer' = Stopped(tot)
      /\ cancelable' = IF ref = "cancel" \/ current \notin asked
                         THEN cancelable \ {current} ELSE cancelable
      /\ quiet' = (quiet /\ intTimer' # "idle")
      /\ UNCHANGED <<ring, arrived>>
  BY Zenon DEF SerialTryToCompleteCurrent
<1>6. PICK left \in CtxType :
        LeftByTry(left, synch, status, ref, int, tot, then)
  <2> HIDE DEF Inv
  <2> QED
    BY <1>1, TryFacts
<1>7. /\ left.kind = ctx[current].kind /\ left.len = ctx[current].len
      /\ left.info = IF synch /\ OwnedByIsr THEN rx.cur
                                            ELSE ctx[current].info
      /\ \A t \in RefTypes :
           t \in left.refs <=>
             /\ t \in ctx[current].refs /\ t # ref
             /\ ~ (t = "isr" /\ synch /\ OwnedByIsr)
             /\ ~ (t = "cancel" /\ current \notin asked)
             /\ ~ (t = "interval" /\ int = "armed")
             /\ ~ (t = "total" /\ tot = "armed")
      /\ left.routine <=>
           /\ ctx[current].routine /\ ref # "cancel"
           /\ ~ ("cancel" \in ctx[current].refs /\ current \notin asked)
      /\ \/ /\ left.refs = {}
            /\ \E c \in CtxType : CompleteAndNext(c, user[current], then)
         \/ /\ left.refs # {}
            /\ ctx' = [ctx EXCEPT ![current] = left]
            /\ pc' = then
            /\ UNCHANGED <<completions, delivered, asked, current, queue,
                           user>>
  BY <1>6, Zenon DEF LeftByTry
<1> DEFINE users == ctx[current].refs
<1>8. /\ "isr" \in users <=> rx.base = current \/ readDpc
      /\ "cancel" \in users <=> current \in cancelable
      /\ "total" \in users <=> totTimer # "idle"
      /\ "interval" \in users <=> intTimer # "idle" \/ pc = "expire"
  BY <1>4 DEF Users
<1>9. /\ intTimer \in Timer /\ totTimer \in Timer
      /\ pc = "expire" => intTimer = "idle"
  BY <1>1 DEF ControlTypeOK, Inv, StartInv
<1> HIDE DEF users
<1>10. "isr" \in left.refs <=> rx'.base = current \/ readDpc'
  <2>1. "isr" \in RefTypes
    BY DEF RefTypes
  <2>2. "isr" \in left.refs <=>
          "isr" \in users /\ ref # "isr" /\ ~ (synch /\ OwnedByIsr)
    BY <1>7, <2>1 DEF users
  <2>3. /\ OwnedByIsr => rx.base = current /\ ~ readDpc
        /\ ~ OwnedByIsr => rx.base # current
    BY <1>1, <1>3 DEF RingInv, OwnedByIsr
  <2>4. synch /\ OwnedByIsr => rx'.base # current
    BY <1>1, <1>3, <1>5, SwitchToRingFacts DEF RingInv
  <2>5. ~ (synch /\ OwnedByIsr) => rx' = rx
    BY <1>5
  <2> QED
    BY <2>2, <2>3, <2>4, <2>5, <1>8
<1>11. "cancel" \in left.refs <=> current \in cancelable'
  <2>1. "cancel" \in RefTypes
    BY DEF RefTypes
  <2>2. "cancel" \in left.refs <=>
          "cancel" \in users /\ ref # "cancel" /\ ~ (current \notin asked)
    BY <1>7, <2>1 DEF users
  <2> QED
    BY <2>2, <1>5, <1>8
<1>12. "total" \in left.refs <=> totTimer' # "idle"
  <2>1. "total" \in RefTypes
    BY DEF RefTypes
  <2>2. "total" \in left.refs <=>
          "total" \in users /\ ref # "total" /\ ~ (tot = "armed")
    BY <1>7, <2>1 DEF users
  <2> QED
    BY <2>2, <1>5, <1>8, <1>9 DEF Stopped, Timer
<1>13. "interval" \in left.refs <=> intTimer' # "idle"
  <2>1. "interval" \in RefTypes
    BY DEF RefTypes
  <2>2. "interval" \in left.refs <=>
          "interval" \in users /\ ref # "interval" /\ ~ (int = "armed")
    BY <1>7, <2>1 DEF users
  <2> QED
    BY <2>2, <1>5, <1>8, <1>9 DEF Stopped, Timer
<1>14. left.routine = (current \in cancelable')
  <2>1. left.routine <=> current \in cancelable'
    BY <1>4, <1>5, <1>7, <1>8 DEF users
  <2>2. left.routine \in BOOLEAN
    BY DEF CtxType
  <2> QED
    BY <2>1, <2>2
<1>15. /\ totTimer' \in Timer /\ intTimer' \in Timer /\ quiet' \in BOOLEAN
       /\ cancelable' \subseteq cancelable
  BY <1>1, <1>5, <1>9 DEF Stopped, Timer, ControlTypeOK
<1>16. ASSUME user' \in [Reqs -> [Slots -> Chars]],
              OwnedByIsr /\ ~ synch => FALSE
       PROVE  /\ RxTypeOK' /\ RingInv' /\ rx'.base = Ring
  <2>1. CASE synch /\ OwnedByIsr
    <3>1. rx' = SwitchToRing /\ rx.size > 0
      BY <1>1, <1>5, <2>1 DEF RingInv
    <3>2. ring' \in [Slots -> Chars] /\ arrived' \in Chars
      BY <1>1, <1>5 DEF RxTypeOK
    <3> QED
      BY <1>1, <1>2, <1>16, <3>1, <3>2, RingEmptied
  <2>2. CASE ~ (synch /\ OwnedByIsr)
    <3>1. rx' = rx /\ rx.base = Ring
      BY <1>5, <1>16, <2>2 DEF OwnedByIsr
    <3>2. RxTypeOK'
      BY <1>1, <1>5, <1>16, <3>1 DEF RxTypeOK
    <3>3. RingInv'
      BY <1>1, <3>1 DEF RingInv, ReducedCount, FirstAfter, FirstTry
    <3> QED
      BY <3>1, <3>2, <3>3
  <2> QED
    BY <2>1, <2>2
<1>17. CASE left.refs = {}
  <2>1. PICK c \in CtxType : CompleteAndNext(c, user[current], then)
    BY <1>7, <1>17
  <2>2. user[current] \in [Slots -> Chars]
        /\ user \in [Reqs -> [Slots -> Chars]]
    BY <1>1 DEF RxTypeOK
  <2>3. /\ ctx' \in [Reqs -> CtxType] /\ completions' \in [Reqs -> Nat]
        /\ user' \in [Reqs -> [Slots -> Chars]]
        /\ delivered' \in Seq(Chars) /\ queue' \in Seq(Reqs)
        /\ current' \in Reqs \cup {NoReq} /\ asked' = {}
        /\ QueueInv'
        /\ NextIsFresh(then)
    <3> HIDE DEF Inv
    <3> QED
      BY <1>1, <2>1, <2>2, CompleteFacts
  <2>4. /\ totTimer' = "idle" /\ intTimer' = "idle"
        /\ current \notin cancelable' /\ ~ readDpc' /\ rx'.base # current
    BY <1>10, <1>11, <1>12, <1>13, <1>17
  <2>5. cancelable' = {}
    BY <1>1, <1>15, <2>4
  <2>6. RxTypeOK' /\ RingInv' /\ rx'.base = Ring
    <3>1. OwnedByIsr /\ ~ synch => FALSE
      OBVIOUS
    <3> QED
      BY <1>16, <2>3, <3>1
  <2>7. pc' \in PCs /\ pc' # "update" /\ pc' # "switch" /\ pc' # "resize"
        /\ pc' # "arm" /\ pc' # "expire"
        /\ (current' # NoReq => pc' = "start" /\ current' \in Reqs
              /\ ctx'[current'].info = 0 /\ ctx'[current'].refs = {})
        /\ (pc' = "start" => current' # NoReq)
    BY <1>3, <2>3 DEF NextIsFresh, PCs
  <2>8. TypeOK'
    <3>1. RequestTypeOK'
      BY <2>3, <2>5 DEF RequestTypeOK
    <3>2. ControlTypeOK'
      BY <1>1, <1>15, <2>4, <2>7 DEF ControlTypeOK
    <3> QED
      BY <2>6, <3>1, <3>2, TypePartsNext
  <2>9. RequestInv'
    BY <2>3, <2>5 DEF RequestInv
  <2>10. RefCountTrue'
    BY <2>4, <2>5, <2>6, <2>7 DEF RefCountTrue, OwnedByIsr
  <2>11. StartInv'
    <3>1. current' # NoReq => ctx'[current'].info <= ctx'[current'].len
      <4>1. current' # NoReq => ctx'[current'] \in CtxType
        BY <2>3
      <4> QED
        BY <4>1, <2>7, SlotFacts DEF CtxType
    <3> QED
      BY <1>2, <2>7, <3>1 DEF StartInv, Starting
  <2> QED
    BY <2>6, <2>8, <2>9, <2>10, <2>11 DEF Inv
<1>18. CASE left.refs # {}
  <2>1. /\ ctx' = [ctx EXCEPT ![current] = left]
        /\ pc' = then
        /\ UNCHANGED <<completions, delivered, asked, current, queue, user>>
    BY <1>7, <1>18
  <2>2. ctx' \in [Reqs -> CtxType] /\ ctx'[current] = left /\ QueueInv'
    <3> HIDE DEF Inv
    <3>1. /\ ctx' \in [Reqs -> CtxType] /\ ctx'[current] = left
          /\ \A r \in Reqs : r # current => ctx'[r] = ctx[r]
      BY <1>1, <2>1 DEF RequestTypeOK
    <3>2. QueueInv'
      BY <1>1, <1>7, <2>1, <3>1, CurrentGoesOn
    <3> QED
      BY <3>1, <3>2
  <2>3. user' \in [Reqs -> [Slots -> Chars]]
    BY <1>1, <2>1 DEF RxTypeOK
  <2>4. RxTypeOK' /\ RingInv' /\ rx'.base = Ring
    BY <1>16, <2>3
  <2>5. TypeOK'
    <3>1. RequestTypeOK'
      BY <1>1, <1>15, <2>1, <2>2 DEF RequestTypeOK
    <3>2. ControlTypeOK'
      BY <1>1, <1>15, <2>1 DEF ControlTypeOK, PCs
    <3> QED
      BY <2>4, <3>1, <3>2, TypePartsNext
  <2>6. RequestInv'
    BY <1>1, <1>15, <2>1, <2>2 DEF RequestInv
  <2>7. RefCountTrue'
    <3>1. Users' \subseteq RefTypes /\ left.refs \subseteq RefTypes
      BY DEF Users, RefTypes, CtxType
    <3>2. \A t \in RefTypes : t \in left.refs <=> t \in Users'
      BY <1>10, <1>11, <1>12, <1>13, <2>1 DEF Users, RefTypes
    <3>3. left.refs = Users'
      BY <3>1, <3>2
    <3> QED
      BY <1>3, <1>14, <1>18, <2>1, <2>2, <3>3 DEF RefCountTrue
  <2>8. StartInv'
    <3>1. left.info <= left.len
      <4>1. CASE synch /\ OwnedByIsr
        <5>1. /\ rx.cur <= rx.last /\ rx.last = ctx[current].len - 1
              /\ rx.cur \in Nat /\ ctx[current].len \in Nat
          BY <1>1, <1>3, <4>1, SlotFacts
            DEF RxTypeOK, RingInv, OwnedByIsr, CtxType
        <5> QED
          BY <1>7, <4>1, <5>1
      <4>2. CASE ~ (synch /\ OwnedByIsr)
        <5>1. ~ OwnedByIsr
          BY <4>2
        <5>2. ctx[current].info <= ctx[current].len
          BY <1>3, <5>1 DEF Inv, StartInv
        <5> QED
          BY <1>7, <4>2, <5>2
      <4> QED
        BY <4>1, <4>2
    <3> QED
      BY <1>2, <1>3, <1>7, <2>1, <2>2, <3>1 DEF StartInv, Starting
  <2> QED
    BY <2>4, <2>5, <2>6, <2>7, <2>8 DEF Inv
<1> QED
  BY <1>17, <1>18

(***************************************************************************)
(* Callbacks that try to complete the current request                      *)
(***************************************************************************)

\* Timers, cancel routines and the DPC of the ISR are those of a current
\* request that has been started.
LEMMA BusyFacts ==
  ASSUME Inv
  PROVE  /\ \/ totTimer # "idle" \/ intTimer # "idle" \/ cancelable # {}
            \/ (readDpc /\ pc # "arm") \/ pc = "expire"
            => current \in Reqs /\ ~ Starting
         /\ pc \in {"start", "update", "switch", "resize"} =>
              /\ totTimer = "idle" /\ intTimer = "idle" /\ cancelable = {}
              /\ rx.base = Ring /\ ~ readDpc
              /\ current \in Reqs /\ ctx[current] \in CtxType
         /\ RxTypeOK /\ RequestTypeOK /\ ControlTypeOK /\ QueueInv
         /\ asked \subseteq {current} /\ cancelable \subseteq {current}
<1>1. /\ RxTypeOK /\ RequestTypeOK /\ ControlTypeOK /\ QueueInv
      /\ asked \subseteq {current} /\ cancelable \subseteq {current}
  BY TypeParts DEF Inv, RequestInv
<1>2. current \in Reqs \cup {NoReq} /\ ctx \in [Reqs -> CtxType]
  BY <1>1 DEF RequestTypeOK
<1>3. RefCountTrue /\ StartInv
  BY DEF Inv
<1>4. ASSUME \/ totTimer # "idle" \/ intTimer # "idle" \/ cancelable # {}
             \/ (readDpc /\ pc # "arm") \/ pc = "expire"
      PROVE  current \in Reqs /\ ~ Starting
  BY <1>2, <1>3, <1>4 DEF RefCountTrue, Starting, StartInv
<1>5. ASSUME pc \in {"start", "update", "switch", "resize"}
      PROVE  /\ totTimer = "idle" /\ intTimer = "idle" /\ cancelable = {}
             /\ rx.base = Ring /\ ~ readDpc
             /\ current \in Reqs /\ ctx[current] \in CtxType
  BY <1>2, <1>3, <1>5 DEF RefCountTrue, StartInv, Starting, OwnedByIsr
<1> QED
  BY <1>1, <1>4, <1>5

\* SerialCompleteRead
LEMMA DpcStep ==
  ASSUME Inv, CompleteReadDpc
  PROVE  Inv'
<1>1. /\ pc = "free" /\ readDpc /\ readDpc' = FALSE
      /\ countOnLast' = "complete"
      /\ SerialTryToCompleteCurrent(FALSE, "success", "isr", intTimer,
                                    totTimer, "free")
      /\ start' = start /\ readByIsr' = readByIsr /\ errorDpc' = errorDpc
  BY Zenon DEF CompleteReadDpc
<1>2. /\ current \in Reqs /\ ~ Starting /\ ControlTypeOK
  BY <1>1, BusyFacts
<1>3. ~ OwnedByIsr
  BY <1>1 DEF Inv, RingInv, OwnedByIsr
<1>4. "isr" \in RefTypes /\ readByIsr' \in BOOLEAN /\ errorDpc' \in BOOLEAN
  BY <1>1, <1>2 DEF RefTypes, ControlTypeOK
<1> QED
  BY <1>1, <1>2, <1>3, <1>4, TryStep

\* SerialReadTimeout
LEMMA TotalStep ==
  ASSUME Inv, SerialReadTimeout
  PROVE  Inv'
<1>1. /\ pc = "free" /\ totTimer = "expired" /\ countOnLast' = "total"
      /\ SerialTryToCompleteCurrent(TRUE, "timeout", "total", intTimer,
                                    "idle", "free")
      /\ start' = start /\ readByIsr' = readByIsr /\ readDpc' = readDpc
      /\ errorDpc' = errorDpc
  BY Zenon DEF SerialReadTimeout, dpcVars
<1>2. /\ current \in Reqs /\ ~ Starting /\ ControlTypeOK
  BY <1>1, BusyFacts
<1>3. "total" \in RefTypes /\ readByIsr' \in BOOLEAN /\ errorDpc' \in BOOLEAN
  BY <1>1, <1>2 DEF RefTypes, ControlTypeOK
<1> QED
  BY <1>1, <1>2, <1>3, TryStep

\* SerialIntervalReadTimeout, when another party left the read to it
LEMMA IntervalLastStep ==
  ASSUME Inv, IntervalLast
  PROVE  Inv'
<1>1. /\ pc = "free" /\ intTimer = "expired"
      /\ \E status :
           SerialTryToCompleteCurrent(TRUE, status, "interval", "idle",
                                      totTimer, "free")
      /\ start' = start /\ UNCHANGED <<readByIsr, countOnLast>>
      /\ readDpc' = readDpc /\ errorDpc' = errorDpc
  BY Zenon DEF IntervalLast, dpcVars, countVars
<1>2. /\ current \in Reqs /\ ~ Starting /\ ControlTypeOK
  BY <1>1, BusyFacts
<1>3. /\ "interval" \in RefTypes
      /\ readByIsr' \in BOOLEAN /\ errorDpc' \in BOOLEAN
      /\ countOnLast' \in {"none", "some", "total", "complete", "cancel"}
  BY <1>1, <1>2 DEF RefTypes, ControlTypeOK
<1> QED
  BY <1>1, <1>2, <1>3, TryStep

\* SerialIntervalReadTimeout, when the interval is over
LEMMA IntervalTimeoutStep ==
  ASSUME Inv, IntervalTimeout
  PROVE  Inv'
<1>1. /\ pc = "expire"
      /\ SerialTryToCompleteCurrent(TRUE, "timeout", "interval", "idle",
                                    totTimer, "free")
      /\ start' = start /\ UNCHANGED <<readByIsr, countOnLast>>
      /\ readDpc' = readDpc /\ errorDpc' = errorDpc
  BY Zenon DEF IntervalTimeout, dpcVars, countVars
<1>2. /\ current \in Reqs /\ ~ Starting /\ ControlTypeOK
  BY <1>1, BusyFacts
<1>3. /\ "interval" \in RefTypes
      /\ readByIsr' \in BOOLEAN /\ errorDpc' \in BOOLEAN
      /\ countOnLast' \in {"none", "some", "total", "complete", "cancel"}
  BY <1>1, <1>2 DEF RefTypes, ControlTypeOK
<1> QED
  BY <1>1, <1>2, <1>3, TryStep

\* SerialCancelCurrentRead, for the framework or for a purge
LEMMA CancelCurrentStep ==
  ASSUME Inv, current \in Reqs, ~ Starting, pc # "expire",
         NEW then \in {"free", "clear"}, SerialCancelCurrentRead(then)
  PROVE  Inv'
<1>1. /\ countOnLast' = "cancel"
      /\ SerialTryToCompleteCurrent(TRUE, "cancelled", "cancel", intTimer,
                                    totTimer, then)
      /\ start' = start /\ readByIsr' = readByIsr
      /\ readDpc' = readDpc /\ errorDpc' = errorDpc
  BY Zenon DEF SerialCancelCurrentRead, dpcVars
<1>2. ControlTypeOK
  BY TypeParts DEF Inv
<1>3. "cancel" \in RefTypes /\ readByIsr' \in BOOLEAN /\ errorDpc' \in BOOLEAN
  BY <1>1, <1>2 DEF RefTypes, ControlTypeOK
<1> QED
  BY <1>1, <1>3, TryStep

LEMMA CancelRoutineStep ==
  ASSUME Inv, NEW r \in Reqs, CancelRoutine(r)
  PROVE  Inv'
<1>1. pc = "free" /\ r \in cancelable /\ SerialCancelCurrentRead("free")
  BY DEF CancelRoutine
<1>2. current \in Reqs /\ ~ Starting
  BY <1>1, BusyFacts
<1> QED
  BY <1>1, <1>2, CancelCurrentStep

(***************************************************************************)
(* SerialStartRead and SerialResizeBuffer                                  *)
(***************************************************************************)

\* When a request is completed at once, the next one starts afresh.
LEMMA CompletedStep ==
  ASSUME Inv, pc \in {"start", "update", "switch", "resize"},
         NEW c \in CtxType, NEW slots \in [Slots -> Chars],
         CompleteAndNext(c, slots, "free"),
         rx' \in RxType, rx'.base = Ring, rx'.count <= rx'.size,
         rx'.cur <= rx'.last, RingInv', ring' \in [Slots -> Chars],
         start' \in StartType, start'.copied = 0,
         countOnLast' \in {"none", "some", "total", "complete", "cancel"},
         readByIsr' \in BOOLEAN,
         UNCHANGED <<arrived, cancelable, timerVars, dpcVars>>
  PROVE  Inv'
<1>1. /\ totTimer = "idle" /\ intTimer = "idle" /\ cancelable = {}
      /\ rx.base = Ring /\ ~ readDpc /\ current \in Reqs
      /\ RxTypeOK /\ RequestTypeOK /\ ControlTypeOK /\ QueueInv
      /\ asked \subseteq {current}
  BY BusyFacts
<1>2. /\ totTimer' = "idle" /\ intTimer' = "idle" /\ cancelable' = {}
      /\ readDpc' = readDpc /\ errorDpc' = errorDpc /\ quiet' = quiet
      /\ arrived' = arrived
  BY <1>1 DEF timerVars, dpcVars
<1>3. user \in [Reqs -> [Slots -> Chars]] /\ NoReq \notin Reqs
  BY <1>1, RxAssumption DEF RxTypeOK
<1>4. /\ ctx' \in [Reqs -> CtxType] /\ completions' \in [Reqs -> Nat]
      /\ user' \in [Reqs -> [Slots -> Chars]]
      /\ delivered' \in Seq(Chars) /\ queue' \in Seq(Reqs)
      /\ current' \in Reqs \cup {NoReq} /\ asked' = {}
      /\ QueueInv' /\ NextIsFresh("free")
  <2> HIDE DEF Inv
  <2> QED
    BY <1>1, <1>3, CompleteFacts
<1>5. /\ pc' \in {"free", "start"}
      /\ pc' = "start" <=> current' # NoReq
      /\ pc' = "start" => current' \in Reqs
           /\ ctx'[current'].info = 0 /\ ctx'[current'].refs = {}
  BY <1>3, <1>4 DEF NextIsFresh
<1>6. RxTypeOK'
  BY <1>1, <1>2, <1>4 DEF RxTypeOK, RxType
<1>7. RequestTypeOK'
  BY <1>2, <1>4 DEF RequestTypeOK
<1>8. ControlTypeOK'
  BY <1>1, <1>2, <1>5 DEF ControlTypeOK, PCs, Timer
<1>9. TypeOK'
  BY <1>6, <1>7, <1>8, TypePartsNext
<1>10. RequestInv'
  BY <1>2, <1>4 DEF RequestInv
<1>11. StartInv'
  <2>1. pc' = "start" => ctx'[current'].info <= ctx'[current'].len
    <3>1. pc' = "start" => ctx'[current'] \in CtxType
      BY <1>4, <1>5
    <3> QED
      BY <3>1, <1>5, SlotFacts DEF CtxType
  <2> QED
    BY <1>5, <2>1 DEF StartInv, Starting
<1>12. RefCountTrue'
  BY <1>1, <1>2, <1>5 DEF RefCountTrue, OwnedByIsr
<1> QED
  BY <1>9, <1>10, <1>11, <1>12 DEF Inv

\* While a request is started, the slots of the ring
LEMMA RingFacts ==
  ASSUME Inv, rx.base = Ring
  PROVE  /\ rx \in RxType
         /\ rx.first \in Nat /\ rx.last \in Nat /\ rx.first <= rx.last
         /\ rx.cur \in Nat /\ rx.cur <= rx.last
         /\ rx.count \in 0 .. rx.last + 1 /\ rx.size = rx.last + 1
         /\ start.copied \in Nat /\ start.copied <= rx.count
         /\ rx.cur = FirstAfter(ReducedCount)
         /\ ReducedCount \in 0 .. rx.count
         /\ rx.count \in 0 .. Larger(BufSize, NewSize)
<1>1. RxTypeOK /\ RingInv /\ start \in StartType
  BY TypeParts DEF Inv, ControlTypeOK
<1>2. rx \in RxType /\ rx.count <= rx.size /\ rx.cur <= rx.last
  BY <1>1 DEF RxTypeOK, RxType
<1>3. /\ rx.first \in Nat /\ rx.last \in Nat /\ rx.cur \in Nat
      /\ rx.count \in Nat /\ rx.size \in {BufSize, NewSize}
      /\ BufSize \in Nat /\ NewSize \in Nat
  BY <1>2, SlotFacts DEF RxType
<1>4. /\ rx.last = rx.size - 1 /\ rx.first <= rx.last
      /\ rx.cur = FirstAfter(ReducedCount) /\ start.copied <= rx.count
  BY <1>1 DEF RingInv
<1>5. start.copied \in Nat
  BY <1>1, <1>3 DEF StartType, Larger
<1>6. rx.size <= Larger(BufSize, NewSize) /\ Larger(BufSize, NewSize) \in Nat
  BY <1>3 DEF Larger
<1> QED
  BY <1>2, <1>3, <1>4, <1>5, <1>6 DEF ReducedCount

LEMMA StartUpdateStep ==
  ASSUME Inv, StartUpdate
  PROVE  Inv'
<1>1. /\ pc = "update"
      /\ rx' = [rx EXCEPT !.count = ReducedCount]
      /\ CompleteAndNext(ctx[current], user[current], "free")
      /\ start' = NoStart
      /\ UNCHANGED <<ring, arrived, cancelable, timerVars, countVars, dpcVars>>
  BY DEF StartUpdate
<1>2. /\ rx.base = Ring /\ current \in Reqs /\ ctx[current] \in CtxType
      /\ RxTypeOK /\ ControlTypeOK
  BY <1>1, BusyFacts
<1>3. /\ rx \in RxType /\ rx.count \in 0 .. rx.last + 1
      /\ rx.last \in Nat /\ rx.cur \in Nat /\ rx.cur <= rx.last
      /\ rx.size = rx.last + 1 /\ rx.first <= rx.last
      /\ ReducedCount \in 0 .. rx.count
      /\ rx.cur = FirstAfter(ReducedCount)
  BY <1>2, RingFacts
<1> DEFINE k == ReducedCount
<1>4. k \in Nat /\ k <= rx.count
  BY <1>3
<1> HIDE DEF k
<1>5. /\ rx' \in RxType /\ rx'.base = Ring /\ rx'.cur = rx.cur
      /\ rx'.last = rx.last /\ rx'.first = rx.first
      /\ rx'.count = k /\ rx'.size = rx.size
  BY <1>1, <1>2, <1>3, <1>4 DEF RxType, k
<1>6. start' \in StartType /\ start'.copied = 0
  BY <1>1, NoStartFacts
<1>7. ReducedCount' = k
  BY <1>4, <1>5, <1>6 DEF ReducedCount
<1>8. FirstAfter(ReducedCount)' = FirstAfter(ReducedCount)
  BY <1>5, <1>7 DEF FirstAfter, FirstTry, k
<1>9. RingInv'
  BY <1>3, <1>4, <1>5, <1>6, <1>8 DEF RingInv
<1>10. /\ countOnLast' \in {"none", "some", "total", "complete", "cancel"}
       /\ readByIsr' \in BOOLEAN
       /\ UNCHANGED <<arrived, cancelable, timerVars, dpcVars>>
       /\ ring' \in [Slots -> Chars] /\ user[current] \in [Slots -> Chars]
  BY <1>1, <1>2 DEF ControlTypeOK, countVars, RxTypeOK
<1>11. rx'.count <= rx'.size /\ rx'.cur <= rx'.last
  BY <1>3, <1>4, <1>5
<1>12. pc \in {"start", "update", "switch", "resize"}
  BY <1>1
<1> HIDE DEF Inv
<1> QED
  BY <1>1, <1>2, <1>5, <1>6, <1>9, <1>10, <1>11, <1>12, CompletedStep

\* Taking n characters moves the first readable one, not the current slot.
LEMMA TakeFacts ==
  ASSUME RxTypeOK, rx.base = Ring, rx.first <= rx.last, rx.size = rx.last + 1,
         start.copied \in Nat, start.copied <= rx.count,
         rx.cur = FirstAfter(ReducedCount),
         NEW n \in 0 .. ReducedCount, NEW k,
         rx' = [rx EXCEPT !.first = FirstAfter(n), !.count = k],
         k \in Nat, k <= rx.count, k - start'.copied = ReducedCount - n
  PROVE  /\ rx' \in RxType /\ rx'.base = Ring /\ rx'.cur = rx.cur
         /\ rx'.last = rx.last /\ rx'.size = rx.size /\ rx'.count = k
         /\ rx'.first <= rx'.last /\ rx'.count <= rx'.size
         /\ rx'.cur <= rx'.last
         /\ rx'.cur = FirstAfter(ReducedCount)'
<1>1. /\ rx \in RxType /\ rx.cur <= rx.last /\ rx.count <= rx.size
      /\ rx.count \in Nat
  BY DEF RxTypeOK, RxType
<1>2. /\ rx.first \in Nat /\ rx.last \in Nat /\ rx.cur \in Nat
  BY <1>1, SlotFacts DEF RxType
<1> DEFINE m == ReducedCount
           f == FirstAfter(n)
<1>3. m \in Nat /\ m <= rx.last + 1 /\ n \in Nat /\ n <= m
  BY <1>1, <1>2 DEF ReducedCount
<1>4. f \in 0 .. rx.last
  BY <1>2, <1>3, FirstAfterBound
<1>5. f \in Slots
  BY <1>1, <1>4, SlotFacts DEF RxType
<1>6. rx' = [rx EXCEPT !.first = f, !.count = k]
  OBVIOUS
<1> HIDE DEF f
<1>7. /\ rx' \in RxType /\ rx'.base = Ring /\ rx'.cur = rx.cur
      /\ rx'.last = rx.last /\ rx'.first = f
      /\ rx'.count = k /\ rx'.size = rx.size
  BY <1>1, <1>5, <1>6 DEF RxType
<1>8. PICK j \in Nat : j = m - n
  BY <1>3
<1>9. n + j = m
  BY <1>3, <1>8
<1>10. ReducedCount' = j
  BY <1>7, <1>8 DEF ReducedCount
<1> HIDE DEF m
<1>11. FirstAfter(j)' = FirstAfter(n + j)
  <2>1. n + j <= rx.last + 1 /\ rx.last' = rx.last /\ rx.first' = FirstAfter(n)
    BY <1>3, <1>7, <1>9 DEF f
  <2> QED
    BY <1>2, <1>3, <2>1, FirstAfterTwice
<1>12. FirstAfter(ReducedCount)' = FirstAfter(j)'
  BY <1>10 DEF FirstAfter, FirstTry
<1>13. FirstAfter(n + j) = rx.cur
  BY <1>9 DEF m
<1>14. f <= rx.last
  BY <1>4
<1> QED
  BY <1>1, <1>2, <1>7, <1>11, <1>12, <1>13, <1>14

\* The modes that SerialStartRead computes
LEMMA ModeFacts ==
  \A m \in Modes \cup {NoMode} : m \in ModeType /\ (m.one => m.some)
<1>1. \A m \in Modes : m \in ModeType /\ (m.one => m.some)
  BY SerialAssumption DEF ModeAllowed
<1>2. NoMode \in ModeType /\ ~ NoMode.one
  BY DEF NoMode, ModeType
<1> QED
  BY <1>1, <1>2

LEMMA StartCopyStep ==
  ASSUME Inv, StartCopy
  PROVE  Inv'
<1>1. pc = "start" /\ ctx[current].kind = "read"
  BY DEF StartCopy
<1>2. /\ totTimer = "idle" /\ intTimer = "idle" /\ cancelable = {}
      /\ rx.base = Ring /\ ~ readDpc /\ current \in Reqs
      /\ ctx[current] \in CtxType
      /\ RxTypeOK /\ RequestTypeOK /\ ControlTypeOK /\ QueueInv
      /\ asked \subseteq {current} /\ cancelable \subseteq {current}
  BY <1>1, BusyFacts
<1>3. /\ start.copied = 0 /\ ctx[current].info = 0
      /\ ctx[current].refs = {}
  BY <1>1 DEF Inv, StartInv
<1>4. /\ rx \in RxType /\ rx.count \in 0 .. rx.last + 1
      /\ rx.last \in Nat /\ rx.size = rx.last + 1 /\ rx.first <= rx.last
      /\ rx.cur = FirstAfter(ReducedCount)
      /\ rx.count \in 0 .. Larger(BufSize, NewSize)
  BY <1>2, RingFacts
<1> DEFINE len == ctx[current].len
           n == CharsToGet(len)
<1>5. len \in 0 .. MaxLen /\ MaxLen \in Nat
  BY <1>2, SlotFacts DEF CtxType
<1>6. n \in Nat /\ n <= rx.count /\ n <= len
  <2> HIDE DEF len
  <2> QED
    BY <1>4, <1>5 DEF CharsToGet, Smaller
<1>7. /\ totTimer' = "idle" /\ intTimer' = "idle"
      /\ user' = [user EXCEPT ![current] = Copied(@, 0, n)]
      /\ rx' = [rx EXCEPT !.first = FirstAfter(n)]
      /\ UNCHANGED <<ring, arrived, queue, current, completions, delivered,
                     asked, cancelable, quiet, countVars, dpcVars>>
  BY <1>2 DEF StartCopy, Stopped
<1>8. PICK m \in Modes :
        IF m.now \/ n = len \/ (m.some /\ n > 0)
          THEN /\ pc' = "update"
               /\ start' = [mode |-> m, needed |-> len - n, copied |-> n]
               /\ ctx' = [ctx EXCEPT ![current].info = n]
          ELSE /\ pc' = "switch"
               /\ start' = [mode |-> m, copied |-> n,
                            needed |-> IF m.one THEN 1 ELSE len - n]
               /\ ctx' = [ctx EXCEPT ![current].info = n,
                            ![current].refs = {},
                            ![current].len = IF m.one THEN 1 ELSE @]
  BY DEF StartCopy
<1>9. m.one => m.some
  BY ModeFacts
<1> DEFINE needed == start'.needed
           len2 == ctx'[current].len
<1>10. ctx \in [Reqs -> CtxType]
  BY <1>2 DEF RequestTypeOK
<1> HIDE DEF len, n
<1>11. n \in 0 .. MaxLen /\ n \in 0 .. Larger(BufSize, NewSize)
       /\ len - n \in 0 .. MaxLen /\ 1 \in 0 .. MaxLen
  <2>1. MaxLen >= 1
    BY RxAssumption
  <2> QED
    <3>1. Larger(BufSize, NewSize) \in Nat
      BY SlotFacts DEF Larger
    <3> QED
      BY <1>4, <1>5, <1>6, <2>1, <3>1
<1>12. /\ ctx' \in [Reqs -> CtxType]
       /\ \A r \in Reqs : r # current => ctx'[r] = ctx[r]
       /\ ctx'[current].kind = "read" /\ ctx'[current].info = n
       /\ ctx'[current].refs = {}
       /\ start' \in StartType /\ start'.copied = n
       /\ n <= ctx'[current].len
       /\ \/ pc' = "update"
          \/ /\ pc' = "switch" /\ start'.needed > 0
             /\ start'.needed + start'.copied = ctx'[current].len
  <2>1. CASE m.now \/ n = len \/ (m.some /\ n > 0)
    <3>1. /\ pc' = "update"
          /\ start' = [mode |-> m, needed |-> len - n, copied |-> n]
          /\ ctx' = [ctx EXCEPT ![current].info = n]
      BY <1>8, <2>1
    <3>2. /\ ctx' \in [Reqs -> CtxType]
          /\ \A r \in Reqs : r # current => ctx'[r] = ctx[r]
          /\ ctx'[current].kind = "read" /\ ctx'[current].info = n
          /\ ctx'[current].refs = {}
          /\ ctx'[current].len = len
      BY <1>1, <1>2, <1>3, <1>10, <1>11, <3>1 DEF CtxType, len
    <3>3. start' \in StartType /\ start'.copied = n
      BY <1>11, <3>1 DEF StartType
    <3> QED
      BY <1>6, <3>1, <3>2, <3>3
  <2>2. CASE ~ (m.now \/ n = len \/ (m.some /\ n > 0))
    <3> DEFINE l == IF m.one THEN 1 ELSE len
               k == IF m.one THEN 1 ELSE len - n
    <3>1. l \in 0 .. MaxLen /\ k \in 0 .. MaxLen
      BY <1>5, <1>11
    <3>2. k > 0 /\ k + n = l /\ n <= l
      BY <1>5, <1>6, <1>9, <2>2
    <3>3. /\ pc' = "switch"
          /\ start' = [mode |-> m, copied |-> n, needed |-> k]
          /\ ctx' = [ctx EXCEPT ![current].info = n,
                                ![current].refs = {},
                                ![current].len = l]
      BY <1>8, <2>2 DEF len
    <3> HIDE DEF l, k
    <3>4. /\ ctx' \in [Reqs -> CtxType]
          /\ \A r \in Reqs : r # current => ctx'[r] = ctx[r]
          /\ ctx'[current].kind = "read" /\ ctx'[current].info = n
          /\ ctx'[current].refs = {}
          /\ ctx'[current].len = l
      BY <1>1, <1>2, <1>10, <1>11, <3>1, <3>3 DEF CtxType
    <3>5. start' \in StartType /\ start'.copied = n /\ start'.needed = k
      BY <1>11, <3>1, <3>3 DEF StartType
    <3> QED
      BY <3>2, <3>3, <3>4, <3>5
  <2> QED
    BY <2>1, <2>2
<1>13. QueueInv'
  BY <1>1, <1>2, <1>7, <1>12, CurrentGoesOn
<1>14. /\ rx' \in RxType /\ rx'.base = Ring /\ rx'.cur = rx.cur
       /\ rx'.last = rx.last /\ rx'.size = rx.size /\ rx'.count = rx.count
       /\ rx'.first <= rx'.last /\ rx'.count <= rx'.size
       /\ rx'.cur <= rx'.last
       /\ rx'.cur = FirstAfter(ReducedCount)'
  <2>1. n \in 0 .. ReducedCount /\ start.copied \in Nat
        /\ start.copied <= rx.count
    BY <1>3, <1>4, <1>6 DEF ReducedCount
  <2>2. rx.count \in Nat /\ rx.count <= rx.count
        /\ rx.count - start'.copied = ReducedCount - n
    BY <1>3, <1>4, <1>6, <1>12 DEF ReducedCount
  <2>3. rx' = [rx EXCEPT !.first = FirstAfter(n), !.count = rx.count]
    BY <1>4, <1>7 DEF RxType
  <2> QED
    BY <1>2, <1>4, <2>1, <2>2, <2>3, TakeFacts
<1>15. user' \in [Reqs -> [Slots -> Chars]]
  <2>1. user \in [Reqs -> [Slots -> Chars]]
    BY <1>2 DEF RxTypeOK
  <2>2. n \in 0 .. rx.last + 1
    BY <1>4, <1>6
  <2>3. Copied(user[current], 0, n) \in [Slots -> Chars]
    BY <1>2, <1>4, <2>1, <2>2, CopiedType
  <2> QED
    BY <1>2, <1>7, <2>1, <2>3
<1>16. TypeOK'
  <2>1. RxTypeOK'
    BY <1>2, <1>7, <1>14, <1>15 DEF RxTypeOK, RxType
  <2>2. RequestTypeOK'
    BY <1>2, <1>7, <1>12 DEF RequestTypeOK
  <2>3. ControlTypeOK'
    BY <1>2, <1>7, <1>12 DEF ControlTypeOK, PCs, Timer, countVars, dpcVars
  <2> QED
    BY <2>1, <2>2, <2>3, TypePartsNext
<1>17. RequestInv'
  BY <1>2, <1>7, <1>13 DEF RequestInv
<1>18. RingInv'
  <2>1. rx'.size > 0 /\ start'.copied <= rx'.count
    BY <1>4, <1>6, <1>12, <1>14
  <2>2. rx'.last = rx'.size - 1
    BY <1>4, <1>14
  <2> QED
    BY <1>14, <2>1, <2>2 DEF RingInv
<1>19. StartInv'
  BY <1>2, <1>7, <1>12, <1>14, RxAssumption
    DEF StartInv, Starting
<1>20. RefCountTrue'
  BY <1>2, <1>7, <1>12, <1>14 DEF RefCountTrue, OwnedByIsr, dpcVars
<1> QED
  BY <1>16, <1>17, <1>18, <1>19, <1>20 DEF Inv

\* SerialUpdateAndSwitchToUser: with all that is there the read is complete,
\* else its buffer goes to the ISR.
LEMMA StartSwitchStep ==
  ASSUME Inv, StartSwitch
  PROVE  Inv'
<1>1. pc = "switch"
  BY DEF StartSwitch
<1>2. /\ totTimer = "idle" /\ intTimer = "idle" /\ cancelable = {}
      /\ rx.base = Ring /\ ~ readDpc /\ current \in Reqs
      /\ ctx[current] \in CtxType
      /\ RxTypeOK /\ RequestTypeOK /\ ControlTypeOK /\ QueueInv
      /\ asked \subseteq {current} /\ cancelable \subseteq {current}
  BY <1>1, BusyFacts
<1>3. /\ ctx[current].info = start.copied /\ ctx[current].refs = {}
      /\ ctx[current].kind = "read"
      /\ start.needed > 0
      /\ start.needed + start.copied = ctx[current].len
  BY <1>1 DEF Inv, StartInv
<1>4. /\ rx \in RxType /\ rx.count \in 0 .. rx.last + 1
      /\ rx.last \in Nat /\ rx.size = rx.last + 1 /\ rx.first <= rx.last
      /\ rx.cur = FirstAfter(ReducedCount)
      /\ start.copied \in Nat /\ start.copied <= rx.count
      /\ ReducedCount \in 0 .. rx.count
  BY <1>2, RingFacts
<1>5. /\ start \in StartType /\ start.needed \in Nat
      /\ ctx[current].len \in 0 .. MaxLen /\ MaxLen \in Nat
  BY <1>2, SlotFacts DEF ControlTypeOK, StartType, CtxType
<1>6. PICK n \in Nat : n = Smaller(ReducedCount, start.needed)
  BY <1>4, <1>5 DEF Smaller
<1>7. PICK len \in 0 .. MaxLen : len = ctx[current].len
  BY <1>5
<1>8. PICK at \in Nat : at = start.copied
  BY <1>4
<1>9. PICK reduced \in Nat : reduced = ReducedCount
  BY <1>4
<1>10. /\ n <= reduced /\ n <= start.needed
       /\ n = start.needed \/ (n = reduced /\ n < start.needed)
       /\ start.needed + at = len
       /\ reduced <= rx.count
  BY <1>3, <1>4, <1>5, <1>6, <1>7, <1>8, <1>9 DEF Smaller
<1> DEFINE filled == Copied(user[current], at, n)
           taken == [rx EXCEPT !.count = reduced - n, !.first = FirstAfter(n)]
<1>11. /\ IF n = start.needed
            THEN /\ rx' = taken
                 /\ CompleteAndNext([ctx[current] EXCEPT !.info = at + n],
                                    filled, "free")
                 /\ start' = NoStart
                 /\ UNCHANGED countVars
            ELSE /\ rx' = [taken EXCEPT !.base = current, !.cur = at + n,
                                        !.last = len - 1]
                 /\ user' = [user EXCEPT ![current] = filled]
                 /\ ctx' = [ctx EXCEPT ![current].info = at + n,
                                       ![current].refs = @ \cup {"isr"}]
                 /\ countOnLast' = IF at + n = 0 THEN "none" ELSE "some"
                 /\ readByIsr' = FALSE
                 /\ pc' = "arm"
                 /\ start' = [start EXCEPT !.copied = 0]
                 /\ UNCHANGED <<completions, delivered, asked, current, queue>>
       /\ UNCHANGED <<ring, arrived, cancelable, timerVars, dpcVars>>
  <2>1. len - start.needed = at
    BY <1>5, <1>8, <1>10
  <2>2. ctx[current].info = at
    BY <1>3, <1>8
  <2> QED
    BY <1>6, <1>7, <1>9, <2>1, <2>2 DEF StartSwitch
<1>12. user[current] \in [Slots -> Chars]
       /\ user \in [Reqs -> [Slots -> Chars]]
  BY <1>2 DEF RxTypeOK
<1>13. filled \in [Slots -> Chars]
  <2>1. n \in 0 .. rx.last + 1
    BY <1>4, <1>10
  <2> QED
    BY <1>2, <1>4, <1>12, <2>1, CopiedType
<1>14. at + n \in 0 .. MaxLen /\ at + n <= len
  BY <1>5, <1>7, <1>10
<1> HIDE DEF filled
<1>15. CASE n = start.needed
  <2>1. /\ rx' = [rx EXCEPT !.first = FirstAfter(n), !.count = reduced - n]
        /\ CompleteAndNext([ctx[current] EXCEPT !.info = at + n], filled,
                           "free")
        /\ start' = NoStart
        /\ UNCHANGED countVars
    BY <1>4, <1>11, <1>15 DEF RxType
  <2>2. [ctx[current] EXCEPT !.info = at + n] \in CtxType
    BY <1>2, <1>14 DEF CtxType
  <2>3. start' \in StartType /\ start'.copied = 0
    BY <2>1, NoStartFacts
  <2>4. /\ rx' \in RxType /\ rx'.base = Ring
        /\ rx'.last = rx.last /\ rx'.size = rx.size
        /\ rx'.count = reduced - n
        /\ rx'.first <= rx'.last /\ rx'.count <= rx'.size
        /\ rx'.cur <= rx'.last
        /\ rx'.cur = FirstAfter(ReducedCount)'
    <3>1. n \in 0 .. ReducedCount
      BY <1>9, <1>10
    <3>2. /\ reduced - n \in Nat /\ reduced - n <= rx.count
          /\ (reduced - n) - start'.copied = ReducedCount - n
      BY <1>4, <1>9, <1>10, <2>3
    <3> QED
      BY <1>2, <1>4, <2>1, <3>1, <3>2, TakeFacts
  <2>5. RingInv'
    <3>1. rx'.size > 0 /\ start'.copied <= rx'.count /\ rx'.last = rx'.size - 1
      BY <1>4, <1>9, <1>10, <2>3, <2>4
    <3> QED
      BY <2>4, <3>1 DEF RingInv
  <2>6. /\ countOnLast' \in {"none", "some", "total", "complete", "cancel"}
        /\ readByIsr' \in BOOLEAN
        /\ UNCHANGED <<arrived, cancelable, timerVars, dpcVars>>
        /\ ring' \in [Slots -> Chars]
    BY <1>2, <1>11, <2>1 DEF ControlTypeOK, countVars, RxTypeOK
  <2>7. pc \in {"start", "update", "switch", "resize"}
    BY <1>1
  <2> HIDE DEF Inv
  <2> QED
    BY <1>13, <2>1, <2>2, <2>3, <2>4, <2>5, <2>6, <2>7, CompletedStep
<1>16. CASE n # start.needed
  <2>1. /\ rx' = [taken EXCEPT !.base = current, !.cur = at + n,
                               !.last = len - 1]
        /\ user' = [user EXCEPT ![current] = filled]
        /\ ctx' = [ctx EXCEPT ![current].info = at + n,
                              ![current].refs = @ \cup {"isr"}]
        /\ countOnLast' = IF at + n = 0 THEN "none" ELSE "some"
        /\ readByIsr' = FALSE
        /\ pc' = "arm"
        /\ start' = [start EXCEPT !.copied = 0]
        /\ UNCHANGED <<completions, delivered, asked, current, queue>>
        /\ UNCHANGED <<ring, arrived, cancelable, timerVars, dpcVars>>
    BY <1>11, <1>16
  <2>2. n = reduced /\ at + n < len /\ len - 1 \in Nat
        /\ at + n <= len - 1 /\ reduced - n = 0
    BY <1>5, <1>7, <1>10, <1>16
  <2>3. at + n \in Slots /\ len - 1 \in Slots /\ FirstAfter(n) \in Slots
    <3>1. len \in 1 .. MaxLen
      BY <1>5, <2>2
    <3>2. len - 1 \in Slots
      BY <3>1, SlotFacts
    <3>3. at + n \in Slots
      BY <2>2, <3>2, SlotFacts
    <3>4. FirstAfter(n) \in 0 .. rx.last
      <4>1. n \in 0 .. rx.last + 1 /\ rx.first \in Nat
        BY <1>4, <1>10, SlotFacts DEF RxType
      <4> QED
        BY <1>4, <4>1, FirstAfterBound
    <3>5. FirstAfter(n) \in Slots
      BY <1>4, <3>4, SlotFacts DEF RxType
    <3> QED
      BY <3>2, <3>3, <3>5
  <2>4. /\ rx' \in RxType /\ rx'.base = current /\ rx'.cur = at + n
        /\ rx'.last = len - 1 /\ rx'.count = 0 /\ rx'.size = rx.size
    <3> DEFINE f == FirstAfter(n)
               c == at + n
               l == len - 1
    <3>1. taken = [rx EXCEPT !.count = 0, !.first = f]
      BY <2>2
    <3>2. f \in Slots /\ c \in Slots /\ l \in Slots
      BY <2>3
    <3>3. rx' = [taken EXCEPT !.base = current, !.cur = c, !.last = l]
      BY <2>1
    <3> HIDE DEF f, c, l, taken
    <3>4. /\ taken \in RxType /\ taken.count = 0 /\ taken.size = rx.size
      BY <1>4, <3>1, <3>2 DEF RxType
    <3>5. /\ rx' \in RxType /\ rx'.base = current /\ rx'.cur = c
          /\ rx'.last = l /\ rx'.count = 0 /\ rx'.size = rx.size
      BY <1>2, <3>2, <3>3, <3>4 DEF RxType
    <3> QED
      BY <3>5 DEF c, l
  <2>5. /\ ctx' \in [Reqs -> CtxType]
        /\ \A r \in Reqs : r # current => ctx'[r] = ctx[r]
        /\ ctx'[current].kind = "read" /\ ctx'[current].info = at + n
        /\ ctx'[current].refs = {"isr"} /\ ctx'[current].len = len
    <3>1. ctx \in [Reqs -> CtxType]
      BY <1>2 DEF RequestTypeOK
    <3> DEFINE i == at + n
               refs == {"isr"}
    <3>2. i \in 0 .. MaxLen /\ refs \in SUBSET RefTypes
      BY <1>14 DEF RefTypes
    <3>3. ctx[current].refs \cup {"isr"} = refs
      BY <1>3
    <3>4. ctx' = [ctx EXCEPT ![current].info = i,
                             ![current].refs = @ \cup {"isr"}]
      BY <2>1
    <3> HIDE DEF i, refs
    <3>5. /\ ctx' \in [Reqs -> CtxType]
          /\ \A r \in Reqs : r # current => ctx'[r] = ctx[r]
          /\ ctx'[current].kind = "read" /\ ctx'[current].info = i
          /\ ctx'[current].refs = refs /\ ctx'[current].len = len
      BY <1>2, <1>3, <1>7, <3>1, <3>2, <3>3, <3>4 DEF CtxType
    <3> QED
      BY <3>5 DEF i, refs
  <2>6. start' \in StartType /\ start'.copied = 0
    <3>1. 0 \in 0 .. Larger(BufSize, NewSize)
      BY SlotFacts DEF Larger
    <3> QED
      BY <1>5, <2>1, <3>1 DEF StartType
  <2>7. QueueInv'
    BY <1>2, <1>3, <2>1, <2>5, CurrentGoesOn
  <2>8. TypeOK'
    <3>1. user' \in [Reqs -> [Slots -> Chars]]
      BY <1>2, <1>12, <1>13, <2>1
    <3>2. rx'.count <= rx'.size /\ rx'.cur <= rx'.last
      BY <1>4, <2>2, <2>4
    <3>3. RxTypeOK'
      BY <1>2, <2>1, <2>4, <3>1, <3>2 DEF RxTypeOK, RxType
    <3>4. RequestTypeOK'
      BY <1>2, <2>1, <2>5 DEF RequestTypeOK
    <3>5. ControlTypeOK'
      BY <1>2, <2>1, <2>6 DEF ControlTypeOK, PCs, Timer, timerVars, dpcVars
    <3> QED
      BY <3>3, <3>4, <3>5, TypePartsNext
  <2>9. RequestInv'
    BY <1>2, <2>1, <2>7 DEF RequestInv
  <2>10. RingInv'
    <3>1. rx'.size > 0 /\ start'.copied <= rx'.count /\ rx'.base # Ring
      BY <1>2, <1>4, <2>4, <2>6, RxAssumption
    <3> QED
      BY <1>2, <2>1, <2>4, <2>5, <3>1 DEF RingInv, dpcVars
  <2>11. StartInv'
    BY <1>2, <2>1, <2>4, <2>5, <2>6, RxAssumption
      DEF StartInv, Starting, OwnedByIsr
  <2>12. RefCountTrue'
    BY <1>2, <2>1 DEF RefCountTrue, timerVars
  <2> QED
    BY <2>8, <2>9, <2>10, <2>11, <2>12 DEF Inv
<1> QED
  BY <1>15, <1>16

\* SerialSetCancelRoutine and the timers: each that is started gets its bit.
LEMMA StartArmStep ==
  ASSUME Inv, StartArm
  PROVE  Inv'
<1>1. /\ pc = "arm"
      /\ ctx' = [ctx EXCEPT ![current].routine = TRUE,
                            ![current].refs = @ \cup ArmedRefs(start.mode)]
      /\ totTimer' = IF start.mode.total THEN "armed" ELSE totTimer
      /\ intTimer' = IF start.mode.interval THEN "armed" ELSE intTimer
      /\ cancelable' = cancelable \cup {current}
      /\ start' = NoStart
      /\ pc' = "free"
      /\ UNCHANGED <<bufferVars, queue, current, completions, delivered,
                     asked, quiet, countVars, dpcVars>>
  BY Zenon DEF StartArm
<1>2. /\ RxTypeOK /\ RequestTypeOK /\ ControlTypeOK /\ QueueInv
      /\ asked \subseteq {current} /\ cancelable \subseteq {current}
  BY BusyFacts
<1>3. /\ current \in Reqs /\ current # NoReq
      /\ ctx[current].refs = {"isr"} /\ ctx[current].kind = "read"
      /\ OwnedByIsr \/ readDpc
      /\ ~ OwnedByIsr => ctx[current].info <= ctx[current].len
  BY <1>1, <1>2 DEF Inv, StartInv, Starting, RequestTypeOK
<1>4. /\ totTimer = "idle" /\ intTimer = "idle" /\ cancelable = {}
  BY <1>1 DEF Inv, RefCountTrue
<1>5. RingInv /\ start.copied = 0
  BY <1>1 DEF Inv, StartInv
<1> DEFINE refs == {"isr"} \cup ArmedRefs(start.mode)
<1>6. /\ ctx[current] \in CtxType /\ ctx \in [Reqs -> CtxType]
  BY <1>2, <1>3 DEF RequestTypeOK
<1>7. start.mode \in ModeType
  BY <1>2, ModeFacts DEF ControlTypeOK, StartType
<1>8. /\ "isr" \in refs /\ "cancel" \in refs /\ refs \in SUBSET RefTypes
      /\ "total" \in refs <=> start.mode.total
      /\ "interval" \in refs <=> start.mode.interval
  BY DEF ArmedRefs, RefTypes
<1>9. ctx[current].refs \cup ArmedRefs(start.mode) = refs
  BY <1>3
<1> HIDE DEF refs
<1>10. /\ ctx' \in [Reqs -> CtxType]
       /\ \A r \in Reqs : r # current => ctx'[r] = ctx[r]
       /\ ctx'[current].kind = "read" /\ ctx'[current].refs = refs
       /\ ctx'[current].routine = TRUE
       /\ ctx'[current].info = ctx[current].info
       /\ ctx'[current].len = ctx[current].len
  BY <1>1, <1>3, <1>6, <1>8, <1>9 DEF CtxType
<1>11. start' \in StartType /\ start'.copied = 0
  BY <1>1, NoStartFacts
<1>12. QueueInv'
  BY <1>1, <1>2, <1>3, <1>10, CurrentGoesOn
<1>13. /\ totTimer' \in Timer /\ intTimer' \in Timer
       /\ totTimer' # "idle" <=> "total" \in refs
       /\ intTimer' # "idle" <=> "interval" \in refs
  BY <1>1, <1>4, <1>8 DEF Timer
<1>14. TypeOK'
  <2>1. RxTypeOK'
    BY <1>1, <1>2 DEF RxTypeOK, bufferVars
  <2>2. RequestTypeOK'
    BY <1>1, <1>2, <1>3, <1>10 DEF RequestTypeOK
  <2>3. ControlTypeOK'
    BY <1>1, <1>2, <1>11, <1>13 DEF ControlTypeOK, PCs, countVars, dpcVars
  <2> QED
    BY <2>1, <2>2, <2>3, TypePartsNext
<1>15. RequestInv'
  BY <1>1, <1>2, <1>12 DEF RequestInv
<1>16. RingInv'
  <2>1. rx' = rx /\ start'.copied = start.copied /\ current' = current
        /\ readDpc' = readDpc
    BY <1>1, <1>5, <1>11 DEF bufferVars, dpcVars
  <2>2. FirstAfter(ReducedCount)' = FirstAfter(ReducedCount)
    BY <2>1 DEF FirstAfter, FirstTry, ReducedCount
  <2> QED
    BY <1>5, <1>10, <2>1, <2>2 DEF RingInv
<1>17. StartInv'
  BY <1>1, <1>3, <1>10, <1>11 DEF StartInv, Starting, OwnedByIsr, bufferVars
<1>18. RefCountTrue'
  <2>1. rx' = rx /\ readDpc' = readDpc /\ current' = current
    BY <1>1 DEF bufferVars, dpcVars
  <2>2. rx.base = current \/ readDpc
    BY <1>3, <1>5 DEF RingInv, OwnedByIsr
  <2>3. cancelable' = {current}
    BY <1>1, <1>4
  <2>4. Users' \subseteq RefTypes /\ refs \subseteq RefTypes
    BY <1>8 DEF Users, RefTypes
  <2>5. \A t \in RefTypes : t \in refs <=> t \in Users'
    BY <1>1, <1>8, <1>13, <2>1, <2>2, <2>3 DEF Users, RefTypes
  <2>6. refs = Users' /\ Users' # {}
    BY <1>8, <2>4, <2>5
  <2> QED
    BY <1>1, <1>3, <1>10, <2>1, <2>3, <2>6 DEF RefCountTrue
<1> QED
  BY <1>14, <1>15, <1>16, <1>17, <1>18 DEF Inv

\* SerialResizeBuffer, while the ISR goes on
LEMMA ResizeMoveStep ==
  ASSUME Inv, ResizeMove
  PROVE  Inv'
<1>1. /\ pc = "start" /\ ctx[current].kind = "resize"
      /\ UNCHANGED <<ring, arrived, cancelable, timerVars, countVars, dpcVars>>
  BY DEF ResizeMove
<1>2. /\ totTimer = "idle" /\ intTimer = "idle" /\ cancelable = {}
      /\ rx.base = Ring /\ ~ readDpc /\ current \in Reqs
      /\ ctx[current] \in CtxType
      /\ RxTypeOK /\ RequestTypeOK /\ ControlTypeOK /\ QueueInv
      /\ asked \subseteq {current} /\ cancelable \subseteq {current}
  BY <1>1, BusyFacts
<1>3. /\ start.copied = 0 /\ ctx[current].info = 0 /\ RingInv
  BY <1>1 DEF Inv, StartInv
<1>4. /\ rx \in RxType /\ rx.count \in 0 .. rx.last + 1
      /\ rx.last \in Nat /\ rx.size = rx.last + 1 /\ rx.first <= rx.last
      /\ rx.cur = FirstAfter(ReducedCount)
      /\ rx.count \in 0 .. Larger(BufSize, NewSize)
  BY <1>2, RingFacts
<1>5. user[current] \in [Slots -> Chars]
      /\ user \in [Reqs -> [Slots -> Chars]] /\ ring \in [Slots -> Chars]
      /\ rx.count <= rx.size /\ rx.cur <= rx.last
  BY <1>2 DEF RxTypeOK
<1>6. CASE NewSize <= rx.size
  <2>1. /\ CompleteAndNext(ctx[current], EmptySlots, "free")
        /\ rx' = rx /\ start' = start
    BY <1>6 DEF ResizeMove
  <2>2. RingInv'
    <3>1. FirstAfter(ReducedCount)' = FirstAfter(ReducedCount)
      BY <2>1 DEF FirstAfter, FirstTry, ReducedCount
    <3> QED
      BY <1>2, <1>3, <2>1, <3>1 DEF RingInv
  <2>3. /\ countOnLast' \in {"none", "some", "total", "complete", "cancel"}
        /\ readByIsr' \in BOOLEAN
        /\ UNCHANGED <<arrived, cancelable, timerVars, dpcVars>>
        /\ ring' \in [Slots -> Chars] /\ start' \in StartType
        /\ start'.copied = 0 /\ EmptySlots \in [Slots -> Chars]
    BY <1>1, <1>2, <1>3, <1>5, <2>1, SlotFacts DEF ControlTypeOK, countVars
  <2>4. pc \in {"start", "update", "switch", "resize"}
    BY <1>1
  <2> HIDE DEF Inv
  <2> QED
    BY <1>2, <1>4, <1>5, <2>1, <2>2, <2>3, <2>4, CompletedStep
<1>7. CASE ~ (NewSize <= rx.size)
  <2>1. /\ user' = [user EXCEPT ![current] = Copied(@, 0, rx.count)]
        /\ rx' = [rx EXCEPT !.first = FirstAfter(rx.count)]
        /\ start' = [start EXCEPT !.copied = rx.count]
        /\ pc' = "resize"
        /\ UNCHANGED <<queue, current, ctx, completions, delivered, asked>>
    BY <1>7 DEF ResizeMove
  <2>2. /\ start' \in StartType /\ start'.copied = rx.count
    BY <1>2, <1>4, <2>1 DEF ControlTypeOK, StartType
  <2>3. /\ rx' \in RxType /\ rx'.base = Ring /\ rx'.cur = rx.cur
        /\ rx'.last = rx.last /\ rx'.size = rx.size /\ rx'.count = rx.count
        /\ rx'.first <= rx'.last /\ rx'.count <= rx'.size
        /\ rx'.cur <= rx'.last
        /\ rx'.cur = FirstAfter(ReducedCount)'
    <3>1. rx.count \in 0 .. ReducedCount /\ start.copied \in Nat
          /\ start.copied <= rx.count
      BY <1>3, <1>4 DEF ReducedCount
    <3>2. rx.count \in Nat /\ rx.count <= rx.count
          /\ rx.count - start'.copied = ReducedCount - rx.count
      BY <1>3, <1>4, <2>2 DEF ReducedCount
    <3>3. rx' = [rx EXCEPT !.first = FirstAfter(rx.count), !.count = rx.count]
      BY <1>4, <2>1 DEF RxType
    <3> QED
      BY <1>2, <1>4, <3>1, <3>2, <3>3, TakeFacts
  <2>4. TypeOK'
    <3>1. Copied(user[current], 0, rx.count) \in [Slots -> Chars]
      BY <1>2, <1>4, <1>5, CopiedType
    <3>2. user' \in [Reqs -> [Slots -> Chars]]
      BY <1>2, <1>5, <2>1, <3>1
    <3>3. RxTypeOK'
      BY <1>1, <1>2, <2>3, <3>2 DEF RxTypeOK, RxType
    <3>4. RequestTypeOK'
      BY <1>1, <1>2, <2>1 DEF RequestTypeOK
    <3>5. ControlTypeOK'
      BY <1>1, <1>2, <2>1, <2>2
        DEF ControlTypeOK, PCs, timerVars, countVars, dpcVars
    <3> QED
      BY <3>3, <3>4, <3>5, TypePartsNext
  <2>5. RequestInv'
    <3>1. QueueInv'
      BY <1>2, <2>1, CurrentGoesOn
    <3> QED
      BY <1>1, <1>2, <2>1, <3>1 DEF RequestInv
  <2>6. RingInv'
    <3>1. rx'.size > 0 /\ start'.copied <= rx'.count /\ rx'.last = rx'.size - 1
      BY <1>4, <2>2, <2>3
    <3> QED
      BY <2>3, <3>1 DEF RingInv
  <2>7. StartInv'
    <3>1. rx'.size < NewSize
      <4>1. rx.size \in Nat /\ NewSize \in Nat
        BY <1>4, SlotFacts
      <4> QED
        BY <1>7, <2>3, <4>1
    <3>2. ctx[current].info <= ctx[current].len
      BY <1>2, <1>3, SlotFacts DEF CtxType
    <3> QED
      BY <1>1, <1>2, <1>3, <2>1, <3>1, <3>2, RxAssumption
        DEF StartInv, Starting
  <2>8. RefCountTrue'
    BY <1>1, <1>2, <2>1, <2>3 DEF RefCountTrue, OwnedByIsr, timerVars, dpcVars
  <2> QED
    BY <2>4, <2>5, <2>6, <2>7, <2>8 DEF Inv
<1> QED
  BY <1>6, <1>7

\* SerialUpdateAndSwitchToNew: the characters are in the first slots of the
\* new buffer.
LEMMA ResizeSwitchStep ==
  ASSUME Inv, ResizeSwitch
  PROVE  Inv'
<1>1. /\ pc = "resize"
      /\ ring' = Copied(user[current], start.copied, ReducedCount)
      /\ rx' = [rx EXCEPT !.cur = rx.count, !.last = NewSize - 1,
                          !.first = 0, !.size = NewSize]
      /\ CompleteAndNext(ctx[current], EmptySlots, "free")
      /\ start' = NoStart
      /\ UNCHANGED <<arrived, cancelable, timerVars, countVars, dpcVars>>
  BY DEF ResizeSwitch, NewCurrentSlot
<1>2. /\ rx.base = Ring /\ current \in Reqs
      /\ ctx[current] \in CtxType /\ RxTypeOK /\ ControlTypeOK
  BY <1>1, BusyFacts
<1>3. rx.size < NewSize
  BY <1>1 DEF Inv, StartInv
<1>4. /\ rx \in RxType /\ rx.count \in 0 .. rx.last + 1
      /\ rx.last \in Nat /\ rx.size = rx.last + 1 /\ rx.first <= rx.last
      /\ start.copied \in Nat /\ start.copied <= rx.count
      /\ ReducedCount \in 0 .. rx.count
  BY <1>2, RingFacts
<1>5. user[current] \in [Slots -> Chars]
  BY <1>2 DEF RxTypeOK
<1>6. /\ rx.count \in Nat /\ NewSize \in Nat /\ NewSize > 0
      /\ rx.count < NewSize /\ rx.count <= NewSize - 1
  BY <1>3, <1>4, SlotFacts
<1>7. rx.count \in Slots /\ NewSize - 1 \in Slots /\ 0 \in Slots
  <2>1. NewSize - 1 \in Slots /\ 0 \in Slots
    BY <1>6, SlotFacts
  <2> QED
    BY <1>6, <2>1, SlotFacts
<1>8. /\ rx' \in RxType /\ rx'.base = Ring /\ rx'.cur = rx.count
      /\ rx'.last = NewSize - 1 /\ rx'.first = 0
      /\ rx'.count = rx.count /\ rx'.size = NewSize
  BY <1>1, <1>2, <1>4, <1>7 DEF RxType
<1>9. start' \in StartType /\ start'.copied = 0
  BY <1>1, NoStartFacts
<1>10. FirstAfter(ReducedCount)' = rx.count
  <2>1. ReducedCount' = rx.count
    BY <1>6, <1>8, <1>9 DEF ReducedCount
  <2>2. FirstTry' = NewSize
    BY <1>6, <1>8 DEF FirstTry
  <2> QED
    BY <1>6, <1>8, <2>1, <2>2 DEF FirstAfter
<1>11. RingInv'
  BY <1>6, <1>8, <1>9, <1>10 DEF RingInv
<1>12. ring' \in [Slots -> Chars]
  <2>1. ReducedCount \in 0 .. rx.last + 1
    BY <1>4
  <2> QED
    BY <1>1, <1>2, <1>4, <1>5, <2>1, CopiedType
<1>13. /\ countOnLast' \in {"none", "some", "total", "complete", "cancel"}
       /\ readByIsr' \in BOOLEAN /\ EmptySlots \in [Slots -> Chars]
       /\ rx'.count <= rx'.size /\ rx'.cur <= rx'.last
  BY <1>1, <1>2, <1>6, <1>8, SlotFacts DEF ControlTypeOK, countVars
<1>14. pc \in {"start", "update", "switch", "resize"}
  BY <1>1
<1> HIDE DEF Inv
<1> QED
  BY <1>1, <1>2, <1>8, <1>9, <1>11, <1>12, <1>13, <1>14, CompletedStep

(***************************************************************************)
(* The ISR                                                                 *)
(***************************************************************************)

\* SerialPutChar: the last slot of a user's buffer gives the read up, and its
\* DPC has the reference from then on.
LEMMA PutCharStep ==
  ASSUME Inv, PutChar
  PROVE  Inv'
<1>1. /\ arrived < MaxChars /\ arrived' = arrived + 1
      /\ IF OwnedByIsr THEN PutUser ELSE PutRing
      /\ readByIsr' = (readByIsr \/ OwnedByIsr)
      /\ readDpc' = (readDpc \/ UserBufferFull)
      /\ errorDpc' = (errorDpc \/ (~ OwnedByIsr /\ ~ RoomInRing /\ ErrorAbort))
      /\ ctx' = IF UserBufferFull
                  THEN [ctx EXCEPT ![current].info = ctx[current].len] ELSE ctx
      /\ UNCHANGED <<queue, current, completions, delivered, asked, cancelable,
                     pc, start, timerVars, countOnLast>>
  BY Zenon DEF PutChar
<1>2. /\ RxTypeOK /\ RequestTypeOK /\ ControlTypeOK /\ QueueInv
      /\ asked \subseteq {current} /\ cancelable \subseteq {current}
  BY BusyFacts
<1>3. RingInv /\ StartInv /\ RefCountTrue
  BY DEF Inv
<1>4. /\ arrived' \in Chars /\ ring \in [Slots -> Chars]
      /\ user \in [Reqs -> [Slots -> Chars]] /\ rx \in RxType
      /\ rx.cur <= rx.last /\ rx.count <= rx.size
  <2>1. arrived \in Chars
    BY <1>2 DEF RxTypeOK
  <2>2. arrived' \in Chars
    BY <1>1, <2>1, SlotFacts DEF Chars
  <2> QED
    BY <1>2, <2>2 DEF RxTypeOK, RxType
<1>5. /\ rx.cur \in Nat /\ rx.last \in Nat /\ rx.first \in Nat
      /\ rx.size \in Nat /\ rx.count \in Nat
      /\ rx.cur \in Slots /\ rx.last \in Slots
  BY <1>4, SlotFacts DEF RxType
<1>6. errorDpc' \in BOOLEAN /\ readByIsr' \in BOOLEAN /\ readDpc' \in BOOLEAN
  BY <1>1
<1>7. /\ totTimer' = totTimer /\ intTimer' = intTimer /\ quiet' = quiet
      /\ current' = current /\ pc' = pc /\ start' = start
      /\ cancelable' = cancelable /\ asked' = asked
      /\ countOnLast' = countOnLast
  BY <1>1 DEF timerVars
<1>8. ASSUME ctx' \in [Reqs -> CtxType], RxTypeOK'
      PROVE  TypeOK'
  <2>1. RequestTypeOK'
    BY <1>1, <1>2, <1>8 DEF RequestTypeOK
  <2>2. ControlTypeOK'
    BY <1>2, <1>6, <1>7 DEF ControlTypeOK
  <2> QED
    BY <1>8, <2>1, <2>2, TypePartsNext
<1>9. CASE OwnedByIsr
  <2>1. /\ user' = [user EXCEPT ![rx.base][rx.cur] = arrived']
        /\ rx' = IF UserBufferFull THEN SwitchToRing
                                   ELSE [rx EXCEPT !.cur = Advanced]
        /\ ring' = ring
    BY <1>1, <1>9 DEF PutUser
  <2>2. /\ rx.base = current /\ rx.count = 0 /\ current \in Reqs
        /\ rx.last = ctx[current].len - 1 /\ ~ readDpc /\ rx.size > 0
        /\ Ring \notin Reqs /\ NoReq \notin Reqs /\ rx.base # Ring
        /\ start.copied <= rx.count
    BY <1>3, <1>4, <1>9, RxAssumption DEF RingInv, OwnedByIsr, RxType
  <2>3. /\ pc \notin {"start", "update", "switch", "resize"}
        /\ start.copied = 0
        /\ ctx[current].kind = "read"
        /\ ctx[current] \in CtxType /\ ctx \in [Reqs -> CtxType]
    <3>1. pc \notin {"start", "update", "switch", "resize"}
      BY <2>2, BusyFacts
    <3> QED
      BY <1>2, <1>3, <2>2, <3>1
        DEF StartInv, Starting, RequestTypeOK, ControlTypeOK, PCs
  <2>4. user' \in [Reqs -> [Slots -> Chars]]
    <3>1. PICK a \in Chars : a = arrived'
      BY <1>4
    <3>2. user[current] \in [Slots -> Chars]
      BY <1>4, <2>2
    <3>3. user' =
            [user EXCEPT ![current] = [user[current] EXCEPT ![rx.cur] = a]]
      BY <1>4, <2>1, <2>2, <3>1
    <3>4. [user[current] EXCEPT ![rx.cur] = a] \in [Slots -> Chars]
      BY <3>1, <3>2
    <3> QED
      BY <1>4, <2>2, <3>3, <3>4
  <2>5. CASE UserBufferFull
    <3>1. /\ rx' = SwitchToRing /\ readDpc' = TRUE
          /\ ctx' = [ctx EXCEPT ![current].info = ctx[current].len]
      BY <1>1, <2>1, <2>5
    <3>2. RxTypeOK' /\ RingInv' /\ rx'.base = Ring
      BY <1>2, <1>4, <1>7, <2>1, <2>2, <2>3, <2>4, <3>1, RingEmptied
    <3>3. /\ ctx' \in [Reqs -> CtxType]
          /\ \A r \in Reqs : r # current => ctx'[r] = ctx[r]
          /\ ctx'[current].kind = "read"
          /\ ctx'[current].refs = ctx[current].refs
          /\ ctx'[current].routine = ctx[current].routine
          /\ ctx'[current].info = ctx[current].len
          /\ ctx'[current].len = ctx[current].len
      BY <2>2, <2>3, <3>1 DEF CtxType
    <3>4. QueueInv'
      BY <1>1, <1>2, <2>2, <2>3, <3>3, CurrentGoesOn
    <3>5. TypeOK'
      BY <1>8, <3>2, <3>3
    <3>6. RequestInv'
      BY <1>2, <1>7, <3>4 DEF RequestInv
    <3>7. StartInv'
      <4>1. ctx'[current].info <= ctx'[current].len
        BY <2>3, <3>3, SlotFacts DEF CtxType
      <4> QED
        BY <1>3, <1>7, <2>2, <2>3, <3>1, <3>3, <4>1
          DEF StartInv, Starting, OwnedByIsr
    <3>8. RefCountTrue'
      <4>1. Users' = Users
        BY <1>7, <2>2, <3>1 DEF Users
      <4> QED
        BY <1>3, <1>7, <2>2, <3>1, <3>3, <4>1 DEF RefCountTrue, OwnedByIsr
    <3> QED
      BY <3>2, <3>5, <3>6, <3>7, <3>8 DEF Inv
  <2>6. CASE ~ UserBufferFull
    <3>1. rx.cur # rx.last /\ Advanced = rx.cur + 1
      BY <1>9, <2>6 DEF UserBufferFull, Advanced
    <3>2. rx.cur + 1 <= rx.last /\ rx.cur + 1 \in Slots
      <4>1. rx.cur + 1 \in Nat /\ rx.cur + 1 <= rx.last
        BY <1>4, <1>5, <3>1
      <4> QED
        BY <1>5, <4>1, SlotFacts
    <3>3. /\ rx' \in RxType /\ rx'.base = rx.base /\ rx'.last = rx.last
          /\ rx'.count = rx.count /\ rx'.size = rx.size
          /\ rx'.first = rx.first /\ rx'.cur = rx.cur + 1
      BY <1>4, <2>1, <2>6, <3>1, <3>2 DEF RxType
    <3>4. readDpc' = readDpc /\ ctx' = ctx
      BY <1>1, <1>2, <2>2, <2>6 DEF ControlTypeOK
    <3>5. TypeOK'
      <4>1. RxTypeOK'
        BY <1>4, <2>1, <2>4, <3>2, <3>3 DEF RxTypeOK, RxType
      <4> QED
        BY <1>2, <1>8, <3>4, <4>1 DEF RequestTypeOK
    <3>6. RequestInv'
      <4>1. QueueInv'
        BY <1>1, <1>2, <2>2, <3>4, CurrentGoesOn
      <4> QED
        BY <1>2, <1>7, <4>1 DEF RequestInv
    <3>7. RingInv'
      BY <1>7, <2>2, <3>3, <3>4 DEF RingInv
    <3>8. StartInv'
      BY <1>3, <1>7, <3>3, <3>4 DEF StartInv, Starting, OwnedByIsr
    <3>9. RefCountTrue'
      <4>1. Users' = Users
        BY <1>7, <3>3, <3>4 DEF Users
      <4> QED
        BY <1>3, <1>7, <3>3, <3>4, <4>1 DEF RefCountTrue, OwnedByIsr
    <3> QED
      BY <3>5, <3>6, <3>7, <3>8, <3>9 DEF Inv
  <2> QED
    BY <2>5, <2>6
<1>10. CASE ~ OwnedByIsr
  <2>1. /\ PutRing /\ ctx' = ctx /\ readDpc' = readDpc
    BY <1>1, <1>2, <1>10 DEF UserBufferFull, ControlTypeOK
  <2>2. user' = user
    BY <2>1 DEF PutRing
  <2>3. rx.base = Ring
    BY <1>10 DEF OwnedByIsr
  <2>4. /\ rx.first <= rx.last /\ rx.size = rx.last + 1
        /\ start.copied \in Nat /\ start.copied <= rx.count
        /\ rx.cur = FirstAfter(ReducedCount)
        /\ ReducedCount \in 0 .. rx.count
    BY <2>3, RingFacts
  <2>5. CASE RoomInRing
    <3>1. /\ ring' = [ring EXCEPT ![rx.cur] = arrived']
          /\ rx' = [rx EXCEPT !.cur = Advanced, !.count = @ + 1]
      BY <2>1, <2>5 DEF PutRing
    <3>2. rx.count < rx.size
      BY <2>5 DEF RoomInRing
    <3>3. Advanced \in Slots /\ Advanced <= rx.last
      <4>1. CASE rx.cur = rx.last
        BY <1>5, <4>1, SlotFacts DEF Advanced
      <4>2. CASE rx.cur # rx.last
        <5>1. rx.cur + 1 \in Nat /\ rx.cur + 1 <= rx.last
          BY <1>4, <1>5, <4>2
        <5> QED
          BY <1>5, <4>2, <5>1, SlotFacts DEF Advanced
      <4> QED
        BY <4>1, <4>2
    <3>4. /\ rx' \in RxType /\ rx'.base = Ring /\ rx'.last = rx.last
          /\ rx'.count = rx.count + 1 /\ rx'.size = rx.size
          /\ rx'.first = rx.first /\ rx'.cur = Advanced
      <4>1. PICK a \in Slots : a = Advanced
        BY <3>3
      <4>2. PICK k \in Nat : k = rx.count + 1
        BY <1>5
      <4>3. rx' = [rx EXCEPT !.cur = a, !.count = k]
        BY <3>1, <4>1, <4>2
      <4> QED
        BY <1>4, <2>3, <4>1, <4>2, <4>3 DEF RxType
    <3>5. TypeOK'
      <4>1. ring' \in [Slots -> Chars]
        BY <1>4, <1>5, <3>1
      <4>2. rx'.count <= rx'.size /\ rx'.cur <= rx'.last
        BY <1>5, <3>2, <3>3, <3>4
      <4>3. RxTypeOK'
        BY <1>4, <2>2, <3>4, <4>1, <4>2 DEF RxTypeOK, RxType
      <4> QED
        BY <1>2, <1>8, <2>1, <4>3 DEF RequestTypeOK
    <3>6. RingInv'
      <4>1. PICK n \in Nat : n = ReducedCount
        BY <1>5, <2>4
      <4>2. n \in 0 .. rx.last
        BY <1>5, <2>4, <3>2, <4>1
      <4>3. FirstAfter(n + 1) = Advanced
        BY <1>5, <2>4, <4>1, <4>2, FirstAfterNext
      <4>4. ReducedCount' = n + 1
        BY <1>5, <1>7, <2>4, <3>4, <4>1 DEF ReducedCount
      <4>5. FirstAfter(ReducedCount)' = FirstAfter(n + 1)
        BY <3>4, <4>4 DEF FirstAfter, FirstTry
      <4>6. /\ rx'.size > 0 /\ start'.copied <= rx'.count
            /\ rx'.last = rx'.size - 1
        BY <1>5, <1>7, <2>4, <3>4
      <4> QED
        BY <2>4, <3>4, <4>3, <4>5, <4>6 DEF RingInv
    <3>7. rx'.base = rx.base /\ rx'.size = rx.size
      BY <2>3, <3>4
    <3> QED
      <4>1. RequestInv'
        BY <1>1, <2>1, <1>3 DEF RequestInv, QueueInv, ContextInv, InQueue, Inv
      <4>2. StartInv'
        BY <1>3, <1>7, <2>1, <3>7 DEF StartInv, Starting, OwnedByIsr
      <4>3. RefCountTrue'
        BY <1>3, <1>7, <2>1, <3>7 DEF RefCountTrue, Users, OwnedByIsr
      <4> QED
        BY <3>5, <3>6, <4>1, <4>2, <4>3 DEF Inv
  <2>6. CASE ~ RoomInRing
    <3>1. rx' = rx /\ ring' = ring
      BY <2>1, <2>6 DEF PutRing
    <3>2. TypeOK'
      <4>1. RxTypeOK'
        BY <1>2, <1>4, <2>2, <3>1 DEF RxTypeOK
      <4> QED
        BY <1>2, <1>8, <2>1, <4>1 DEF RequestTypeOK
    <3>3. RequestInv'
      BY <1>1, <2>1, <1>3 DEF RequestInv, QueueInv, ContextInv, InQueue, Inv
    <3>4. RingInv'
      BY <1>3, <1>7, <2>1, <3>1
        DEF RingInv, FirstAfter, FirstTry, ReducedCount
    <3>5. StartInv'
      BY <1>3, <1>7, <2>1, <3>1 DEF StartInv, Starting, OwnedByIsr
    <3>6. RefCountTrue'
      BY <1>3, <1>7, <2>1, <3>1 DEF RefCountTrue, Users, OwnedByIsr
    <3> QED
      BY <3>2, <3>3, <3>4, <3>5, <3>6 DEF Inv
  <2> QED
    BY <2>5, <2>6
<1> QED
  BY <1>9, <1>10

(***************************************************************************)
(* Timers, requests and purges                                             *)
(***************************************************************************)

\* A step that leaves the requests and the buffers alone keeps what is said
\* about them alone.
LEMMA BuffersKept ==
  ASSUME RxTypeOK, RingInv, UNCHANGED <<bufferVars, current, readDpc>>,
         start'.copied = start.copied,
         current \in Reqs => ctx'[current] = ctx[current]
  PROVE  RxTypeOK' /\ RingInv'
<1>1. rx' = rx /\ ring' = ring /\ user' = user /\ arrived' = arrived
  BY DEF bufferVars
<1>2. RxTypeOK'
  BY <1>1 DEF RxTypeOK
<1>3. rx.base \in Reqs \cup {Ring}
  BY DEF RxTypeOK
<1>4. RingInv'
  BY <1>1, <1>3 DEF RingInv, FirstAfter, FirstTry, ReducedCount
<1> QED
  BY <1>2, <1>4

LEMMA RequestsKept ==
  ASSUME RequestTypeOK, QueueInv, UNCHANGED <<requestVars, asked>>
  PROVE  RequestTypeOK' /\ QueueInv'
BY DEF RequestTypeOK, QueueInv, ContextInv, InQueue, requestVars

\* The expiry of a timer leaves its reference to the DPC of the timer.
LEMMA ExpireStep ==
  ASSUME Inv, TotalExpires \/ IntervalExpires \/ IntervalPasses
  PROVE  Inv'
<1>1. /\ UNCHANGED <<bufferVars, requestVars, asked, pc, start, countVars,
                     dpcVars>>
      /\ totTimer' = totTimer
         \/ (totTimer' = "expired" /\ totTimer = "armed")
      /\ intTimer' = intTimer
         \/ (intTimer' = "expired" /\ intTimer = "armed")
      /\ quiet' = quiet \/ quiet' = TRUE
  BY DEF TotalExpires, IntervalExpires, IntervalPasses
<1>2. /\ RxTypeOK /\ RequestTypeOK /\ ControlTypeOK /\ QueueInv
      /\ asked \subseteq {current} /\ cancelable \subseteq {current}
  BY BusyFacts
<1>3. RingInv /\ StartInv /\ RefCountTrue
  BY DEF Inv
<1>4. /\ UNCHANGED <<queue, current, ctx, completions, delivered, cancelable,
                     asked, pc, start, countOnLast, readByIsr, readDpc,
                     errorDpc, rx>>
  BY <1>1 DEF requestVars, countVars, dpcVars, bufferVars
<1>5. RxTypeOK' /\ RingInv'
  BY <1>1, <1>2, <1>3, <1>4, BuffersKept
<1>6. RequestTypeOK' /\ QueueInv'
  BY <1>1, <1>2, RequestsKept
<1>7. ControlTypeOK'
  BY <1>1, <1>2, <1>4 DEF ControlTypeOK, Timer
<1>8. TypeOK'
  BY <1>5, <1>6, <1>7, TypePartsNext
<1>9. RequestInv'
  BY <1>2, <1>4, <1>6 DEF RequestInv
<1>10. intTimer' = "idle" <=> intTimer = "idle"
  BY <1>1
<1>11. totTimer' = "idle" <=> totTimer = "idle"
  BY <1>1
<1>12. StartInv'
  BY <1>3, <1>4, <1>10 DEF StartInv, Starting, OwnedByIsr
<1>13. RefCountTrue'
  <2>1. Users' = Users
    BY <1>4, <1>10, <1>11 DEF Users
  <2> QED
    BY <1>3, <1>4, <1>10, <1>11, <2>1 DEF RefCountTrue, OwnedByIsr
<1> QED
  BY <1>5, <1>8, <1>9, <1>12, <1>13 DEF Inv

\* SerialIntervalReadTimeout, while the read goes on
LEMMA IntervalCheckStep ==
  ASSUME Inv, IntervalCheck
  PROVE  Inv'
<1>1. /\ pc = "free" /\ intTimer = "expired"
      /\ countOnLast' \in {"some", countOnLast} /\ quiet' \in {FALSE, quiet}
      /\ readByIsr' = FALSE
      /\ \/ pc' = "expire" /\ intTimer' = "idle"
         \/ pc' = "free" /\ intTimer' = "armed"
      /\ UNCHANGED <<bufferVars, requestVars, asked, start, totTimer, dpcVars>>
  BY DEF IntervalCheck
<1>2. /\ RxTypeOK /\ RequestTypeOK /\ ControlTypeOK /\ QueueInv
      /\ asked \subseteq {current} /\ cancelable \subseteq {current}
      /\ current \in Reqs /\ ~ Starting
  BY <1>1, BusyFacts
<1>3. RingInv /\ StartInv /\ RefCountTrue /\ current # NoReq
  BY <1>2, RxAssumption DEF Inv
<1>4. /\ UNCHANGED <<queue, current, ctx, completions, delivered, cancelable,
                     asked, start, readDpc, errorDpc, rx, totTimer>>
  BY <1>1 DEF requestVars, dpcVars, bufferVars
<1>5. RxTypeOK' /\ RingInv'
  BY <1>1, <1>2, <1>3, <1>4, BuffersKept
<1>6. RequestTypeOK' /\ QueueInv'
  BY <1>1, <1>2, RequestsKept
<1>7. ControlTypeOK'
  BY <1>1, <1>2, <1>4 DEF ControlTypeOK, Timer, PCs
<1>8. TypeOK'
  BY <1>5, <1>6, <1>7, TypePartsNext
<1>9. RequestInv'
  BY <1>2, <1>4, <1>6 DEF RequestInv
<1>10. StartInv'
  BY <1>1, <1>3, <1>4 DEF StartInv, Starting, OwnedByIsr
<1>11. RefCountTrue'
  <2>1. Users' = Users
    BY <1>1, <1>4 DEF Users
  <2> QED
    BY <1>1, <1>3, <1>4, <2>1 DEF RefCountTrue
<1> QED
  BY <1>5, <1>8, <1>9, <1>10, <1>11 DEF Inv

\* SerialStartOrQueue
LEMMA EnterStep ==
  ASSUME Inv, NEW r \in Reqs, Read(r) \/ Resize(r)
  PROVE  Inv'
<1>1. PICK kind \in {"read", "resize"}, len \in 0 .. MaxLen :
        StartOrQueue(r, kind, len)
  <2>1. CASE Read(r)
    <3>1. PICK len \in 1 .. MaxLen : StartOrQueue(r, "read", len)
      BY <2>1 DEF Read
    <3>2. len \in 0 .. MaxLen
      OBVIOUS
    <3> QED
      BY <3>1, <3>2
  <2>2. CASE Resize(r)
    <3>1. StartOrQueue(r, "resize", 0) /\ 0 \in 0 .. MaxLen
      BY <2>2, SlotFacts DEF Resize
    <3> QED
      BY <3>1
  <2> QED
    BY <2>1, <2>2
<1>2. /\ pc = "free"
      /\ UNCHANGED <<bufferVars, completions, delivered, asked, cancelable,
                     start, timerVars, countVars, dpcVars>>
  BY <1>1 DEF StartOrQueue
<1>3. /\ RxTypeOK /\ RequestTypeOK /\ ControlTypeOK /\ QueueInv
      /\ asked \subseteq {current} /\ cancelable \subseteq {current}
  BY BusyFacts
<1>4. /\ RingInv /\ StartInv /\ RefCountTrue
      /\ NoReq \notin Reqs /\ Ring \notin Reqs
  BY RxAssumption DEF Inv
<1>5. /\ ctx' \in [Reqs -> CtxType]
      /\ queue' \in Seq(Reqs)
      /\ current' \in Reqs \cup {NoReq}
      /\ QueueInv'
      /\ \/ current = NoReq /\ NextIsFresh("start")
         \/ current \in Reqs /\ UNCHANGED <<current, pc>>
            /\ ctx'[current] = ctx[current]
  BY <1>1, <1>3, EnterFacts
<1>6. /\ rx' = rx /\ readDpc' = readDpc /\ start' = start
      /\ totTimer' = totTimer /\ intTimer' = intTimer
      /\ cancelable' = cancelable /\ asked' = asked
      /\ countOnLast' = countOnLast /\ readByIsr' = readByIsr
      /\ errorDpc' = errorDpc /\ quiet' = quiet
      /\ completions' = completions /\ delivered' = delivered
      /\ UNCHANGED <<ring, user, arrived>>
  BY <1>2 DEF bufferVars, timerVars, countVars, dpcVars
<1>7. RequestTypeOK'
  BY <1>3, <1>5, <1>6 DEF RequestTypeOK
<1>8. RxTypeOK'
  BY <1>3, <1>6 DEF RxTypeOK
<1>9. CASE current = NoReq /\ NextIsFresh("start")
  <2>1. /\ totTimer = "idle" /\ intTimer = "idle" /\ cancelable = {}
        /\ rx.base = Ring /\ ~ readDpc
    BY <1>2, <1>4, <1>9 DEF RefCountTrue, OwnedByIsr
  <2>2. /\ current' \in Reqs \cup {NoReq} /\ pc' = "start"
        /\ current' = NoReq \/ (ctx'[current'].info = 0
                                 /\ ctx'[current'].refs = {})
    BY <1>5, <1>9 DEF NextIsFresh
  <2>3. current' \in Reqs
    BY <1>1, <1>9, QueueIdle DEF StartOrQueue, Inv, RequestInv
  <2>4. asked' = {} /\ cancelable' = {}
    BY <1>3, <1>4, <1>6, <1>9 DEF RequestTypeOK
  <2>5. TypeOK'
    <3>1. ControlTypeOK'
      BY <1>3, <1>6, <2>2 DEF ControlTypeOK, PCs
    <3> QED
      BY <1>7, <1>8, <3>1, TypePartsNext
  <2>6. RequestInv'
    BY <1>5, <2>4 DEF RequestInv
  <2>7. RingInv'
    BY <1>4, <1>6, <2>1 DEF RingInv, FirstAfter, FirstTry, ReducedCount
  <2>8. StartInv'
    <3>1. ctx'[current'].info <= ctx'[current'].len
      <4>1. ctx'[current'] \in CtxType
        BY <1>5, <2>3
      <4> QED
        BY <1>4, <4>1, <2>2, <2>3, SlotFacts DEF CtxType
    <3>2. start'.copied = 0
      BY <1>2, <1>4, <1>6 DEF StartInv
    <3> QED
      BY <1>4, <2>2, <2>3, <3>1, <3>2 DEF StartInv, Starting
  <2>9. RefCountTrue'
    BY <1>6, <2>1, <2>2 DEF RefCountTrue, OwnedByIsr
  <2> QED
    BY <2>5, <2>6, <2>7, <2>8, <2>9 DEF Inv
<1>10. CASE /\ current \in Reqs /\ UNCHANGED <<current, pc>>
            /\ ctx'[current] = ctx[current]
  <2>1. TypeOK'
    <3>1. ControlTypeOK'
      BY <1>3, <1>6, <1>10 DEF ControlTypeOK
    <3> QED
      BY <1>7, <1>8, <3>1, TypePartsNext
  <2>2. RequestInv'
    BY <1>3, <1>5, <1>6, <1>10 DEF RequestInv
  <2>3. RingInv'
    BY <1>4, <1>6, <1>10 DEF RingInv, FirstAfter, FirstTry, ReducedCount
  <2>4. StartInv'
    BY <1>4, <1>6, <1>10 DEF StartInv, Starting, OwnedByIsr
  <2>5. RefCountTrue'
    <3>1. Users' = Users
      BY <1>6, <1>10 DEF Users
    <3> QED
      BY <1>4, <1>6, <1>10, <3>1 DEF RefCountTrue, OwnedByIsr
  <2> QED
    BY <2>1, <2>2, <2>3, <2>4, <2>5 DEF Inv
<1> QED
  BY <1>5, <1>9, <1>10

\* A request that is cancelled leaves the queue; the current one is marked.
LEMMA CancelStep ==
  ASSUME Inv, NEW r \in Reqs, Cancel(r)
  PROVE  Inv'
<1>1. /\ ctx[r].kind # "none"
      /\ UNCHANGED <<bufferVars, current, delivered, cancelable, pc, start,
                     timerVars, countVars, dpcVars>>
  BY DEF Cancel
<1>2. /\ RxTypeOK /\ RequestTypeOK /\ ControlTypeOK /\ QueueInv
      /\ asked \subseteq {current} /\ cancelable \subseteq {current}
  BY BusyFacts
<1>3. RingInv /\ StartInv /\ RefCountTrue /\ NoReq \notin Reqs
  BY RxAssumption DEF Inv
<1>4. /\ rx' = rx /\ readDpc' = readDpc /\ start' = start
      /\ totTimer' = totTimer /\ intTimer' = intTimer
      /\ cancelable' = cancelable /\ pc' = pc /\ current' = current
      /\ countOnLast' = countOnLast /\ readByIsr' = readByIsr
      /\ errorDpc' = errorDpc /\ quiet' = quiet /\ delivered' = delivered
  BY <1>1 DEF bufferVars, timerVars, countVars, dpcVars
<1>5. /\ ctx' \in [Reqs -> CtxType] /\ completions' \in [Reqs -> Nat]
      /\ queue' \in Seq(Reqs) /\ QueueInv'
      /\ current \in Reqs => ctx'[current] = ctx[current]
      /\ asked' \subseteq Reqs /\ asked' \subseteq {current}
  <2>1. CASE r = current
    <3>1. asked' = asked \cup {r} /\ UNCHANGED <<ctx, completions, queue>>
      BY <2>1 DEF Cancel
    <3>2. QueueInv'
      BY <1>2, <1>4, <3>1 DEF QueueInv, ContextInv, InQueue
    <3> QED
      BY <1>2, <2>1, <3>1, <3>2 DEF RequestTypeOK
  <2>2. CASE r # current
    <3>1. /\ ctx' \in [Reqs -> CtxType] /\ completions' \in [Reqs -> Nat]
          /\ queue' \in Seq(Reqs) /\ QueueInv'
          /\ current \in Reqs => ctx'[current] = ctx[current]
          /\ UNCHANGED asked
      BY <1>2, <2>2, CancelFacts
    <3> QED
      BY <1>2, <3>1 DEF RequestTypeOK
  <2> QED
    BY <2>1, <2>2
<1>6. RxTypeOK' /\ RingInv'
  BY <1>1, <1>2, <1>3, <1>4, <1>5, BuffersKept
<1>7. RequestTypeOK'
  BY <1>2, <1>4, <1>5 DEF RequestTypeOK
<1>8. ControlTypeOK'
  BY <1>2, <1>4 DEF ControlTypeOK
<1>9. TypeOK'
  BY <1>6, <1>7, <1>8, TypePartsNext
<1>10. RequestInv'
  BY <1>2, <1>4, <1>5 DEF RequestInv
<1>11. current # NoReq => current \in Reqs
  BY <1>2 DEF RequestTypeOK
<1>12. StartInv'
  BY <1>3, <1>4, <1>5, <1>11 DEF StartInv, Starting, OwnedByIsr
<1>13. RefCountTrue'
  <2>1. Users' = Users
    BY <1>4 DEF Users
  <2> QED
    BY <1>3, <1>4, <1>5, <1>11, <2>1 DEF RefCountTrue, OwnedByIsr
<1> QED
  BY <1>6, <1>9, <1>10, <1>12, <1>13 DEF Inv

\* A step of a purge: the queue is flushed or not, the rest stays.
LEMMA FlushStep ==
  ASSUME Inv, pc \in {"free", "abort", "abortclear"},
         NEW then \in {"free", "abort", "abortclear", "clear"},
         \/ FlushQueue(then)
         \/ /\ pc' = then
            /\ UNCHANGED <<bufferVars, requestVars, asked, start, timerVars,
                           countVars>>,
         errorDpc' \in BOOLEAN, readDpc' = readDpc
  PROVE  Inv'
<1>1. /\ RxTypeOK /\ RequestTypeOK /\ ControlTypeOK /\ QueueInv
      /\ asked \subseteq {current} /\ cancelable \subseteq {current}
  BY BusyFacts
<1>2. RingInv /\ StartInv /\ RefCountTrue /\ NoReq \notin Reqs
  BY RxAssumption DEF Inv
<1>3. /\ ctx' \in [Reqs -> CtxType] /\ completions' \in [Reqs -> Nat]
      /\ queue' \in Seq(Reqs) /\ QueueInv' /\ pc' = then
      /\ current \in Reqs => ctx'[current] = ctx[current]
      /\ UNCHANGED <<bufferVars, current, delivered, asked, cancelable, start,
                     timerVars, countVars>>
  <2>1. CASE FlushQueue(then)
    <3>1. /\ ctx' \in [Reqs -> CtxType] /\ completions' \in [Reqs -> Nat]
          /\ queue' = <<>> /\ QueueInv' /\ pc' = then
          /\ current \in Reqs => ctx'[current] = ctx[current]
          /\ UNCHANGED <<bufferVars, current, delivered, asked, cancelable,
                         start, timerVars, countVars>>
      BY <1>1, <2>1, FlushFacts
    <3>2. <<>> \in Seq(Reqs)
      OBVIOUS
    <3> QED
      BY <3>1, <3>2
  <2>2. CASE /\ pc' = then
             /\ UNCHANGED <<bufferVars, requestVars, asked, start, timerVars,
                            countVars>>
    <3>1. RequestTypeOK' /\ QueueInv'
      BY <1>1, <2>2, RequestsKept
    <3> QED
      BY <2>2, <3>1 DEF RequestTypeOK, requestVars
  <2> QED
    BY <2>1, <2>2
<1>4. /\ rx' = rx /\ readDpc' = readDpc /\ start' = start
      /\ totTimer' = totTimer /\ intTimer' = intTimer
      /\ cancelable' = cancelable /\ pc' = then /\ current' = current
      /\ countOnLast' = countOnLast /\ readByIsr' = readByIsr
      /\ quiet' = quiet /\ delivered' = delivered /\ asked' = asked
  BY <1>3 DEF bufferVars, timerVars, countVars
<1>5. RxTypeOK' /\ RingInv'
  BY <1>1, <1>2, <1>3, <1>4, BuffersKept
<1>6. RequestTypeOK'
  BY <1>1, <1>3, <1>4 DEF RequestTypeOK
<1>7. ControlTypeOK'
  BY <1>1, <1>4 DEF ControlTypeOK, PCs
<1>8. TypeOK'
  BY <1>5, <1>6, <1>7, TypePartsNext
<1>9. RequestInv'
  BY <1>1, <1>3, <1>4 DEF RequestInv
<1>10. current # NoReq => current \in Reqs
  BY <1>1 DEF RequestTypeOK
<1>11. StartInv'
  BY <1>2, <1>3, <1>4, <1>10 DEF StartInv, Starting, OwnedByIsr
<1>12. RefCountTrue'
  <2>1. Users' = Users
    BY <1>4 DEF Users
  <2> QED
    BY <1>2, <1>3, <1>4, <1>10, <2>1 DEF RefCountTrue, OwnedByIsr
<1> QED
  BY <1>5, <1>8, <1>9, <1>11, <1>12 DEF Inv

\* SerialStartPurge and SerialCommError
LEMMA PurgeStep ==
  ASSUME Inv, Purge \/ CommErrorDpc
  PROVE  Inv'
<1>1. ControlTypeOK
  BY TypeParts DEF Inv
<1>2. /\ pc = "free" /\ readDpc' = readDpc /\ errorDpc' \in BOOLEAN
      /\ \E then \in {"free", "abort", "abortclear", "clear"} :
           \/ FlushQueue(then)
           \/ /\ pc' = then
              /\ UNCHANGED <<bufferVars, requestVars, asked, start, timerVars,
                             countVars>>
  BY <1>1 DEF Purge, CommErrorDpc, dpcVars, ControlTypeOK
<1> QED
  BY <1>2, FlushStep

\* SerialPurgeRequests goes on with the current request.
LEMMA PurgeCurrentStep ==
  ASSUME Inv, PurgeCurrent
  PROVE  Inv'
<1>1. PICK then \in {"free", "clear"} :
        /\ pc \in {"abort", "abortclear"}
        /\ IF AbortCurrent
             THEN SerialCancelCurrentRead(then)
             ELSE /\ pc' = then
                  /\ UNCHANGED <<bufferVars, requestVars, asked, start,
                                 timerVars, countVars, dpcVars>>
  BY DEF PurgeCurrent
<1>2. RequestTypeOK /\ ControlTypeOK
  BY TypeParts DEF Inv
<1>3. CASE AbortCurrent
  <2>1. current \in Reqs /\ ~ Starting /\ pc # "expire"
    BY <1>1, <1>2, <1>3 DEF AbortCurrent, RequestTypeOK, Starting
  <2>2. SerialCancelCurrentRead(then)
    BY <1>1, <1>3
  <2> QED
    BY <2>1, <2>2, CancelCurrentStep
<1>4. CASE ~ AbortCurrent
  <2>1. /\ pc' = then
        /\ UNCHANGED <<bufferVars, requestVars, asked, start, timerVars,
                       countVars>>
        /\ readDpc' = readDpc /\ errorDpc' \in BOOLEAN
    BY <1>1, <1>2, <1>4 DEF dpcVars, ControlTypeOK
  <2>2. /\ pc \in {"free", "abort", "abortclear"}
        /\ then \in {"free", "abort", "abortclear", "clear"}
    BY <1>1
  <2> QED
    BY <2>1, <2>2, FlushStep
<1> QED
  BY <1>3, <1>4

\* SerialPurgeInterruptBuff, unless the ISR has a user's buffer
LEMMA PurgeClearStep ==
  ASSUME Inv, PurgeClear
  PROVE  Inv'
<1>1. /\ pc = "clear" /\ rx' = PurgedRing /\ pc' = "free"
      /\ UNCHANGED <<ring, user, arrived, requestVars, asked, start,
                     timerVars, countVars, dpcVars>>
  BY DEF PurgeClear
<1>2. /\ RxTypeOK /\ RequestTypeOK /\ ControlTypeOK /\ QueueInv
      /\ asked \subseteq {current} /\ cancelable \subseteq {current}
  BY BusyFacts
<1>3. RingInv /\ StartInv /\ RefCountTrue /\ start.copied = 0
  BY <1>1 DEF Inv, StartInv
<1>4. /\ UNCHANGED <<queue, current, ctx, completions, delivered, cancelable,
                     asked, start, readDpc, errorDpc, totTimer, intTimer,
                     quiet, countOnLast, readByIsr, ring, user, arrived>>
  BY <1>1 DEF requestVars, timerVars, countVars, dpcVars
<1>5. RxTypeOK' /\ RingInv' /\ rx'.base = rx.base
  <2>1. CASE OwnedByIsr
    <3>1. rx' = rx
      BY <1>1, <2>1 DEF PurgedRing
    <3>2. UNCHANGED <<bufferVars, current, readDpc>>
      BY <1>4, <3>1 DEF bufferVars
    <3>3. start'.copied = start.copied
          /\ (current \in Reqs => ctx'[current] = ctx[current])
      BY <1>4
    <3> QED
      BY <1>2, <1>3, <3>1, <3>2, <3>3, BuffersKept
  <2>2. CASE ~ OwnedByIsr
    <3>1. rx' = SwitchToRing /\ rx.base = Ring /\ rx.size > 0
      BY <1>1, <1>3, <2>2 DEF PurgedRing, OwnedByIsr, RingInv
    <3>2. /\ ring' \in [Slots -> Chars] /\ arrived' \in Chars
          /\ user' \in [Reqs -> [Slots -> Chars]] /\ start'.copied = 0
      BY <1>2, <1>3, <1>4 DEF RxTypeOK
    <3> QED
      BY <1>2, <3>1, <3>2, RingEmptied
  <2> QED
    BY <2>1, <2>2
<1>6. RequestTypeOK' /\ QueueInv'
  BY <1>1, <1>2, RequestsKept
<1>7. ControlTypeOK'
  BY <1>1, <1>2, <1>4 DEF ControlTypeOK, PCs
<1>8. TypeOK'
  BY <1>5, <1>6, <1>7, TypePartsNext
<1>9. RequestInv'
  BY <1>2, <1>4, <1>6 DEF RequestInv
<1>10. StartInv'
  BY <1>1, <1>3, <1>4, <1>5 DEF StartInv, Starting, OwnedByIsr
<1>11. RefCountTrue'
  <2>1. Users' = Users
    BY <1>1, <1>4, <1>5 DEF Users
  <2> QED
    BY <1>1, <1>3, <1>4, <1>5, <2>1 DEF RefCountTrue, OwnedByIsr
<1> QED
  BY <1>5, <1>8, <1>9, <1>10, <1>11 DEF Inv

(***************************************************************************)
(* The invariant of the specification                                      *)
(***************************************************************************)

LEMMA InvInit == Init => Inv
<1> SUFFICES ASSUME Init PROVE Inv
  OBVIOUS
<1>1. /\ rx = [base |-> Ring, cur |-> 0, last |-> BufSize - 1, first |-> 0,
               count |-> 0, size |-> BufSize]
      /\ ring = EmptySlots /\ user = [r \in Reqs |-> EmptySlots]
      /\ arrived = 0 /\ queue = <<>> /\ current = NoReq
      /\ ctx = [r \in Reqs |-> NoContext] /\ asked = {} /\ cancelable = {}
      /\ completions = [r \in Reqs |-> 0] /\ delivered = <<>>
      /\ pc = "free" /\ start = NoStart
      /\ totTimer = "idle" /\ intTimer = "idle" /\ quiet = FALSE
      /\ countOnLast = "none" /\ readByIsr = FALSE /\ readDpc = FALSE
      /\ errorDpc = FALSE
  BY DEF Init, RxInit
<1>2. /\ BufSize \in Nat /\ BufSize > 0 /\ 0 \in Slots /\ 0 \in Chars
      /\ BufSize - 1 \in Slots /\ EmptySlots \in [Slots -> Chars]
      /\ NoReq \notin Reqs
  BY RxAssumption, SlotFacts DEF Chars
<1>3. RxTypeOK
  BY <1>1, <1>2 DEF RxTypeOK
<1>4. RequestTypeOK
  BY <1>1, NoContextType DEF RequestTypeOK
<1>5. ControlTypeOK
  BY <1>1, NoStartFacts DEF ControlTypeOK, PCs, Timer
<1>6. TypeOK
  BY <1>3, <1>4, <1>5, TypeParts
<1>7. QueueInv
  <2>1. \A r : ~ InQueue(r)
    <3>1. queue = <<>> /\ Len(<<>>) = 0
      BY <1>1
    <3> QED
      BY <3>1 DEF InQueue
  <2>2. \A r \in Reqs : ctx[r] = NoContext /\ completions[r] = 0 /\ r # current
    BY <1>1, <1>2
  <2>3. \A r \in Reqs : ContextInv(r)
    BY <2>1, <2>2, NoContextType DEF ContextInv
  <2> QED
    BY <1>1, <2>1, <2>3 DEF QueueInv
<1>8. RequestInv
  BY <1>1, <1>7 DEF RequestInv
<1>9. RingInv
  <2>1. start.copied = 0
    BY <1>1, NoStartFacts
  <2>2. FirstAfter(ReducedCount) = 0
    BY <1>1, <1>2, <2>1 DEF FirstAfter, FirstTry, ReducedCount
  <2> QED
    BY <1>1, <1>2, <2>1, <2>2 DEF RingInv
<1>10. StartInv
  BY <1>1, NoStartFacts DEF StartInv, Starting
<1>11. RefCountTrue
  BY <1>1 DEF RefCountTrue, OwnedByIsr
<1> QED
  BY <1>6, <1>8, <1>9, <1>10, <1>11 DEF Inv

LEMMA InvStutter ==
  ASSUME Inv, UNCHANGED vars
  PROVE  Inv'
<1>1. /\ UNCHANGED <<bufferVars, requestVars, asked, pc, start, timerVars,
                     countVars, dpcVars>>
  BY DEF vars
<1>2. /\ UNCHANGED <<rx, ring, user, arrived, queue, current, ctx, asked,
                     cancelable, completions, delivered, pc, start, totTimer,
                     intTimer, quiet, countOnLast, readByIsr, readDpc,
                     errorDpc>>
  BY <1>1 DEF bufferVars, requestVars, timerVars, countVars, dpcVars
<1>3. TypeOK'
  <2>1. RxTypeOK /\ RequestTypeOK /\ ControlTypeOK
    BY BusyFacts
  <2>2. RxTypeOK'
    BY <1>2, <2>1 DEF RxTypeOK
  <2>3. RequestTypeOK'
    BY <1>2, <2>1 DEF RequestTypeOK
  <2>4. ControlTypeOK'
    BY <1>2, <2>1 DEF ControlTypeOK
  <2> QED
    BY <2>2, <2>3, <2>4, TypePartsNext
<1>4. RequestInv'
  BY <1>2 DEF Inv, RequestInv, QueueInv, ContextInv, InQueue
<1>5. RingInv'
  BY <1>2 DEF Inv, RingInv, FirstAfter, FirstTry, ReducedCount
<1>6. StartInv'
  BY <1>2 DEF Inv, StartInv, Starting, OwnedByIsr
<1>7. RefCountTrue'
  BY <1>2 DEF Inv, RefCountTrue, Users, OwnedByIsr
<1> QED
  BY <1>3, <1>4, <1>5, <1>6, <1>7 DEF Inv

LEMMA InvNext ==
  ASSUME Inv, [Next]_vars
  PROVE  Inv'
<1>1. CASE StartCopy
  BY <1>1, StartCopyStep
<1>2. CASE StartUpdate
  BY <1>2, StartUpdateStep
<1>3. CASE StartSwitch
  BY <1>3, StartSwitchStep
<1>4. CASE StartArm
  BY <1>4, StartArmStep
<1>5. CASE ResizeMove
  BY <1>5, ResizeMoveStep
<1>6. CASE ResizeSwitch
  BY <1>6, ResizeSwitchStep
<1>7. CASE IntervalTimeout
  BY <1>7, IntervalTimeoutStep
<1>8. CASE PurgeCurrent
  BY <1>8, PurgeCurrentStep
<1>9. CASE PurgeClear
  BY <1>9, PurgeClearStep
<1>10. CASE PutChar
  BY <1>10, PutCharStep
<1>11. CASE CompleteReadDpc
  BY <1>11, DpcStep
<1>12. CASE TotalExpires \/ IntervalExpires \/ IntervalPasses
  BY <1>12, ExpireStep
<1>13. CASE SerialReadTimeout
  BY <1>13, TotalStep
<1>14. CASE IntervalLast
  BY <1>14, IntervalLastStep
<1>15. CASE IntervalCheck
  BY <1>15, IntervalCheckStep
<1>16. ASSUME NEW r \in Reqs, Read(r) \/ Resize(r)
       PROVE  Inv'
  BY <1>16, EnterStep
<1>17. ASSUME NEW r \in Reqs, Cancel(r)
       PROVE  Inv'
  BY <1>17, CancelStep
<1>18. ASSUME NEW r \in Reqs, CancelRoutine(r)
       PROVE  Inv'
  BY <1>18, CancelRoutineStep
<1>19. CASE Purge \/ CommErrorDpc
  BY <1>19, PurgeStep
<1>20. CASE UNCHANGED vars
  BY <1>20, InvStutter
<1> QED
  BY <1>1, <1>2, <1>3, <1>4, <1>5, <1>6, <1>7, <1>8, <1>9, <1>10, <1>11,
     <1>12, <1>13, <1>14, <1>15, <1>16, <1>17, <1>18, <1>19, <1>20
     DEF Next, Holder, IntervalDpc, Terminated

LEMMA Invariance == Spec => []Inv
<1>1. Inv /\ [Next]_vars => Inv'
  BY InvNext
<1> QED
  BY InvInit, <1>1, PTL DEF Spec

(***************************************************************************)
(* Theorems                                                                *)
(***************************************************************************)

\* Every variable keeps its type: in particular, CurrentCharSlot and
\* FirstReadableChar stay inside the buffer that they point to, and
\* SerialGrabReadFromIsr computes a number of characters that fits the read.
THEOREM TypeCorrect == Spec => []TypeOK
<1>1. Inv => TypeOK
  BY DEF Inv
<1> QED
  BY Invariance, <1>1, PTL

\* RefCount has exactly the bits of those that may still use the current
\* request, whatever order the ISR, its DPC, the two timers, a cancellation
\* and a purge come in: the last of them, and no other, completes it.
THEOREM ReferencesTrue == Spec => []RefCountTrue
<1>1. Inv => RefCountTrue
  BY DEF Inv
<1> QED
  BY Invariance, <1>1, PTL

\* A request that SerialCompleteRequest or the framework has completed is not
\* completed again, and is in no queue, with no ISR and with no cancel routine.
THEOREM CompletedOnce == Spec => []CompletedForGood
<1>1. Inv => CompletedForGood
  <2> SUFFICES ASSUME Inv, NEW r \in Reqs
               PROVE  /\ completions[r] <= 1
                      /\ completions[r] = 1 =>
                           /\ r # current /\ r # rx.base /\ r \notin cancelable
                           /\ \A i \in 1 .. Len(queue) : queue[i] # r
    BY DEF CompletedForGood
  <2>1. /\ ContextInv(r) /\ completions[r] \in Nat
        /\ cancelable \subseteq {current}
        /\ Ring \notin Reqs
        /\ rx.base = Ring \/ rx.base = current
    BY TypeParts, RxAssumption
      DEF Inv, RequestInv, QueueInv, RequestTypeOK, RingInv
  <2>2. completions[r] <= 1
    BY <2>1 DEF ContextInv
  <2>3. ASSUME completions[r] = 1
        PROVE  r # current /\ ~ InQueue(r)
    BY <2>1, <2>3 DEF ContextInv
  <2> QED
    BY <2>1, <2>2, <2>3 DEF InQueue
<1> QED
  BY Invariance, <1>1, PTL

\* ReadQueue is empty when there is no current request: SerialStartOrQueue and
\* SerialGetNextRequest leave no request behind that nobody would start.
THEOREM NoneLeftWaiting == Spec => []QueueServed
<1>1. Inv => QueueServed
  BY DEF Inv, RequestInv, QueueInv, QueueServed
<1> QED
  BY Invariance, <1>1, PTL

(***************************************************************************)
(* The characters on their way                                             *)
(***************************************************************************)

PendingAt(i) ==
  IF i <= InUserBuffer THEN user[current][i - 1]
                       ELSE ReadableChar(i - InUserBuffer - 1)

\* Pending is the characters in the user's buffer and those in the ring.
PendingTrue ==
  /\ InUserBuffer \in Nat /\ ReducedCount \in Nat
  /\ Pending \in Seq(Chars)
  /\ Len(Pending) = InUserBuffer + ReducedCount
  /\ \A i \in 1 .. InUserBuffer + ReducedCount : Pending[i] = PendingAt(i)

InUserBufferTrue ==
  /\ InUserBuffer \in Nat
  /\ InUserBuffer > 0 => current \in Reqs /\ InUserBuffer - 1 \in Slots
  /\ rx.base # Ring =>
       ReducedCount = 0 /\ InUserBuffer = rx.cur /\ current \in Reqs

LEMMA InUserBufferFacts == Inv => InUserBufferTrue
<1> SUFFICES ASSUME Inv PROVE InUserBufferTrue
  OBVIOUS
<1>1. /\ RxTypeOK /\ RequestTypeOK /\ ControlTypeOK
      /\ NoReq \notin Reqs /\ Ring \notin Reqs
  BY BusyFacts, RxAssumption
<1>2. RingInv /\ StartInv
  BY DEF Inv
<1>3. rx.base # Ring => /\ rx.base = current /\ current \in Reqs
                        /\ rx.count = 0 /\ start.copied <= rx.count
  BY <1>1, <1>2 DEF RingInv, RxTypeOK
<1>4. start.copied \in Nat /\ rx.cur \in Slots /\ rx.cur \in Nat
  BY <1>1, SlotFacts DEF ControlTypeOK, StartType, RxTypeOK, Larger
<1>5. rx.base # Ring => ReducedCount = 0
  BY <1>3, <1>4 DEF ReducedCount
<1>6. CASE current = NoReq
  BY <1>1, <1>3, <1>5, <1>6 DEF InUserBuffer, InUserBufferTrue
<1>7. CASE current # NoReq
  <2>1. current \in Reqs /\ ctx[current] \in CtxType
    BY <1>1, <1>7 DEF RequestTypeOK
  <2>2. CASE rx.base = current
    <3>1. InUserBuffer = rx.cur
      BY <1>7, <2>2 DEF InUserBuffer
    <3>2. rx.cur > 0 => rx.cur - 1 \in Slots
      BY <1>4, SlotFacts
    <3> QED
      BY <1>4, <1>5, <2>1, <2>2, <3>1, <3>2 DEF InUserBufferTrue
  <2>3. CASE rx.base # current /\ pc = "resize"
    <3>1. InUserBuffer = start.copied
      BY <1>7, <2>3 DEF InUserBuffer
    <3>2. /\ rx.base = Ring /\ start.copied <= rx.last + 1
          /\ rx.last \in Slots /\ rx.last \in Nat
      <4>1. rx.base = Ring
        BY <1>3, <2>3
      <4> QED
        BY <1>4, <4>1, RingFacts DEF RxType
    <3>3. start.copied > 0 => start.copied - 1 \in Slots
      <4>1. start.copied > 0 =>
              start.copied - 1 \in Nat /\ start.copied - 1 <= rx.last
        BY <1>4, <3>2
      <4> QED
        BY <3>2, <4>1, SlotFacts
    <3> QED
      BY <1>4, <2>1, <3>1, <3>2, <3>3 DEF InUserBufferTrue
  <2>4. CASE rx.base # current /\ pc # "resize"
    <3>1. InUserBuffer = ctx[current].info
      BY <1>7, <2>4 DEF InUserBuffer
    <3>2. ctx[current].info \in 0 .. MaxLen /\ MaxLen \in Nat
      BY <2>1, SlotFacts DEF CtxType
    <3>3. ctx[current].info > 0 => ctx[current].info - 1 \in Slots
      <4>1. ctx[current].info > 0 => ctx[current].info \in 1 .. MaxLen
        BY <3>2
      <4> QED
        BY <4>1, SlotFacts
    <3>4. rx.base = Ring
      BY <1>3, <2>4
    <3> QED
      BY <2>1, <3>1, <3>2, <3>3, <3>4 DEF InUserBufferTrue
  <2> QED
    BY <2>2, <2>3, <2>4
<1> QED
  BY <1>6, <1>7

LEMMA InUserBufferFactsNext == Inv' => InUserBufferTrue'
BY InUserBufferFacts, PTL

LEMMA PendingFacts == Inv => PendingTrue
<1> SUFFICES ASSUME Inv PROVE PendingTrue
  OBVIOUS
<1>1. RxTypeOK
  BY BusyFacts
<1>2. PICK u \in Nat : u = InUserBuffer
  BY InUserBufferFacts DEF InUserBufferTrue
<1>3. /\ u > 0 => current \in Reqs /\ u - 1 \in Slots
      /\ rx.base # Ring => ReducedCount = 0
  BY <1>2, InUserBufferFacts DEF InUserBufferTrue
<1>4. rx.base = Ring =>
        /\ ReducedCount \in 0 .. rx.count /\ rx.count \in 0 .. rx.last + 1
        /\ rx.last \in Nat /\ rx.first <= rx.last
  BY RingFacts
<1>5. ReducedCount \in Nat
  BY <1>3, <1>4
<1>6. PICK k \in Nat : k = ReducedCount
  BY <1>5
<1> DEFINE s == [i \in 1 .. u |-> user[current][i - 1]]
           t == [i \in 1 .. k |-> ReadableChar(i - 1)]
<1>7. s \in Seq(Chars)
  <2>1. ASSUME NEW i \in 1 .. u
        PROVE  user[current][i - 1] \in Chars
    <3>1. current \in Reqs /\ u - 1 \in Slots
      BY <1>3
    <3>2. i - 1 \in Nat /\ i - 1 <= u - 1
      OBVIOUS
    <3>3. i - 1 \in Slots
      BY <3>1, <3>2, SlotFacts
    <3> QED
      BY <1>1, <3>1, <3>3 DEF RxTypeOK
  <2> QED
    BY <2>1
<1>8. t \in Seq(Chars)
  <2>1. ASSUME NEW i \in 1 .. k
        PROVE  ReadableChar(i - 1) \in Chars
    <3>1. rx.base = Ring
      BY <1>3, <1>6
    <3>2. rx.first <= rx.last /\ i - 1 \in 0 .. rx.last
      BY <1>4, <1>6, <3>1
    <3> QED
      BY <1>1, <3>2, ReadableCharType
  <2> QED
    BY <2>1
<1>9. Len(s) = u /\ Len(t) = k
  OBVIOUS
<1>10. /\ \A i \in 1 .. u : s[i] = user[current][i - 1]
       /\ \A i \in 1 .. k : t[i] = ReadableChar(i - 1)
  OBVIOUS
<1>11. Pending = s \o t
  BY <1>2, <1>6 DEF Pending
<1> HIDE DEF s, t
<1>12. s \o t \in Seq(Chars) /\ Len(s \o t) = u + k
  BY <1>7, <1>8, <1>9
<1>13. ASSUME NEW i \in 1 .. u + k
       PROVE  (s \o t)[i] = PendingAt(i)
  <2>1. CASE i <= u
    <3>1. i \in 1 .. u /\ (s \o t)[i] = s[i]
      BY <1>7, <1>8, <1>9, <2>1
    <3> QED
      BY <1>2, <1>10, <2>1, <3>1 DEF PendingAt
  <2>2. CASE ~ (i <= u)
    <3>1. i - u \in 1 .. k /\ (s \o t)[i] = t[i - u]
      BY <1>7, <1>8, <1>9, <2>2
    <3> QED
      BY <1>2, <1>10, <2>2, <3>1 DEF PendingAt
  <2> QED
    BY <2>1, <2>2
<1> QED
  BY <1>2, <1>5, <1>6, <1>11, <1>12, <1>13 DEF PendingTrue

LEMMA PendingFactsNext == Inv' => PendingTrue'
BY PendingFacts, PTL

\* Two sequences with the same elements
LEMMA SameSequence ==
  ASSUME NEW S, NEW s \in Seq(S), NEW t \in Seq(S), Len(s) = Len(t),
         \A i \in 1 .. Len(s) : s[i] = t[i]
  PROVE  s = t
OBVIOUS

(***************************************************************************)
(* What a step of the driver is to the stream                              *)
(***************************************************************************)

\* The characters stay, in the same order, wherever they are now.
LEMMA PendingStays ==
  ASSUME Inv, Inv',
         InUserBuffer' + ReducedCount' = InUserBuffer + ReducedCount,
         \A i \in 1 .. InUserBuffer + ReducedCount :
           PendingAt(i)' = PendingAt(i)
  PROVE  Pending' = Pending
<1>1. PendingTrue /\ PendingTrue'
  BY PendingFacts, PendingFactsNext
<1>2. PICK n \in Nat : n = InUserBuffer + ReducedCount
  BY <1>1 DEF PendingTrue
<1>3. /\ Pending \in Seq(Chars) /\ Len(Pending) = n
      /\ \A i \in 1 .. n : Pending[i] = PendingAt(i)
  BY <1>1, <1>2 DEF PendingTrue
<1>4. /\ Pending' \in Seq(Chars) /\ Len(Pending') = n
      /\ \A i \in 1 .. n : Pending'[i] = PendingAt(i)'
  BY <1>1, <1>2 DEF PendingTrue
<1> QED
  BY <1>2, <1>3, <1>4, SameSequence

LEMMA StreamStep ==
  ASSUME \/ Stream!Receive \/ Stream!Lose \/ Stream!Take
         \/ \E n \in 0 .. Len(Pending) : Stream!Deliver(n)
         \/ Stream!Abort \/ Stream!Purge \/ Stream!Grow
  PROVE  Stream!Next
<1>1. Aborting' \in BOOLEAN /\ (pc' = "clear") \in BOOLEAN
  BY DEF Aborting
<1> QED
  BY <1>1 DEF Stream!Next

\* The current request may have more of the same characters.
LEMMA StreamStays ==
  ASSUME Inv, Inv', arrived' = arrived, delivered' = delivered,
         rx'.size = rx.size, InUserBuffer' >= InUserBuffer,
         InUserBuffer' + ReducedCount' = InUserBuffer + ReducedCount,
         \A i \in 1 .. InUserBuffer + ReducedCount :
           PendingAt(i)' = PendingAt(i)
  PROVE  Stream!Next
<1>1. Pending' = Pending
  BY PendingStays
<1>2. InUserBuffer' \in InUserBuffer .. Len(Pending)
  BY PendingFacts, PendingFactsNext DEF PendingTrue
<1>3. Stream!Take
  BY <1>1, <1>2 DEF Stream!Take
<1> QED
  BY <1>3, StreamStep

\* A character comes in behind the others.
LEMMA StreamReceives ==
  ASSUME Inv, Inv', arrived' = arrived + 1, delivered' = delivered,
         rx'.size = rx.size,
         NEW l \in Nat, l = InUserBuffer + ReducedCount,
         InUserBuffer' + ReducedCount' = l + 1,
         \/ InUserBuffer' = InUserBuffer
         \/ InUserBuffer = l /\ InUserBuffer' = l + 1,
         \A i \in 1 .. l : PendingAt(i)' = PendingAt(i),
         NEW last, last = l + 1, PendingAt(last)' = arrived'
  PROVE  Stream!Next
<1>1. PendingTrue /\ PendingTrue' /\ arrived' \in Chars
  <2>1. RxTypeOK'
    BY TypeParts DEF Inv, TypeOK
  <2> QED
    BY <2>1, PendingFacts, PendingFactsNext DEF RxTypeOK
<1>2. /\ Pending \in Seq(Chars) /\ Len(Pending) = l
      /\ \A i \in 1 .. l : Pending[i] = PendingAt(i)
  BY <1>1 DEF PendingTrue
<1>3. /\ Pending' \in Seq(Chars) /\ Len(Pending') = l + 1
      /\ \A i \in 1 .. l + 1 : Pending'[i] = PendingAt(i)'
  BY <1>1 DEF PendingTrue
<1> DEFINE t == Append(Pending, arrived')
<1>4. /\ t \in Seq(Chars) /\ Len(t) = l + 1 /\ t[l + 1] = arrived'
      /\ \A i \in 1 .. l : t[i] = Pending[i]
  BY <1>1, <1>2
<1> HIDE DEF t
<1>5. ASSUME NEW i \in 1 .. l + 1
      PROVE  Pending'[i] = t[i]
  <2>1. CASE i \in 1 .. l
    BY <1>2, <1>3, <1>4, <2>1
  <2>2. CASE i = last
    BY <1>3, <1>4, <2>2
  <2> QED
    BY <2>1, <2>2
<1>6. Pending' = t
  BY <1>3, <1>4, <1>5, SameSequence
<1>7. Stream!Receive
  BY <1>2, <1>6 DEF Stream!Receive, t
<1> QED
  BY <1>7, StreamStep

\* The first n of l characters are delivered, from slots.
Delivers(l, n, slots) ==
  /\ l \in Nat /\ l = InUserBuffer + ReducedCount
  /\ n \in Nat /\ n <= l /\ n >= InUserBuffer
  /\ InUserBuffer' = 0
  /\ \A i \in 1 .. n : slots[i - 1] = PendingAt(i)
  /\ delivered' = delivered \o [i \in 1 .. n |-> slots[i - 1]]
  /\ InUserBuffer' + ReducedCount' = l - n
  /\ \A i \in 1 .. l - n : PendingAt(i)' = PendingAt(i + n)

LEMMA StreamDelivers ==
  ASSUME Inv, Inv', arrived' = arrived, rx'.size = rx.size,
         NEW l, NEW n, NEW slots, Delivers(l, n, slots)
  PROVE  Stream!Next
<1> l \in Nat /\ n \in Nat
  BY DEF Delivers
<1>1. PendingTrue /\ PendingTrue' /\ delivered \in Seq(Chars)
  BY PendingFacts, PendingFactsNext, BusyFacts DEF RequestTypeOK
<1>2. l = InUserBuffer + ReducedCount
  BY DEF Delivers
<1>3. /\ Pending \in Seq(Chars) /\ Len(Pending) = l
      /\ \A i \in 1 .. l : Pending[i] = PendingAt(i)
  BY <1>1, <1>2 DEF PendingTrue
<1>4. /\ InUserBuffer' + ReducedCount' = l - n
      /\ \A i \in 1 .. l - n : PendingAt(i)' = PendingAt(i + n)
  BY DEF Delivers
<1>5. /\ \A i \in 1 .. n : slots[i - 1] = PendingAt(i)
      /\ delivered' = delivered \o [i \in 1 .. n |-> slots[i - 1]]
  BY DEF Delivers
<1>6. /\ Pending' \in Seq(Chars) /\ Len(Pending') = l - n
      /\ \A i \in 1 .. l - n : Pending'[i] = PendingAt(i)'
  BY <1>1, <1>4, Zenon DEF PendingTrue
<1> DEFINE s == [i \in 1 .. n |-> slots[i - 1]]
           first == SubSeq(Pending, 1, n)
           rest == SubSeq(Pending, n + 1, Len(Pending))
<1>7. n <= l
  BY DEF Delivers
<1>8. /\ first \in Seq(Chars) /\ Len(first) = n
      /\ \A i \in 1 .. n : first[i] = Pending[i]
  BY <1>3, <1>7
<1>9. /\ rest \in Seq(Chars) /\ Len(rest) = l - n
      /\ \A i \in 1 .. l - n : rest[i] = Pending[n + i]
  BY <1>3, <1>7
<1> HIDE DEF first, rest
<1>10. s = first
  <2>1. \A i \in 1 .. n : s[i] = first[i]
    BY <1>3, <1>7, <1>8, <1>5
  <2>2. \A i \in 1 .. n : slots[i - 1] \in Chars
    <3>1. \A i \in 1 .. n : first[i] \in Chars
      BY <1>8
    <3>2. \A i \in 1 .. n : s[i] = slots[i - 1]
      OBVIOUS
    <3> HIDE DEF s
    <3> QED
      BY <2>1, <3>1, <3>2
  <2>3. s \in Seq(Chars) /\ Len(s) = n
    BY <2>2
  <2> HIDE DEF s
  <2> QED
    BY <1>8, <2>1, <2>3, SameSequence
<1>11. Pending' = rest
  <2>1. ASSUME NEW i \in 1 .. l - n
        PROVE  Pending'[i] = rest[i]
    <3>1. n + i \in 1 .. l /\ n + i = i + n
      BY <1>7
    <3>2. PendingAt(i)' = PendingAt(i + n)
      BY <1>4
    <3> QED
      BY <1>3, <1>6, <1>9, <3>1, <3>2
  <2> QED
    BY <1>6, <1>9, <2>1, SameSequence
<1>12. n \in 0 .. Len(Pending)
  BY <1>3, <1>7
<1>13. n >= InUserBuffer /\ InUserBuffer' = 0
  BY DEF Delivers
<1>14. Stream!Deliver(n)
  BY <1>5, <1>10, <1>11, <1>13 DEF Stream!Deliver, first, rest
<1> QED
  BY <1>12, <1>14, StreamStep

\* The first m of l characters and the last n of them are discarded.
Discards(l, m, n) ==
  /\ l \in Nat /\ l = InUserBuffer + ReducedCount
  /\ m \in Nat /\ n \in Nat /\ m + n <= l
  /\ InUserBuffer' + ReducedCount' = l - m - n
  /\ \A i \in 1 .. l - m - n : PendingAt(i)' = PendingAt(i + m)

LEMMA WhatIsDiscarded ==
  ASSUME Inv, Inv', NEW l, NEW m, NEW n, Discards(l, m, n)
  PROVE  Pending' = SubSeq(Pending, m + 1, l - n) /\ Len(Pending) = l
<1> USE DEF Discards
<1>1. PendingTrue /\ PendingTrue'
  BY PendingFacts, PendingFactsNext
<1>2. l = InUserBuffer + ReducedCount
  OBVIOUS
<1>3. /\ Pending \in Seq(Chars) /\ Len(Pending) = l
      /\ \A i \in 1 .. l : Pending[i] = PendingAt(i)
  BY <1>1, <1>2 DEF PendingTrue
<1>4. /\ InUserBuffer' + ReducedCount' = l - m - n
      /\ \A i \in 1 .. l - m - n : PendingAt(i)' = PendingAt(i + m)
  OBVIOUS
<1>5. /\ Pending' \in Seq(Chars) /\ Len(Pending') = l - m - n
      /\ \A i \in 1 .. l - m - n : Pending'[i] = PendingAt(i)'
  BY <1>1, <1>4, Zenon DEF PendingTrue
<1> DEFINE rest == SubSeq(Pending, m + 1, l - n)
<1>6. m + n <= l
  OBVIOUS
<1>7. /\ rest \in Seq(Chars) /\ Len(rest) = l - m - n
      /\ \A i \in 1 .. l - m - n : rest[i] = Pending[m + i]
  BY <1>3, <1>6
<1> HIDE DEF rest
<1>8. Pending' = rest
  <2>1. ASSUME NEW i \in 1 .. l - m - n
        PROVE  Pending'[i] = rest[i]
    <3>1. m + i \in 1 .. l /\ m + i = i + m
      BY <1>6
    <3>2. PendingAt(i)' = PendingAt(i + m)
      BY <1>4
    <3> QED
      BY <1>3, <1>5, <1>7, <3>1, <3>2
  <2> QED
    BY <1>5, <1>7, <2>1, SameSequence
<1> QED
  BY <1>3, <1>8 DEF rest

(***************************************************************************)
(* Characters in the ring                                                  *)
(***************************************************************************)

LEMMA ReadableSlot == \A i : ReadableChar(i) = ring[FirstAfter(i)]
<1> SUFFICES ASSUME NEW i PROVE ReadableChar(i) = ring[FirstAfter(i)]
  OBVIOUS
<1>1. (FirstTry > i) = (i < FirstTry)
  OBVIOUS
<1> QED
  BY <1>1 DEF ReadableChar, FirstAfter

LEMMA ReadableSlotNext == \A i : ReadableChar(i)' = ring'[FirstAfter(i)']
<1> SUFFICES ASSUME NEW i PROVE ReadableChar(i)' = ring'[FirstAfter(i)']
  OBVIOUS
<1>1. (FirstTry' > i) = (i < FirstTry')
  OBVIOUS
<1> QED
  BY <1>1 DEF ReadableChar, FirstAfter

\* Every character has a slot of its own.
LEMMA FirstAfterDistinct ==
  ASSUME rx.first \in Nat, rx.last \in Nat, rx.first <= rx.last,
         NEW m \in 0 .. rx.last, NEW n \in 0 .. rx.last, m # n
  PROVE  FirstAfter(m) # FirstAfter(n)
<1> DEFINE f == rx.first
           l == rx.last
<1>1. /\ f \in Nat /\ l \in Nat /\ f <= l /\ m # n
      /\ m \in Nat /\ n \in Nat /\ m <= l /\ n <= l
  OBVIOUS
<1> HIDE DEF f, l
<1>2. (IF l - f + 1 > m THEN f + m ELSE m - (l - f + 1))
        # (IF l - f + 1 > n THEN f + n ELSE n - (l - f + 1))
  BY <1>1
<1> QED
  BY <1>2 DEF FirstAfter, FirstTry, f, l

\* The characters behind those that were taken
LEMMA TakenChars ==
  ASSUME rx.first \in Nat, rx.last \in Nat, rx.first <= rx.last,
         rx'.last = rx.last, ring' = ring,
         NEW m \in Nat, NEW n \in Nat, m + n <= rx.last,
         rx'.first = FirstAfter(m)
  PROVE  ReadableChar(n)' = ReadableChar(m + n)
<1>1. FirstAfter(n)' = FirstAfter(m + n)
  BY FirstAfterTwice
<1> QED
  BY <1>1, ReadableSlot, ReadableSlotNext

\* Nothing is written or moved.
LEMMA StreamUntouched ==
  ASSUME Inv, Inv', UNCHANGED <<bufferVars, delivered>>,
         start'.copied = start.copied,
         \/ /\ current' = current
            /\ (pc' = "resize") <=> (pc = "resize")
            /\ current \in Reqs => ctx'[current].info = ctx[current].info
         \/ InUserBuffer = 0 /\ InUserBuffer' = 0
  PROVE  Stream!Next
<1>1. rx' = rx /\ ring' = ring /\ user' = user /\ arrived' = arrived
  BY DEF bufferVars
<1>2. RequestTypeOK /\ current \in Reqs \cup {NoReq}
  BY BusyFacts DEF RequestTypeOK
<1>3. /\ InUserBuffer' = InUserBuffer
      /\ current' = current \/ InUserBuffer = 0
  <2>1. CASE /\ current' = current
             /\ (pc' = "resize") <=> (pc = "resize")
             /\ current \in Reqs => ctx'[current].info = ctx[current].info
    BY <1>1, <1>2, <2>1 DEF InUserBuffer
  <2>2. CASE InUserBuffer = 0 /\ InUserBuffer' = 0
    BY <2>2
  <2> QED
    BY <2>1, <2>2
<1>4. ReducedCount' = ReducedCount
  BY <1>1 DEF ReducedCount
<1>5. InUserBuffer \in Nat /\ ReducedCount \in Nat
  BY PendingFacts DEF PendingTrue
<1>6. ASSUME NEW i \in 1 .. InUserBuffer + ReducedCount
      PROVE  PendingAt(i)' = PendingAt(i)
  <2>1. \A j : ReadableChar(j)' = ReadableChar(j)
    BY <1>1 DEF ReadableChar, FirstTry
  <2>2. CASE i <= InUserBuffer
    <3>1. current' = current
      BY <1>3, <1>5, <2>2
    <3> QED
      BY <1>1, <1>3, <2>2, <3>1 DEF PendingAt
  <2>3. CASE ~ (i <= InUserBuffer)
    <3>1. PendingAt(i)' = ReadableChar(i - InUserBuffer - 1)'
      BY <1>3, <2>3 DEF PendingAt
    <3>2. PendingAt(i) = ReadableChar(i - InUserBuffer - 1)
      BY <2>3 DEF PendingAt
    <3>3. PICK j : j = i - InUserBuffer - 1
      OBVIOUS
    <3> QED
      BY <1>3, <2>1, <3>1, <3>2, <3>3 DEF ReadableChar, FirstTry
  <2> QED
    BY <2>2, <2>3
<1> QED
  BY <1>1, <1>3, <1>4, <1>5, <1>6, StreamStays

\* Characters are copied from the ring to the user's buffer.
LEMMA CopiedChars ==
  ASSUME Inv, rx.base = Ring, NEW n \in Nat, n <= ReducedCount,
         NEW u \in Nat, u = InUserBuffer,
         NEW i \in 1 .. u + n, i - 1 \in Slots
  PROVE  Copied(user[current], u, n)[i - 1] = PendingAt(i)
<1>1. CASE i <= u
  <2>1. i - 1 \notin u .. u + n - 1
    BY <1>1
  <2> QED
    BY <1>1, <2>1 DEF Copied, PendingAt
<1>2. CASE ~ (i <= u)
  <2>1. i - 1 \in u .. u + n - 1 /\ i - 1 - u = i - u - 1
    BY <1>2
  <2> QED
    BY <1>2, <2>1 DEF Copied, PendingAt
<1> QED
  BY <1>1, <1>2

LEMMA StreamCopies ==
  ASSUME Inv, Inv', rx.base = Ring, current \in Reqs,
         arrived' = arrived, delivered' = delivered, ring' = ring,
         rx'.size = rx.size, current' = current,
         NEW u \in Nat, u = InUserBuffer,
         NEW n \in Nat, n <= ReducedCount,
         rx'.first = FirstAfter(n),
         rx'.last = rx.last \/ n = ReducedCount,
         user'[current] = Copied(user[current], u, n),
         InUserBuffer' = u + n, ReducedCount' = ReducedCount - n
  PROVE  Stream!Next
<1>1. /\ rx.first \in Nat /\ rx.last \in Nat /\ rx.first <= rx.last
      /\ ReducedCount \in 0 .. rx.count /\ rx.count \in 0 .. rx.last + 1
  BY RingFacts
<1>2. PICK k \in Nat : k = ReducedCount
  BY <1>1
<1>3. /\ n <= k /\ k <= rx.last + 1
  BY <1>1, <1>2
<1>4. u + n > 0 => u + n - 1 \in Slots
  <2>1. InUserBuffer' > 0 => InUserBuffer' - 1 \in Slots
    BY InUserBufferFactsNext DEF InUserBufferTrue
  <2> QED
    BY <2>1
<1>5. ASSUME NEW i \in 1 .. u + k
      PROVE  PendingAt(i)' = PendingAt(i)
  <2>1. CASE i <= u + n
    <3>1. i - 1 \in Nat /\ i - 1 <= u + n - 1 /\ i \in 1 .. u + n
      BY <2>1
    <3>2. i - 1 \in Slots
      BY <1>4, <3>1, SlotFacts
    <3>3. Copied(user[current], u, n)[i - 1] = PendingAt(i)
      BY <1>2, <1>3, <3>1, <3>2, CopiedChars
    <3>4. PendingAt(i)' = user'[current][i - 1]
      BY <2>1 DEF PendingAt
    <3> QED
      BY <3>3, <3>4
  <2>2. CASE ~ (i <= u + n)
    <3>1. PICK j \in Nat : j = i - (u + n) - 1
      BY <2>2
    <3>2. n + j = i - u - 1 /\ n + j < k /\ n # k /\ ~ (i <= u)
      BY <2>2, <3>1
    <3>3. n + j <= rx.last
      BY <1>1, <1>3, <3>2
    <3>4. rx'.last = rx.last
      BY <1>2, <3>2
    <3>5. ReadableChar(j)' = ReadableChar(n + j)
      BY <1>1, <3>3, <3>4, TakenChars
    <3>6. PendingAt(i)' = ReadableChar(j)'
      BY <2>2, <3>1 DEF PendingAt, ReadableChar, FirstTry
    <3>7. PendingAt(i) = ReadableChar(n + j)
      BY <3>2 DEF PendingAt
    <3> QED
      BY <3>5, <3>6, <3>7
  <2> QED
    BY <2>1, <2>2
<1>6. InUserBuffer' + ReducedCount' = InUserBuffer + ReducedCount
  BY <1>2, <1>3
<1>7. InUserBuffer + ReducedCount = u + k /\ InUserBuffer' >= InUserBuffer
  BY <1>2
<1> QED
  BY <1>5, <1>6, <1>7, StreamStays

\* The current request is gone, with its characters: they were delivered with
\* it, or lost because it was aborted.  Those in the ring are next.
LEMMA StreamCompletes ==
  ASSUME Inv, Inv', arrived' = arrived, rx'.size = rx.size,
         InUserBuffer' = 0, ReducedCount' = ReducedCount,
         ReducedCount # 0 =>
           rx'.first = rx.first /\ rx'.last = rx.last /\ ring' = ring,
         \/ Aborting /\ delivered' = delivered
         \/ delivered' = delivered \o
              [i \in 1 .. InUserBuffer |-> user[current][i - 1]]
  PROVE  Stream!Next
<1>1. InUserBuffer \in Nat /\ ReducedCount \in Nat
  BY PendingFacts DEF PendingTrue
<1>2. PICK u \in Nat : u = InUserBuffer
  BY <1>1
<1>3. PICK k \in Nat : k = ReducedCount
  BY <1>1
<1>4. ASSUME NEW i \in 1 .. k
      PROVE  PendingAt(i)' = PendingAt(i + u)
  <2>1. k # 0 /\ ~ (i <= 0) /\ ~ (i + u <= u)
    OBVIOUS
  <2>2. rx'.first = rx.first /\ rx'.last = rx.last /\ ring' = ring
    BY <1>3, <2>1
  <2>3. PICK j \in Nat : j = i - 1
    OBVIOUS
  <2>4. i - 0 - 1 = j /\ i + u - u - 1 = j
    BY <2>3
  <2>5. PendingAt(i)' = ReadableChar(j)'
    BY <2>1, <2>4 DEF PendingAt, ReadableChar, FirstTry
  <2>6. PendingAt(i + u) = ReadableChar(j)
    BY <1>2, <2>1, <2>4 DEF PendingAt
  <2>7. ReadableChar(j)' = ReadableChar(j)
    BY <2>2 DEF ReadableChar, FirstTry
  <2> QED
    BY <2>5, <2>6, <2>7
<1>5. PICK l \in Nat : l = u + k
  OBVIOUS
<1>6. l = InUserBuffer + ReducedCount /\ l - u = k /\ u <= l
      /\ u >= InUserBuffer /\ InUserBuffer' + ReducedCount' = k
  BY <1>2, <1>3, <1>5
<1>7. CASE Aborting /\ delivered' = delivered
  <2>1. l - u - 0 = k /\ u + 0 <= l
    BY <1>6
  <2>2. Discards(l, u, 0)
    BY <1>4, <1>6, <2>1 DEF Discards
  <2>3. Pending' = SubSeq(Pending, u + 1, Len(Pending))
    <3>1. Pending' = SubSeq(Pending, u + 1, l - 0) /\ Len(Pending) = l
      BY <2>2, WhatIsDiscarded
    <3>2. l - 0 = l
      OBVIOUS
    <3> QED
      BY <3>1, <3>2
  <2>4. Stream!Abort
    BY <1>2, <1>7, <2>3 DEF Stream!Abort
  <2> QED
    BY <2>4, StreamStep
<1>8. CASE delivered' = delivered \o
              [i \in 1 .. InUserBuffer |-> user[current][i - 1]]
  <2> DEFINE slots == user[current]
  <2>1. \A i \in 1 .. u : slots[i - 1] = PendingAt(i)
    BY <1>2 DEF PendingAt
  <2>2. delivered' = delivered \o [i \in 1 .. u |-> slots[i - 1]]
    BY <1>2, <1>8
  <2>3. /\ InUserBuffer' + ReducedCount' = l - u
        /\ \A i \in 1 .. l - u : PendingAt(i)' = PendingAt(i + u)
    BY <1>4, <1>6
  <2>4. Delivers(l, u, slots)
    BY <1>6, <2>1, <2>2, <2>3 DEF Delivers
  <2> HIDE DEF slots
  <2> QED
    BY <2>4, StreamDelivers
<1> QED
  BY <1>7, <1>8

\* The next request has no characters yet.
LEMMA FreshInUser ==
  ASSUME NEW then, NextIsFresh(then), rx'.base = Ring
  PROVE  InUserBuffer' = 0
<1>1. Ring \notin Reqs
  BY RxAssumption
<1> QED
  BY <1>1 DEF NextIsFresh, InUserBuffer

LEMMA NothingAppended ==
  ASSUME NEW S, NEW s \in Seq(S), NEW slots
  PROVE  s \o [i \in 1 .. 0 |-> slots[i - 1]] = s
<1>1. [i \in 1 .. 0 |-> slots[i - 1]] = <<>>
  OBVIOUS
<1>2. s \o <<>> = s
  OBVIOUS
<1> QED
  BY <1>1, <1>2

\* The characters of the current request are still counted the same.
LEMMA StreamKept ==
  ASSUME Inv, Inv', current' = current,
         UNCHANGED <<user, arrived, delivered>>,
         rx'.size = rx.size,
         InUserBuffer' = InUserBuffer, ReducedCount' = ReducedCount,
         ReducedCount # 0 => rx' = rx /\ ring' = ring
  PROVE  Stream!Next
<1>1. InUserBuffer \in Nat /\ ReducedCount \in Nat
  BY PendingFacts DEF PendingTrue
<1>2. ASSUME NEW i \in 1 .. InUserBuffer + ReducedCount
      PROVE  PendingAt(i)' = PendingAt(i)
  <2>1. CASE i <= InUserBuffer
    BY <2>1 DEF PendingAt
  <2>2. CASE ~ (i <= InUserBuffer)
    <3>1. rx' = rx /\ ring' = ring
      BY <1>1, <2>2
    <3>2. PendingAt(i)' = ReadableChar(i - InUserBuffer - 1)'
      BY <2>2 DEF PendingAt
    <3>3. PendingAt(i) = ReadableChar(i - InUserBuffer - 1)
      BY <2>2 DEF PendingAt
    <3> QED
      BY <3>1, <3>2, <3>3 DEF ReadableChar, FirstTry
  <2> QED
    BY <2>1, <2>2
<1> QED
  BY <1>1, <1>2, StreamStays

\* Whatever is read by SerialTryToCompleteCurrent, nothing is lost unless the
\* request is cancelled: what SerialGrabReadFromIsr counts is what it has.
LEMMA StreamTries ==
  ASSUME Inv, Inv', current \in Reqs, ~ Starting,
         NEW synch \in BOOLEAN, NEW status, NEW ref \in RefTypes, NEW int,
         NEW tot, NEW then \in {"free", "clear"},
         SerialTryToCompleteCurrent(synch, status, ref, int, tot, then),
         synch <=> ref # "isr",
         ref = "isr" => ~ OwnedByIsr,
         status = "cancelled" => Aborting,
         start' = start
  PROVE  Stream!Next
<1>1. /\ RxTypeOK /\ RequestTypeOK /\ ControlTypeOK /\ QueueInv
      /\ asked \subseteq {current}
  BY BusyFacts
<1>2. /\ RingInv /\ ctx[current] \in CtxType /\ ctx \in [Reqs -> CtxType]
      /\ Ring \notin Reqs /\ NoReq \notin Reqs
      /\ user \in [Reqs -> [Slots -> Chars]] /\ pc # "resize"
      /\ delivered \in Seq(Chars)
  BY <1>1, RxAssumption DEF Inv, RequestTypeOK, RxTypeOK, Starting
<1>3. /\ rx' = IF synch /\ OwnedByIsr THEN SwitchToRing ELSE rx
      /\ UNCHANGED <<ring, arrived>>
  BY Zenon DEF SerialTryToCompleteCurrent
<1>4. PICK left \in CtxType :
        LeftByTry(left, synch, status, ref, int, tot, then)
  <2> HIDE DEF Inv
  <2> QED
    BY <1>1, <1>2, TryFacts
<1>5. InUserBuffer \in Nat /\ ReducedCount \in Nat
  BY PendingFacts DEF PendingTrue
<1>6. PICK u \in Nat : u = InUserBuffer
  BY <1>5
<1>7. left.info = u
  <2>1. left.info = IF synch /\ OwnedByIsr THEN rx.cur ELSE ctx[current].info
    BY <1>4 DEF LeftByTry
  <2> QED
    BY <1>2, <1>6, <2>1 DEF InUserBuffer, OwnedByIsr, RingInv
<1>8. /\ rx'.base = Ring /\ rx'.size = rx.size
      /\ ReducedCount' = ReducedCount
      /\ ReducedCount # 0 => rx' = rx /\ ring' = ring
  <2>1. CASE OwnedByIsr
    <3>1. rx' = SwitchToRing
      BY <1>3, <2>1
    <3>2. rx.size > 0 /\ rx.count = 0 /\ ReducedCount = 0
      <4>1. rx.size > 0 /\ rx.count = 0
        BY <1>2, <2>1 DEF RingInv, OwnedByIsr
      <4> QED
        BY <2>1, <4>1, InUserBufferFacts DEF InUserBufferTrue, OwnedByIsr
    <3>3. rx'.base = Ring /\ rx'.size = rx.size /\ rx'.count = 0
      BY <1>1, <3>1, <3>2, SwitchToRingFacts
    <3> QED
      BY <3>2, <3>3 DEF ReducedCount
  <2>2. CASE ~ OwnedByIsr
    BY <1>3, <2>2 DEF OwnedByIsr, ReducedCount
  <2> QED
    BY <2>1, <2>2
<1>9. CASE left.refs = {}
  <2>1. PICK c \in CtxType :
          /\ c.info = IF status = "cancelled" THEN 0 ELSE left.info
          /\ CompleteAndNext(c, user[current], then)
    BY <1>4, <1>9 DEF LeftByTry
  <2>2. NextIsFresh(then)
    <3> HIDE DEF Inv
    <3> QED
      BY <1>1, <1>2, <2>1, CompleteFacts
  <2>3. InUserBuffer' = 0
    BY <1>8, <2>2, FreshInUser
  <2>4. delivered' = delivered \o [i \in 1 .. c.info |-> user[current][i - 1]]
    BY <2>1 DEF CompleteAndNext
  <2>5. \/ Aborting /\ delivered' = delivered
        \/ delivered' = delivered \o
             [i \in 1 .. InUserBuffer |-> user[current][i - 1]]
    <3>1. CASE status = "cancelled"
      BY <1>2, <2>1, <2>4, <3>1, NothingAppended
    <3>2. CASE status # "cancelled"
      BY <1>6, <1>7, <2>1, <2>4, <3>2
    <3> QED
      BY <3>1, <3>2
  <2> QED
    BY <1>3, <1>8, <2>3, <2>5, StreamCompletes
<1>10. CASE left.refs # {}
  <2>1. /\ ctx' = [ctx EXCEPT ![current] = left] /\ pc' = then
        /\ UNCHANGED <<completions, delivered, asked, current, queue, user>>
    BY <1>4, <1>10 DEF LeftByTry
  <2>2. InUserBuffer' = u
    BY <1>2, <1>7, <1>8, <2>1 DEF InUserBuffer
  <2> QED
    BY <1>3, <1>6, <1>8, <2>1, <2>2, StreamKept
<1> QED
  BY <1>9, <1>10

(***************************************************************************)
(* The steps of the driver                                                 *)
(***************************************************************************)

\* SerialPutChar: the character is behind all others, in the user's buffer or
\* in the ring, unless the ring is full.
LEMMA StreamPutChar ==
  ASSUME Inv, Inv', PutChar
  PROVE  Stream!Next
<1>1. /\ arrived' = arrived + 1
      /\ IF OwnedByIsr THEN PutUser ELSE PutRing
      /\ ctx' = IF UserBufferFull
                  THEN [ctx EXCEPT ![current].info = ctx[current].len] ELSE ctx
      /\ UNCHANGED <<queue, current, delivered, pc, start>>
  BY Zenon DEF PutChar
<1>2. /\ RxTypeOK /\ RequestTypeOK /\ StartInv /\ RingInv
      /\ NoReq \notin Reqs /\ Ring \notin Reqs
  BY BusyFacts, RxAssumption DEF Inv
<1>3. /\ rx \in RxType /\ ring \in [Slots -> Chars]
      /\ user \in [Reqs -> [Slots -> Chars]]
      /\ rx.cur \in Slots /\ rx.cur \in Nat
      /\ ctx \in [Reqs -> CtxType]
  BY <1>2, SlotFacts DEF RxTypeOK, RxType, RequestTypeOK
<1>4. InUserBuffer \in Nat /\ ReducedCount \in Nat
  BY PendingFacts DEF PendingTrue
<1>5. PICK u \in Nat : u = InUserBuffer
  BY <1>4
<1>6. PICK k \in Nat : k = ReducedCount
  BY <1>4
<1>7. PICK l \in Nat : l = u + k
  OBVIOUS
<1>8. CASE OwnedByIsr
  <2>1. /\ user' = [user EXCEPT ![rx.base][rx.cur] = arrived']
        /\ rx' = IF UserBufferFull THEN SwitchToRing
                                   ELSE [rx EXCEPT !.cur = Advanced]
    BY <1>1, <1>8 DEF PutUser
  <2>2. /\ rx.base = current /\ current \in Reqs /\ rx.count = 0
        /\ rx.size > 0 /\ rx.last = ctx[current].len - 1
        /\ ctx[current] \in CtxType
        /\ u = rx.cur /\ k = 0 /\ l = rx.cur
    <3>1. rx.base = current /\ rx.count = 0 /\ rx.size > 0
          /\ rx.last = ctx[current].len - 1
      BY <1>2, <1>8 DEF RingInv, OwnedByIsr
    <3>2. current \in Reqs /\ u = rx.cur /\ k = 0
      BY <1>5, <1>6, <1>8, InUserBufferFacts DEF InUserBufferTrue, OwnedByIsr
    <3> QED
      BY <1>3, <1>7, <3>1, <3>2
  <2>3. /\ user'[current][l] = arrived'
        /\ \A i \in 1 .. l : user'[current][i - 1] = user[current][i - 1]
    BY <1>3, <2>1, <2>2
  <2>4. /\ InUserBuffer' = l + 1 /\ rx'.size = rx.size
        /\ rx'.count = 0
    <3>1. CASE UserBufferFull
      <4>1. rx' = SwitchToRing
            /\ ctx' = [ctx EXCEPT ![current].info = ctx[current].len]
        BY <1>1, <2>1, <3>1
      <4>2. rx'.base = Ring /\ rx'.size = rx.size /\ rx'.count = 0
        BY <1>2, <2>2, <4>1, SwitchToRingFacts
      <4>3. ctx'[current].info = ctx[current].len
        BY <1>3, <2>2, <4>1 DEF CtxType
      <4>4. pc' # "resize"
        BY <1>1, <1>8, BusyFacts DEF OwnedByIsr
      <4>5. ctx[current].len = l + 1
        <5>1. rx.cur = rx.last /\ ctx[current].len \in Int
          BY <2>2, <3>1, SlotFacts DEF UserBufferFull, CtxType
        <5> QED
          BY <1>3, <2>2, <5>1
      <4> QED
        BY <1>1, <1>2, <2>2, <4>2, <4>3, <4>4, <4>5 DEF InUserBuffer
    <3>2. CASE ~ UserBufferFull
      <4>1. rx' = [rx EXCEPT !.cur = Advanced] /\ Advanced = rx.cur + 1
        BY <1>8, <2>1, <3>2 DEF UserBufferFull, Advanced
      <4>2. /\ rx'.base = rx.base /\ rx'.count = rx.count
            /\ rx'.size = rx.size /\ rx'.cur = rx.cur + 1
        BY <1>3, <4>1 DEF RxType
      <4> QED
        BY <1>1, <1>2, <2>2, <4>2 DEF InUserBuffer
    <3> QED
      BY <3>1, <3>2
  <2>5. ReducedCount' = 0
    BY <1>1, <1>6, <2>2, <2>4 DEF ReducedCount
  <2>6. ASSUME NEW i \in 1 .. l
        PROVE  PendingAt(i)' = PendingAt(i)
    <3>1. i <= InUserBuffer /\ i <= InUserBuffer'
      BY <1>5, <2>2, <2>4
    <3> QED
      BY <1>1, <2>3, <3>1 DEF PendingAt
  <2>7. PICK last : last = l + 1
    OBVIOUS
  <2>8. PendingAt(last)' = arrived'
    <3>1. last <= InUserBuffer' /\ last - 1 = l
      BY <2>4, <2>7
    <3> QED
      BY <1>1, <2>3, <3>1 DEF PendingAt
  <2>9. InUserBuffer' + ReducedCount' = l + 1
    BY <2>4, <2>5
  <2>10. l = InUserBuffer + ReducedCount /\ InUserBuffer = l
    BY <1>5, <1>6, <1>7, <2>2
  <2> QED
    BY <1>1, <2>4, <2>6, <2>7, <2>8, <2>9, <2>10, StreamReceives
<1>9. CASE ~ OwnedByIsr
  <2>1. rx.base = Ring /\ user' = user /\ ctx' = ctx
    BY <1>1, <1>9 DEF PutRing, OwnedByIsr, UserBufferFull
  <2>2. /\ rx.first \in Nat /\ rx.last \in Nat /\ rx.first <= rx.last
        /\ rx.count \in 0 .. rx.last + 1 /\ rx.size = rx.last + 1
        /\ start.copied \in Nat /\ start.copied <= rx.count
        /\ rx.cur = FirstAfter(k)
    BY <1>6, <2>1, RingFacts
  <2>3. CASE RoomInRing
    <3>1. /\ ring' = [ring EXCEPT ![rx.cur] = arrived']
          /\ rx' = [rx EXCEPT !.cur = Advanced, !.count = @ + 1]
      BY <1>1, <1>9, <2>3 DEF PutRing
    <3>2. /\ rx'.base = Ring /\ rx'.first = rx.first /\ rx'.last = rx.last
          /\ rx'.size = rx.size /\ rx'.count = rx.count + 1
      BY <1>3, <2>1, <3>1 DEF RxType
    <3>3. InUserBuffer' = u /\ ReducedCount' = k + 1
      <4>1. InUserBuffer' = u
        <5>1. current \in Reqs \cup {NoReq}
          BY <1>2 DEF RequestTypeOK
        <5> QED
          BY <1>1, <1>2, <1>5, <2>1, <3>2, <5>1 DEF InUserBuffer
      <4> QED
        BY <1>1, <1>6, <2>2, <3>2, <4>1 DEF ReducedCount
    <3>4. k <= rx.last
      BY <1>6, <2>2, <2>3 DEF RoomInRing, ReducedCount
    <3>5. \A j : FirstAfter(j)' = FirstAfter(j)
      BY <3>2 DEF FirstAfter, FirstTry
    <3>6. ASSUME NEW i \in 1 .. l
          PROVE  PendingAt(i)' = PendingAt(i)
      <4>1. CASE i <= u
        BY <1>1, <1>5, <2>1, <3>3, <4>1 DEF PendingAt
      <4>2. CASE ~ (i <= u)
        <5>1. PICK j \in Nat : j = i - u - 1
          BY <4>2
        <5>2. j < k
          BY <1>7, <5>1
        <5>3. FirstAfter(j) # rx.cur
          <6>1. j \in 0 .. rx.last /\ k \in 0 .. rx.last /\ j # k
            BY <2>2, <3>4, <5>2
          <6> QED
            BY <2>2, <6>1, FirstAfterDistinct
        <5>4. ring'[FirstAfter(j)] = ring[FirstAfter(j)]
          BY <1>3, <3>1, <5>3
        <5>5. ReadableChar(j)' = ReadableChar(j)
          BY <3>5, <5>4, ReadableSlot, ReadableSlotNext
        <5>6. PendingAt(i)' = ReadableChar(j)'
          BY <3>3, <4>2, <5>1 DEF PendingAt, ReadableChar, FirstTry
        <5>7. PendingAt(i) = ReadableChar(j)
          BY <1>5, <4>2, <5>1 DEF PendingAt
        <5> QED
          BY <5>5, <5>6, <5>7
      <4> QED
        BY <4>1, <4>2
    <3>7. PICK last : last = l + 1
      OBVIOUS
    <3>8. PendingAt(last)' = arrived'
      <4>1. ~ (last <= u) /\ last - u - 1 = k
        BY <1>7, <3>7
      <4>2. PendingAt(last)' = ReadableChar(k)'
        BY <3>3, <4>1 DEF PendingAt, ReadableChar, FirstTry
      <4>3. ring'[rx.cur] = arrived'
        BY <1>3, <3>1
      <4> QED
        BY <2>2, <3>5, <4>2, <4>3, ReadableSlotNext
    <3>9. InUserBuffer' + ReducedCount' = l + 1
      BY <1>7, <3>3
    <3>10. l = InUserBuffer + ReducedCount /\ InUserBuffer' = InUserBuffer
      BY <1>5, <1>6, <1>7, <3>3
    <3> QED
      BY <1>1, <3>2, <3>6, <3>7, <3>8, <3>9, <3>10, StreamReceives
  <2>4. CASE ~ RoomInRing
    <3>1. rx' = rx /\ ring' = ring
      BY <1>1, <1>9, <2>4 DEF PutRing
    <3>2. Pending' = Pending /\ InUserBuffer' = InUserBuffer
      <4>1. InUserBuffer' = InUserBuffer /\ ReducedCount' = ReducedCount
        BY <1>1, <2>1, <3>1 DEF InUserBuffer, ReducedCount
      <4> QED
        BY <1>1, <2>1, <3>1, <4>1 DEF Pending, ReadableChar, FirstTry
    <3>3. u >= start.copied
      <4>1. CASE pc \in {"update", "switch", "resize"}
        BY <1>2, <1>5, <2>1, <4>1, BusyFacts DEF StartInv, InUserBuffer
      <4>2. CASE pc \notin {"update", "switch", "resize"}
        BY <1>2, <4>2 DEF StartInv
      <4> QED
        BY <4>1, <4>2
    <3>4. Len(Pending) >= rx.size
      <4>1. Len(Pending) = u + (rx.count - start.copied)
        BY <1>5, PendingFacts DEF PendingTrue, ReducedCount
      <4>2. rx.count >= rx.size
        BY <2>2, <2>4 DEF RoomInRing
      <4> QED
        BY <2>2, <3>3, <4>1, <4>2
    <3>5. Stream!Lose
      BY <1>1, <3>1, <3>2, <3>4 DEF Stream!Lose
    <3> QED
      BY <3>5, StreamStep
  <2> QED
    BY <2>3, <2>4
<1> QED
  BY <1>8, <1>9

\* SerialStartRead: what is in the ring is copied.
LEMMA StreamStartCopy ==
  ASSUME Inv, Inv', StartCopy
  PROVE  Stream!Next
<1>1. pc = "start"
  BY DEF StartCopy
<1>2. /\ rx.base = Ring /\ current \in Reqs /\ ctx[current] \in CtxType
      /\ ctx \in [Reqs -> CtxType] /\ user \in [Reqs -> [Slots -> Chars]]
      /\ NoReq \notin Reqs /\ Ring \notin Reqs
  BY <1>1, BusyFacts, RxAssumption DEF RequestTypeOK, RxTypeOK
<1>3. start.copied = 0 /\ ctx[current].info = 0
  BY <1>1 DEF Inv, StartInv
<1>4. rx \in RxType /\ rx.count \in Nat /\ ReducedCount = rx.count
  BY <1>2, <1>3, RingFacts DEF ReducedCount
<1> DEFINE len == ctx[current].len
<1>5. len \in Nat
  BY <1>2, SlotFacts DEF CtxType
<1>6. PICK n \in Nat : n = CharsToGet(len) /\ n <= rx.count
  <2> HIDE DEF len
  <2> QED
    BY <1>4, <1>5 DEF CharsToGet, Smaller
<1>7. /\ user' = [user EXCEPT ![current] = Copied(@, 0, n)]
      /\ rx' = [rx EXCEPT !.first = FirstAfter(n)]
      /\ UNCHANGED <<ring, arrived, current, delivered>>
  BY <1>6 DEF StartCopy
<1>8. PICK m \in Modes :
        IF m.now \/ n = len \/ (m.some /\ n > 0)
          THEN /\ pc' = "update"
               /\ start' = [mode |-> m, needed |-> len - n, copied |-> n]
               /\ ctx' = [ctx EXCEPT ![current].info = n]
          ELSE /\ pc' = "switch"
               /\ start' = [mode |-> m, copied |-> n,
                            needed |-> IF m.one THEN 1 ELSE len - n]
               /\ ctx' = [ctx EXCEPT ![current].info = n,
                            ![current].refs = {},
                            ![current].len = IF m.one THEN 1 ELSE @]
  BY <1>6 DEF StartCopy
<1>9. /\ pc' # "resize" /\ start'.copied = n
      /\ ctx'[current].info = n
  <2>1. CASE m.now \/ n = len \/ (m.some /\ n > 0)
    BY <1>2, <1>8, <2>1 DEF CtxType
  <2>2. CASE ~ (m.now \/ n = len \/ (m.some /\ n > 0))
    BY <1>2, <1>8, <2>2 DEF CtxType
  <2> QED
    BY <2>1, <2>2
<1>10. /\ rx'.base = Ring /\ rx'.first = FirstAfter(n) /\ rx'.last = rx.last
       /\ rx'.count = rx.count /\ rx'.size = rx.size
  BY <1>2, <1>4, <1>7 DEF RxType
<1>11. PICK u \in Nat : u = 0
  OBVIOUS
<1>12. u = InUserBuffer /\ InUserBuffer' = u + n
  BY <1>1, <1>2, <1>3, <1>7, <1>9, <1>10, <1>11 DEF InUserBuffer
<1>13. ReducedCount' = ReducedCount - n /\ n <= ReducedCount
  BY <1>4, <1>6, <1>9, <1>10 DEF ReducedCount
<1>14. user'[current] = Copied(user[current], u, n)
  BY <1>2, <1>7, <1>11
<1> QED
  BY <1>2, <1>7, <1>10, <1>12, <1>13, <1>14, StreamCopies

\* The read returns with what was copied.
LEMMA StreamStartUpdate ==
  ASSUME Inv, Inv', StartUpdate
  PROVE  Stream!Next
<1>1. /\ pc = "update" /\ rx' = [rx EXCEPT !.count = ReducedCount]
      /\ CompleteAndNext(ctx[current], user[current], "free")
      /\ start' = NoStart /\ UNCHANGED <<ring, arrived>>
  BY DEF StartUpdate
<1>2. /\ rx.base = Ring /\ current \in Reqs /\ ctx[current] \in CtxType
      /\ user \in [Reqs -> [Slots -> Chars]]
      /\ RequestTypeOK /\ QueueInv /\ asked \subseteq {current}
      /\ NoReq \notin Reqs /\ Ring \notin Reqs
  BY <1>1, BusyFacts, RxAssumption DEF RxTypeOK
<1>3. /\ rx \in RxType /\ ReducedCount \in Nat
      /\ InUserBuffer = ctx[current].info
  BY <1>1, <1>2, RingFacts DEF InUserBuffer
<1>4. /\ rx'.base = Ring /\ rx'.first = rx.first /\ rx'.last = rx.last
      /\ rx'.size = rx.size /\ rx'.count = ReducedCount
  BY <1>1, <1>2, <1>3 DEF RxType
<1>5. NextIsFresh("free")
  <2> HIDE DEF Inv
  <2> QED
    BY <1>1, <1>2, CompleteFacts
<1>6. InUserBuffer' = 0
  BY <1>4, <1>5, FreshInUser
<1>7. ReducedCount' = ReducedCount
  BY <1>1, <1>3, <1>4, NoStartFacts DEF ReducedCount
<1>8. delivered' = delivered \o
        [i \in 1 .. InUserBuffer |-> user[current][i - 1]]
  BY <1>1, <1>3 DEF CompleteAndNext
<1> QED
  BY <1>1, <1>4, <1>6, <1>7, <1>8, StreamCompletes

\* The request has all that it asked for when n characters were copied behind
\* the u ones that it had.
CopiesLast(u, n, slots) ==
  /\ u \in Nat /\ u = InUserBuffer
  /\ n \in Nat /\ n <= ReducedCount /\ u + n <= MaxLen
  /\ rx'.first = FirstAfter(n) /\ rx'.last = rx.last /\ rx'.size = rx.size
  /\ slots = Copied(user[current], u, n)
  /\ delivered' = delivered \o [i \in 1 .. u + n |-> slots[i - 1]]
  /\ InUserBuffer' = 0 /\ ReducedCount' = ReducedCount - n

LEMMA StreamCopiesLast ==
  ASSUME Inv, Inv', rx.base = Ring, current \in Reqs,
         arrived' = arrived, ring' = ring,
         NEW u, NEW n, NEW slots, CopiesLast(u, n, slots)
  PROVE  Stream!Next
<1> USE DEF CopiesLast
<1>1. /\ rx.first \in Nat /\ rx.last \in Nat /\ rx.first <= rx.last
      /\ ReducedCount \in 0 .. rx.count /\ rx.count \in 0 .. rx.last + 1
      /\ MaxLen \in Nat
  BY RingFacts, SlotFacts
<1>2. PICK k \in Nat : k = ReducedCount
  BY <1>1
<1>3. PICK l \in Nat : l = u + k
  OBVIOUS
<1>4. PICK d \in Nat : d = u + n
  OBVIOUS
<1>5. /\ l = InUserBuffer + ReducedCount /\ d <= l /\ l - d = k - n
      /\ InUserBuffer' + ReducedCount' = l - d /\ d <= MaxLen
      /\ k <= rx.last + 1 /\ d >= InUserBuffer /\ InUserBuffer' = 0
  BY <1>1, <1>2, <1>3, <1>4
<1>6. ASSUME NEW i \in 1 .. d
      PROVE  slots[i - 1] = PendingAt(i)
  <2>1. i \in 1 .. u + n /\ i \in 1 .. MaxLen
    BY <1>1, <1>4, <1>5
  <2>2. i - 1 \in Slots
    BY <2>1, SlotFacts
  <2> QED
    BY <2>1, <2>2, CopiedChars
<1>7. ASSUME NEW i \in 1 .. l - d
      PROVE  PendingAt(i)' = PendingAt(i + d)
  <2>1. PICK j \in Nat : j = i - 1
    OBVIOUS
  <2>2. i - 0 - 1 = j /\ ~ (i <= 0)
    BY <2>1
  <2>3. PICK m \in Nat : m = i + d
    OBVIOUS
  <2>4. m - u - 1 = n + j /\ ~ (m <= u)
    BY <1>4, <2>1, <2>3
  <2>5. n + j <= rx.last
    BY <1>1, <1>5, <2>1
  <2>6. PendingAt(i)' = ReadableChar(j)'
    BY <2>2 DEF PendingAt, ReadableChar, FirstTry
  <2>7. PendingAt(m) = ReadableChar(n + j)
    BY <2>4 DEF PendingAt
  <2>8. ReadableChar(j)' = ReadableChar(n + j)
    BY <1>1, <2>5, TakenChars
  <2> QED
    BY <2>3, <2>6, <2>7, <2>8
<1>8. delivered' = delivered \o [i \in 1 .. d |-> slots[i - 1]]
  BY <1>4
<1>9. Delivers(l, d, slots)
  BY <1>5, <1>6, <1>7, <1>8 DEF Delivers
<1> QED
  BY <1>9, StreamDelivers

\* SerialUpdateAndSwitchToUser: the rest of the ring is copied, all of it
\* unless the read is complete.
LEMMA StreamStartSwitch ==
  ASSUME Inv, Inv', StartSwitch
  PROVE  Stream!Next
<1>1. pc = "switch"
  BY DEF StartSwitch
<1>2. /\ rx.base = Ring /\ current \in Reqs /\ ctx[current] \in CtxType
      /\ ctx \in [Reqs -> CtxType] /\ user \in [Reqs -> [Slots -> Chars]]
      /\ RequestTypeOK /\ QueueInv /\ asked \subseteq {current}
      /\ start \in StartType
      /\ NoReq \notin Reqs /\ Ring \notin Reqs
  BY <1>1, BusyFacts, RxAssumption DEF RequestTypeOK, RxTypeOK, ControlTypeOK
<1>3. /\ rx \in RxType /\ ReducedCount \in Nat
      /\ rx.first \in Nat /\ rx.last \in Nat /\ rx.first <= rx.last
      /\ ReducedCount <= rx.last + 1
  BY <1>2, RingFacts
<1> DEFINE len == ctx[current].len
           info == ctx[current].info
           needed == start.needed
<1>4. /\ info \in Nat /\ needed \in Nat /\ len \in 0 .. MaxLen
      /\ MaxLen \in Nat /\ info + needed = len
  <2>1. /\ info = start.copied /\ needed + start.copied = len
    BY <1>1 DEF Inv, StartInv
  <2>2. info \in Nat /\ needed \in Nat /\ len \in 0 .. MaxLen /\ MaxLen \in Nat
    BY <1>2, SlotFacts DEF CtxType, StartType
  <2> QED
    BY <2>1, <2>2
<1>5. PICK n \in Nat : /\ n = Smaller(ReducedCount, needed)
                       /\ n <= ReducedCount /\ n <= needed
                       /\ n = needed \/ n = ReducedCount
  <2> HIDE DEF needed
  <2> QED
    BY <1>3, <1>4 DEF Smaller
<1>6. PICK u \in Nat : u = info
  BY <1>4
<1>7. u = InUserBuffer /\ len - needed = u
  BY <1>1, <1>2, <1>4, <1>6 DEF InUserBuffer
<1> DEFINE filled == Copied(user[current], u, n)
           taken == [rx EXCEPT !.count = ReducedCount - n,
                               !.first = FirstAfter(n)]
<1>8. IF n = needed
        THEN /\ rx' = taken
             /\ CompleteAndNext([ctx[current] EXCEPT !.info = u + n], filled,
                                "free")
             /\ start' = NoStart
        ELSE /\ rx' = [taken EXCEPT !.base = current, !.cur = u + n,
                                   !.last = len - 1]
             /\ user' = [user EXCEPT ![current] = filled]
             /\ start' = [start EXCEPT !.copied = 0]
             /\ UNCHANGED <<delivered, current>>
  BY <1>5, <1>6, <1>7 DEF StartSwitch
<1>9. UNCHANGED <<ring, arrived>>
  BY DEF StartSwitch
<1> HIDE DEF len, info, needed
<1>10. CASE n # needed
  <2>1. /\ rx'.base = current /\ rx'.cur = u + n /\ rx'.first = FirstAfter(n)
        /\ rx'.count = ReducedCount - n /\ rx'.size = rx.size
        /\ start'.copied = 0 /\ current' = current /\ delivered' = delivered
    BY <1>2, <1>3, <1>8, <1>10 DEF RxType, StartType
  <2>2. InUserBuffer' = u + n
    BY <1>2, <2>1 DEF InUserBuffer
  <2>3. ReducedCount' = ReducedCount - n
    BY <1>3, <2>1 DEF ReducedCount
  <2>4. user'[current] = Copied(user[current], u, n)
    BY <1>2, <1>8, <1>10
  <2>5. n = ReducedCount
    BY <1>5, <1>10
  <2> QED
    BY <1>2, <1>5, <1>7, <1>9, <2>1, <2>2, <2>3, <2>4, <2>5, StreamCopies
<1>11. CASE n = needed
  <2>1. /\ rx' = taken
        /\ CompleteAndNext([ctx[current] EXCEPT !.info = u + n], filled,
                           "free")
        /\ start' = NoStart
    BY <1>8, <1>11
  <2>2. /\ rx'.base = Ring /\ rx'.first = FirstAfter(n) /\ rx'.last = rx.last
        /\ rx'.count = ReducedCount - n /\ rx'.size = rx.size
    BY <1>2, <1>3, <2>1 DEF RxType
  <2>3. u + n = len /\ u + n \in 0 .. MaxLen
    BY <1>4, <1>6, <1>11
  <2>4. [ctx[current] EXCEPT !.info = u + n] \in CtxType
        /\ [ctx[current] EXCEPT !.info = u + n].info = u + n
    <3>1. PICK v \in 0 .. MaxLen : v = u + n
      BY <2>3
    <3>2. [ctx[current] EXCEPT !.info = v] \in CtxType
          /\ [ctx[current] EXCEPT !.info = v].info = v
      BY <1>2 DEF CtxType
    <3> QED
      BY <3>1, <3>2
  <2>5. filled \in [Slots -> Chars]
    BY <1>2, <1>3, <1>5, CopiedType, BusyFacts
  <2>6. NextIsFresh("free")
    <3> HIDE DEF Inv, filled
    <3> QED
      BY <1>2, <2>1, <2>4, <2>5, CompleteFacts
  <2>7. InUserBuffer' = 0
    BY <2>2, <2>6, FreshInUser
  <2>8. ReducedCount' = ReducedCount - n
    BY <1>3, <2>1, <2>2, NoStartFacts DEF ReducedCount
  <2>9. delivered' = delivered \o [i \in 1 .. u + n |-> filled[i - 1]]
    BY <2>1, <2>4 DEF CompleteAndNext
  <2>10. PICK slots : slots = filled
    OBVIOUS
  <2>11. /\ slots = Copied(user[current], u, n)
         /\ delivered' = delivered \o [i \in 1 .. u + n |-> slots[i - 1]]
    BY <2>9, <2>10
  <2>12. u + n <= MaxLen
    BY <1>4, <2>3
  <2>13. CopiesLast(u, n, slots)
    BY <1>5, <1>7, <2>2, <2>7, <2>8, <2>11, <2>12 DEF CopiesLast
  <2> HIDE DEF filled, taken
  <2> QED
    BY <1>2, <1>9, <2>13, StreamCopiesLast
<1> QED
  BY <1>10, <1>11

\* SerialResizeBuffer: what is in the ring is moved, before the ISR is stopped,
\* unless the request does not ask for a larger buffer.
LEMMA StreamResizeMove ==
  ASSUME Inv, Inv', ResizeMove
  PROVE  Stream!Next
<1>1. /\ pc = "start"
      /\ UNCHANGED <<ring, arrived>>
      /\ IF NewSize <= rx.size
           THEN /\ CompleteAndNext(ctx[current], EmptySlots, "free")
                /\ UNCHANGED <<rx, start>>
           ELSE /\ user' = [user EXCEPT ![current] = Copied(@, 0, rx.count)]
                /\ rx' = [rx EXCEPT !.first = FirstAfter(rx.count)]
                /\ start' = [start EXCEPT !.copied = rx.count]
                /\ pc' = "resize"
                /\ UNCHANGED <<queue, current, ctx, completions, delivered,
                               asked>>
  BY DEF ResizeMove
<1>2. /\ rx.base = Ring /\ current \in Reqs /\ ctx[current] \in CtxType
      /\ user \in [Reqs -> [Slots -> Chars]] /\ start \in StartType
      /\ RequestTypeOK /\ QueueInv /\ asked \subseteq {current}
      /\ NoReq \notin Reqs /\ Ring \notin Reqs
  BY <1>1, BusyFacts, RxAssumption DEF RxTypeOK, ControlTypeOK
<1>3. start.copied = 0 /\ ctx[current].info = 0
  BY <1>1 DEF Inv, StartInv
<1>4. /\ rx \in RxType /\ rx.count \in Nat /\ ReducedCount = rx.count
      /\ rx.count \in 0 .. Larger(BufSize, NewSize)
  BY <1>2, <1>3, RingFacts DEF ReducedCount
<1>5. InUserBuffer = 0
  BY <1>1, <1>2, <1>3 DEF InUserBuffer
<1>6. CASE NewSize <= rx.size
  <2>1. /\ CompleteAndNext(ctx[current], EmptySlots, "free")
        /\ rx' = rx /\ start' = start
    BY <1>1, <1>6
  <2>2. NextIsFresh("free")
    <3> HIDE DEF Inv
    <3> QED
      BY <1>2, <2>1, SlotFacts, CompleteFacts
  <2>3. InUserBuffer' = 0
    BY <1>2, <2>1, <2>2, FreshInUser
  <2>4. delivered' = delivered \o
          [i \in 1 .. InUserBuffer |-> user[current][i - 1]]
    <3>1. delivered' = delivered \o [i \in 1 .. 0 |-> EmptySlots[i - 1]]
      BY <1>3, <2>1 DEF CompleteAndNext
    <3>2. delivered \in Seq(Chars)
      BY <1>2 DEF RequestTypeOK
    <3> QED
      BY <1>5, <3>1, <3>2, NothingAppended
  <2>5. ReducedCount' = ReducedCount
    BY <2>1 DEF ReducedCount
  <2> QED
    BY <1>1, <2>1, <2>3, <2>4, <2>5, StreamCompletes
<1>7. CASE ~ (NewSize <= rx.size)
  <2>1. /\ user' = [user EXCEPT ![current] = Copied(@, 0, rx.count)]
        /\ rx' = [rx EXCEPT !.first = FirstAfter(rx.count)]
        /\ start' = [start EXCEPT !.copied = rx.count]
        /\ pc' = "resize" /\ current' = current /\ delivered' = delivered
    BY <1>1, <1>7
  <2>2. PICK n \in Nat : n = rx.count
    BY <1>4
  <2>3. PICK u \in Nat : u = 0
    OBVIOUS
  <2>4. /\ rx'.base = Ring /\ rx'.first = FirstAfter(n) /\ rx'.last = rx.last
        /\ rx'.count = n /\ rx'.size = rx.size
    BY <1>2, <1>4, <2>1, <2>2 DEF RxType
  <2>5. start'.copied = n
    BY <1>2, <2>1, <2>2 DEF StartType
  <2>6. u = InUserBuffer /\ InUserBuffer' = u + n
    BY <1>2, <1>5, <2>1, <2>3, <2>4, <2>5 DEF InUserBuffer
  <2>7. n <= ReducedCount /\ ReducedCount' = ReducedCount - n
    BY <1>4, <2>2, <2>4, <2>5 DEF ReducedCount
  <2>8. user'[current] = Copied(user[current], u, n)
    BY <1>2, <2>1, <2>2, <2>3
  <2> QED
    BY <1>1, <1>2, <2>1, <2>4, <2>6, <2>7, <2>8, StreamCopies
<1> QED
  BY <1>6, <1>7

\* SerialUpdateAndSwitchToNew: the characters are in the new buffer, in the
\* same order, and there is more room.
LEMMA StreamResizeSwitch ==
  ASSUME Inv, Inv', ResizeSwitch
  PROVE  Stream!Next
<1>1. /\ pc = "resize"
      /\ ring' = Copied(user[current], start.copied, ReducedCount)
      /\ rx' = [rx EXCEPT !.cur = rx.count, !.last = NewSize - 1,
                          !.first = 0, !.size = NewSize]
      /\ CompleteAndNext(ctx[current], EmptySlots, "free")
      /\ start' = NoStart /\ arrived' = arrived
  BY DEF ResizeSwitch, NewCurrentSlot
<1>2. /\ rx.base = Ring /\ current \in Reqs /\ ctx[current] \in CtxType
      /\ user \in [Reqs -> [Slots -> Chars]]
      /\ RequestTypeOK /\ QueueInv /\ asked \subseteq {current}
      /\ NoReq \notin Reqs /\ Ring \notin Reqs
  BY <1>1, BusyFacts, RxAssumption DEF RxTypeOK
<1>3. ctx[current].info = 0 /\ rx.size < NewSize
  BY <1>1 DEF Inv, StartInv
<1>4. /\ rx \in RxType /\ rx.last \in Nat /\ rx.size = rx.last + 1
      /\ rx.count \in 0 .. rx.last + 1
      /\ start.copied \in Nat /\ start.copied <= rx.count
      /\ NewSize \in Nat /\ NewSize - 1 \in Slots
  <2>1. /\ rx \in RxType /\ rx.last \in Nat /\ rx.size = rx.last + 1
        /\ rx.count \in 0 .. rx.last + 1
        /\ start.copied \in Nat /\ start.copied <= rx.count
    BY <1>2, RingFacts
  <2> QED
    BY <1>3, <2>1, SlotFacts
<1>5. /\ rx'.base = Ring /\ rx'.first = 0 /\ rx'.last = NewSize - 1
      /\ rx'.count = rx.count /\ rx'.size = NewSize
  BY <1>1, <1>2, <1>4 DEF RxType
<1>6. PICK u \in Nat : u = start.copied
  BY <1>4
<1>7. PICK k \in Nat : k = ReducedCount
  BY <1>4 DEF ReducedCount
<1>8. /\ u = InUserBuffer /\ u + k = rx.count /\ u + k < NewSize
  <2>1. u = InUserBuffer
    BY <1>1, <1>2, <1>6 DEF InUserBuffer
  <2> QED
    BY <1>3, <1>4, <1>6, <1>7, <2>1 DEF ReducedCount
<1>9. NextIsFresh("free")
  <2> HIDE DEF Inv
  <2> QED
    BY <1>1, <1>2, SlotFacts, CompleteFacts
<1>10. InUserBuffer' = 0
  BY <1>5, <1>9, FreshInUser
<1>11. ReducedCount' = u + k
  BY <1>1, <1>4, <1>5, <1>8, NoStartFacts DEF ReducedCount
<1>12. ASSUME NEW i \in 1 .. u + k
       PROVE  PendingAt(i)' = PendingAt(i)
  <2>1. PICK j \in Nat : j = i - 1
    OBVIOUS
  <2>2. j \in Slots
    <3>1. j <= NewSize - 1
      BY <1>4, <1>8, <2>1
    <3> QED
      BY <1>4, <3>1, SlotFacts
  <2>3. ring'[j] = PendingAt(i)
    BY <1>1, <1>2, <1>6, <1>7, <1>8, <2>1, <2>2, CopiedChars
  <2>4. i - 0 - 1 = j /\ ~ (i <= 0) /\ j < NewSize - 1 - 0 + 1 /\ 0 + j = j
    BY <1>4, <1>8, <2>1
  <2>5. PendingAt(i)' = ReadableChar(j)'
    BY <1>10, <2>4 DEF PendingAt, ReadableChar, FirstTry
  <2>6. ReadableChar(j)' = ring'[j]
    BY <1>5, <2>4 DEF ReadableChar, FirstTry
  <2> QED
    BY <2>3, <2>5, <2>6
<1>13. Pending' = Pending
  <2>1. InUserBuffer' + ReducedCount' = u + k
    BY <1>10, <1>11
  <2>2. InUserBuffer + ReducedCount = u + k
    BY <1>7, <1>8
  <2> QED
    BY <1>12, <2>1, <2>2, PendingStays
<1>14. delivered' = delivered
  <2>1. delivered' = delivered \o [i \in 1 .. 0 |-> EmptySlots[i - 1]]
    BY <1>1, <1>3 DEF CompleteAndNext
  <2>2. delivered \in Seq(Chars)
    BY <1>2 DEF RequestTypeOK
  <2> QED
    BY <2>1, <2>2, NothingAppended
<1>15. rx'.size > rx.size
  BY <1>3, <1>4, <1>5
<1>16. Stream!Grow
  BY <1>1, <1>10, <1>13, <1>14, <1>15 DEF Stream!Grow
<1> QED
  BY <1>16, StreamStep

\* SerialPurgeInterruptBuff: the characters in the ring are discarded.
LEMMA StreamPurgeClear ==
  ASSUME Inv, Inv', PurgeClear
  PROVE  Stream!Next
<1>1. /\ pc = "clear" /\ rx' = PurgedRing /\ pc' = "free"
      /\ UNCHANGED <<ring, user, arrived, requestVars, start>>
  BY DEF PurgeClear
<1>2. /\ start.copied = 0 /\ rx.size > 0 /\ RxTypeOK
      /\ current \in Reqs \cup {NoReq} /\ NoReq \notin Reqs /\ Ring \notin Reqs
  BY <1>1, BusyFacts, RxAssumption DEF Inv, StartInv, RingInv, RequestTypeOK
<1>3. current' = current /\ ctx' = ctx /\ delivered' = delivered
  BY <1>1 DEF requestVars
<1>4. CASE OwnedByIsr
  <2>1. rx' = rx
    BY <1>1, <1>4 DEF PurgedRing
  <2>2. (pc' = "resize") <=> (pc = "resize")
    BY <1>1
  <2>3. UNCHANGED <<bufferVars, delivered>>
    BY <1>1, <1>3, <2>1 DEF bufferVars
  <2> QED
    BY <1>1, <1>3, <2>2, <2>3, StreamUntouched
<1>5. CASE ~ OwnedByIsr
  <2>1. rx' = SwitchToRing /\ rx.base = Ring
    BY <1>1, <1>5 DEF PurgedRing, OwnedByIsr
  <2>2. rx'.base = Ring /\ rx'.size = rx.size /\ rx'.count = 0
    BY <1>2, <2>1, SwitchToRingFacts
  <2>3. InUserBuffer' = InUserBuffer /\ ReducedCount' = 0
    BY <1>1, <1>2, <1>3, <2>1, <2>2 DEF InUserBuffer, ReducedCount
  <2>4. InUserBuffer \in Nat /\ ReducedCount \in Nat
    BY PendingFacts DEF PendingTrue
  <2>5. PICK n \in Nat : n = ReducedCount
    BY <2>4
  <2>6. PICK u \in Nat : u = InUserBuffer
    BY <2>4
  <2>7. PICK l \in Nat : l = u + n
    OBVIOUS
  <2>8. ASSUME NEW i \in 1 .. u
        PROVE  PendingAt(i)' = PendingAt(i)
    BY <1>1, <1>3, <2>3, <2>6 DEF PendingAt
  <2>9. Discards(l, 0, n)
    <3>1. l = InUserBuffer + ReducedCount /\ 0 + n <= l /\ l - 0 - n = u
          /\ InUserBuffer' + ReducedCount' = u
      BY <2>3, <2>5, <2>6, <2>7
    <3>2. \A i \in 1 .. u : i + 0 = i
      OBVIOUS
    <3> QED
      BY <2>8, <3>1, <3>2 DEF Discards
  <2>10. Pending' = SubSeq(Pending, 1, InUserBuffer)
    <3>1. Pending' = SubSeq(Pending, 0 + 1, l - n)
      BY <2>9, WhatIsDiscarded
    <3>2. 0 + 1 = 1 /\ l - n = u
      BY <2>7
    <3> QED
      BY <2>6, <3>1, <3>2
  <2>11. Stream!Purge
    BY <1>1, <1>3, <2>2, <2>3, <2>10 DEF Stream!Purge
  <2> QED
    BY <2>11, StreamStep
<1> QED
  BY <1>4, <1>5

\* Timers, SerialSetCancelRoutine, requests that queue up or leave the queue
\* and the first steps of a purge move no characters.
LEMMA StreamOthers ==
  ASSUME Inv, Inv',
         \/ TotalExpires \/ IntervalExpires \/ IntervalPasses \/ IntervalCheck
         \/ StartArm
         \/ \E r \in Reqs : Read(r) \/ Resize(r) \/ Cancel(r)
         \/ Purge \/ CommErrorDpc
         \/ PurgeCurrent /\ ~ AbortCurrent
  PROVE  Stream!Next
<1>1. /\ RequestTypeOK /\ QueueInv /\ RingInv /\ StartInv
      /\ current \in Reqs \cup {NoReq} /\ NoReq \notin Reqs /\ Ring \notin Reqs
      /\ rx.base \in Reqs \cup {Ring}
      /\ ctx \in [Reqs -> CtxType] /\ start \in StartType
  BY BusyFacts, RxAssumption
     DEF Inv, RequestTypeOK, RxTypeOK, ControlTypeOK
<1>2. CASE TotalExpires \/ IntervalExpires \/ IntervalPasses \/ IntervalCheck
  <2>1. /\ UNCHANGED <<bufferVars, current, ctx, delivered, start>>
        /\ (pc' = "resize") <=> (pc = "resize")
    BY <1>2 DEF TotalExpires, IntervalExpires, IntervalPasses, IntervalCheck,
                requestVars
  <2> QED
    BY <2>1, StreamUntouched
<1>3. CASE StartArm
  <2>1. /\ UNCHANGED <<bufferVars, current, delivered>>
        /\ pc = "arm" /\ pc' = "free" /\ start' = NoStart
        /\ ctx' = [ctx EXCEPT ![current].routine = TRUE,
                     ![current].refs = @ \cup ArmedRefs(start.mode)]
    BY <1>3 DEF StartArm
  <2>2. start'.copied = start.copied
    BY <1>1, <2>1, NoStartFacts DEF StartInv
  <2>3. current \in Reqs => ctx'[current].info = ctx[current].info
    <3>1. PICK a : a = ArmedRefs(start.mode)
      OBVIOUS
    <3>2. ctx' = [ctx EXCEPT ![current].routine = TRUE,
                             ![current].refs = @ \cup a]
      BY <2>1, <3>1
    <3> QED
      BY <1>1, <3>2 DEF CtxType
  <2> QED
    BY <2>1, <2>2, <2>3, StreamUntouched
<1>4. ASSUME NEW r \in Reqs, Read(r) \/ Resize(r)
      PROVE  Stream!Next
  <2>1. PICK kind \in {"read", "resize"}, len \in 0 .. MaxLen :
          StartOrQueue(r, kind, len)
    <3>1. 0 \in 0 .. MaxLen /\ \A len \in 1 .. MaxLen : len \in 0 .. MaxLen
      BY SlotFacts
    <3> QED
      BY <1>4, <3>1 DEF Read, Resize
  <2>2. pc = "free" /\ UNCHANGED <<bufferVars, delivered, start>>
    BY <2>1 DEF StartOrQueue
  <2>3. \/ current = NoReq /\ NextIsFresh("start")
        \/ current \in Reqs /\ UNCHANGED <<current, pc>>
           /\ ctx'[current] = ctx[current]
    <3> HIDE DEF Inv
    <3> QED
      BY <1>1, <2>1, EnterFacts
  <2>4. CASE current = NoReq /\ NextIsFresh("start")
    <3>1. rx'.base = Ring
      BY <1>1, <2>2, <2>4 DEF RingInv, bufferVars
    <3>2. InUserBuffer = 0 /\ InUserBuffer' = 0
      BY <2>4, <3>1, FreshInUser DEF InUserBuffer
    <3> QED
      BY <2>2, <3>2, StreamUntouched
  <2>5. CASE current \in Reqs /\ UNCHANGED <<current, pc>>
             /\ ctx'[current] = ctx[current]
    BY <2>2, <2>5, StreamUntouched
  <2> QED
    BY <2>3, <2>4, <2>5
<1>5. ASSUME NEW r \in Reqs, Cancel(r)
      PROVE  Stream!Next
  <2>1. UNCHANGED <<bufferVars, current, delivered, pc, start>>
    BY <1>5 DEF Cancel
  <2>2. current \in Reqs => ctx'[current].info = ctx[current].info
    <3>1. CASE r = current
      BY <1>5, <3>1 DEF Cancel
    <3>2. CASE r # current
      <4>1. ctx' = [ctx EXCEPT ![r] = NoContext]
        BY <1>5, <3>2 DEF Cancel
      <4> QED
        BY <1>1, <3>2, <4>1
    <3> QED
      BY <3>1, <3>2
  <2> QED
    BY <2>1, <2>2, StreamUntouched
<1>6. ASSUME NEW then, FlushQueue(then), pc # "resize", then # "resize"
      PROVE  Stream!Next
  <2>1. /\ UNCHANGED <<bufferVars, current, delivered, start>> /\ pc' = then
        /\ ctx' = [r \in Reqs |->
                     IF r \in {queue[i] : i \in 1 .. Len(queue)}
                       THEN NoContext ELSE ctx[r]]
    BY <1>6 DEF FlushQueue
  <2>2. current \in Reqs => ctx'[current].info = ctx[current].info
    <3>1. current \notin {queue[i] : i \in 1 .. Len(queue)}
      BY <1>1 DEF QueueInv, InQueue
    <3> QED
      BY <2>1, <3>1
  <2> QED
    BY <1>6, <2>1, <2>2, StreamUntouched
<1>7. CASE Purge
  <2>1. CASE \E then \in {"abort", "abortclear"} : FlushQueue(then)
    BY <1>6, <1>7, <2>1 DEF Purge
  <2>2. CASE /\ pc' = "clear"
             /\ UNCHANGED <<bufferVars, requestVars, asked, start>>
    <3>1. /\ pc = "free"
          /\ UNCHANGED <<bufferVars, current, ctx, delivered, start>>
      BY <1>7, <2>2 DEF Purge, requestVars
    <3> QED
      BY <2>2, <3>1, StreamUntouched
  <2> QED
    BY <1>7, <2>1, <2>2 DEF Purge
<1>8. CASE CommErrorDpc
  BY <1>6, <1>8 DEF CommErrorDpc
<1>9. CASE PurgeCurrent /\ ~ AbortCurrent
  <2>1. /\ pc # "resize" /\ pc' # "resize"
        /\ UNCHANGED <<bufferVars, current, ctx, delivered, start>>
    BY <1>9 DEF PurgeCurrent, requestVars
  <2> QED
    BY <2>1, StreamUntouched
<1> QED
  BY <1>2, <1>3, <1>4, <1>5, <1>7, <1>8, <1>9

\* Whoever may complete the current request
LEMMA StreamCallbacks ==
  ASSUME Inv, Inv',
         \/ CompleteReadDpc \/ SerialReadTimeout
         \/ IntervalLast \/ IntervalTimeout
         \/ \E r \in Reqs : CancelRoutine(r)
         \/ PurgeCurrent /\ AbortCurrent
  PROVE  Stream!Next
<1>1. /\ RequestTypeOK /\ ControlTypeOK /\ NoReq \notin Reqs
      /\ asked \subseteq {current}
  BY BusyFacts, RxAssumption
<1>2. {"isr", "cancel", "total", "interval"} = RefTypes
  BY DEF RefTypes
<1>3. CASE CompleteReadDpc
  <2>1. /\ pc = "free" /\ readDpc /\ start' = start
        /\ SerialTryToCompleteCurrent(FALSE, "success", "isr", intTimer,
                                      totTimer, "free")
    BY <1>3, Zenon DEF CompleteReadDpc
  <2>2. current \in Reqs /\ ~ Starting
    BY <2>1, BusyFacts
  <2>3. ~ OwnedByIsr
    BY <2>1 DEF Inv, RingInv, OwnedByIsr
  <2>4. "success" = "cancelled" => Aborting
    OBVIOUS
  <2> QED
    BY <1>2, <2>1, <2>2, <2>3, <2>4, StreamTries
<1>4. CASE SerialReadTimeout
  <2>1. /\ totTimer = "expired" /\ start' = start
        /\ SerialTryToCompleteCurrent(TRUE, "timeout", "total", intTimer,
                                      "idle", "free")
    BY <1>4, Zenon DEF SerialReadTimeout
  <2>2. current \in Reqs /\ ~ Starting
    BY <2>1, BusyFacts
  <2>3. "timeout" = "cancelled" => Aborting
    OBVIOUS
  <2> QED
    BY <1>2, <2>1, <2>2, <2>3, StreamTries
<1>5. CASE IntervalLast
  <2>1. PICK status :
          /\ status = CASE countOnLast = "total" -> "timeout"
                        [] countOnLast = "complete" -> "success"
                        [] OTHER -> "cancelled"
          /\ SerialTryToCompleteCurrent(TRUE, status, "interval", "idle",
                                        totTimer, "free")
    BY <1>5, Zenon DEF IntervalLast
  <2>2. /\ intTimer = "expired" /\ start' = start
        /\ countOnLast \in {"total", "complete", "cancel"}
    BY <1>5, Zenon DEF IntervalLast
  <2>3. current \in Reqs /\ ~ Starting
    BY <2>2, BusyFacts
  <2>4. status = "cancelled" => Aborting
    BY <2>1, <2>2 DEF Aborting
  <2> QED
    BY <1>2, <2>1, <2>2, <2>3, <2>4, StreamTries
<1>6. CASE IntervalTimeout
  <2>1. /\ pc = "expire" /\ start' = start
        /\ SerialTryToCompleteCurrent(TRUE, "timeout", "interval", "idle",
                                      totTimer, "free")
    BY <1>6, Zenon DEF IntervalTimeout
  <2>2. current \in Reqs /\ ~ Starting
    BY <2>1, BusyFacts
  <2>3. "timeout" = "cancelled" => Aborting
    OBVIOUS
  <2> QED
    BY <1>2, <2>1, <2>2, <2>3, StreamTries
<1>7. ASSUME NEW then \in {"free", "clear"}, SerialCancelCurrentRead(then),
             current \in Reqs, ~ Starting, Aborting
      PROVE  Stream!Next
  <2>1. /\ start' = start
        /\ SerialTryToCompleteCurrent(TRUE, "cancelled", "cancel", intTimer,
                                      totTimer, then)
    BY <1>7, Zenon DEF SerialCancelCurrentRead
  <2> QED
    BY <1>2, <1>7, <2>1, StreamTries
<1>8. ASSUME NEW r \in Reqs, CancelRoutine(r)
      PROVE  Stream!Next
  <2>1. cancelable # {} /\ SerialCancelCurrentRead("free")
    BY <1>8 DEF CancelRoutine
  <2>2. current \in Reqs /\ ~ Starting
    BY <2>1, BusyFacts
  <2>3. Aborting
    BY <1>1, <1>8 DEF CancelRoutine, Aborting
  <2> QED
    BY <1>7, <2>1, <2>2, <2>3
<1>9. CASE PurgeCurrent /\ AbortCurrent
  <2>1. PICK then \in {"free", "clear"} : SerialCancelCurrentRead(then)
    BY <1>9 DEF PurgeCurrent
  <2>2. current \in Reqs /\ ~ Starting
    BY <1>1, <1>9 DEF PurgeCurrent, AbortCurrent, RequestTypeOK, Starting
  <2>3. Aborting
    BY <1>9 DEF PurgeCurrent, Aborting
  <2> QED
    BY <1>7, <2>1, <2>2, <2>3
<1> QED
  BY <1>3, <1>4, <1>5, <1>6, <1>8, <1>9

LEMMA StreamStutter ==
  ASSUME UNCHANGED vars
  PROVE  UNCHANGED Stream!vars
<1>1. /\ UNCHANGED <<rx, ring, user, arrived, current, ctx, delivered, pc,
                     start>>
      /\ UNCHANGED <<asked, intTimer, countOnLast>>
  BY DEF vars, bufferVars, requestVars, timerVars, countVars
<1>2. InUserBuffer' = InUserBuffer /\ ReducedCount' = ReducedCount
  BY <1>1 DEF InUserBuffer, ReducedCount
<1>3. Pending' = Pending
  BY <1>1, <1>2 DEF Pending, ReadableChar, FirstTry
<1>4. Aborting' = Aborting
  BY <1>1 DEF Aborting
<1> QED
  BY <1>1, <1>2, <1>3, <1>4 DEF Stream!vars

LEMMA StreamNext ==
  ASSUME Inv, Inv', [Next]_vars
  PROVE  [Stream!Next]_(Stream!vars)
<1>1. CASE PutChar
  BY <1>1, StreamPutChar
<1>2. CASE StartCopy
  BY <1>2, StreamStartCopy
<1>3. CASE StartUpdate
  BY <1>3, StreamStartUpdate
<1>4. CASE StartSwitch
  BY <1>4, StreamStartSwitch
<1>5. CASE ResizeMove
  BY <1>5, StreamResizeMove
<1>6. CASE ResizeSwitch
  BY <1>6, StreamResizeSwitch
<1>7. CASE PurgeClear
  BY <1>7, StreamPurgeClear
<1>8. CASE \/ CompleteReadDpc \/ SerialReadTimeout
           \/ IntervalLast \/ IntervalTimeout
           \/ \E r \in Reqs : CancelRoutine(r)
           \/ PurgeCurrent /\ AbortCurrent
  BY <1>8, StreamCallbacks
<1>9. CASE \/ TotalExpires \/ IntervalExpires \/ IntervalPasses
           \/ IntervalCheck \/ StartArm
           \/ \E r \in Reqs : Read(r) \/ Resize(r) \/ Cancel(r)
           \/ Purge \/ CommErrorDpc
           \/ PurgeCurrent /\ ~ AbortCurrent
  BY <1>9, StreamOthers
<1>10. CASE UNCHANGED vars
  <2>1. UNCHANGED Stream!vars
    BY <1>10, StreamStutter
  <2> QED
    BY <2>1
<1> QED
  BY <1>1, <1>2, <1>3, <1>4, <1>5, <1>6, <1>7, <1>8, <1>9, <1>10
     DEF Next, Holder, IntervalDpc, Terminated

LEMMA StreamInit == Init => Stream!Init
<1> SUFFICES ASSUME Init PROVE Stream!Init
  OBVIOUS
<1>1. /\ arrived = 0 /\ current = NoReq /\ delivered = <<>>
      /\ rx.size = BufSize /\ rx.count = 0 /\ start = NoStart
      /\ pc = "free" /\ asked = {} /\ intTimer = "idle"
  BY DEF Init, RxInit
<1>2. InUserBuffer = 0 /\ ReducedCount = 0
  BY <1>1, NoStartFacts DEF InUserBuffer, ReducedCount
<1>3. Pending = <<>>
  <2>1. PICK u \in Nat : u = InUserBuffer /\ u = 0
    BY <1>2
  <2>2. PICK k \in Nat : k = ReducedCount /\ k = 0
    BY <1>2
  <2>3. /\ [i \in 1 .. 0 |-> user[current][i - 1]] = <<>>
        /\ [i \in 1 .. 0 |-> ReadableChar(i - 1)] = <<>>
    OBVIOUS
  <2>4. <<>> \o <<>> = <<>>
    OBVIOUS
  <2> QED
    BY <2>1, <2>2, <2>3, <2>4 DEF Pending
<1>4. BufSize \in Nat \ {0}
  BY RxAssumption
<1>5. ~ Aborting
  BY <1>1 DEF Aborting
<1> QED
  BY <1>1, <1>2, <1>3, <1>4, <1>5 DEF Stream!Init

\* Through the ring, the buffers of reads, moves to a larger ring, timeouts,
\* cancellations and purges, SerialPutChar, SerialGetCharsFromIntBuffer and
\* SerialGrabReadFromIsr hand every character over in the order of its
\* arrival, once: the driver implements ByteStream.
THEOREM ImplementsByteStream == Spec => KeepsStream
<1>1. Inv /\ Inv' /\ [Next]_vars => [Stream!Next]_(Stream!vars)
  BY StreamNext
<1> QED
  BY Invariance, StreamInit, <1>1, PTL DEF Spec, KeepsStream, Stream!Spec
=============================================================================
