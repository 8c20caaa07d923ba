------------------------------ MODULE RxBuffer ------------------------------
(***************************************************************************)
(* serial/serial: where received characters go.                            *)
(*                                                                         *)
(* The ISR stores a character at CurrentCharSlot.  That is a slot of the   *)
(* typeahead ("interrupt") buffer, a ring, unless a read has been given to *)
(* the ISR: then it is a slot of that read's own buffer, until the buffer  *)
(* is full or the read is grabbed back.  The driver copies from the ring   *)
(* without stopping the ISR, and subtracts what it has copied afterwards.  *)
(*                                                                         *)
(* Left out: flow control, modem and event notification, the replacement   *)
(* of a character by an error character.  A character is its number in the *)
(* order of arrival; 0 is a slot without one.                              *)
(***************************************************************************)
EXTENDS Integers, Sequences

CONSTANTS
  Reqs,        \* requests of the read queue; each has a buffer
  NoReq,
  Ring,        \* the interrupt buffer, among the buffers
  BufSize,     \* size of the interrupt buffer
  NewSize,     \* its size after a resize request
  MaxLen,      \* bound: length of a read
  MaxChars     \* bound: characters that arrive

ASSUME RxAssumption ==
  /\ NoReq \notin Reqs
  /\ Ring \notin Reqs
  /\ BufSize \in Nat \ {0}
  /\ NewSize \in Nat
  /\ MaxLen \in Nat \ {0}
  /\ MaxChars \in Nat

VARIABLES
  rx,        \* ReadBufferBase, CurrentCharSlot, LastCharSlot,
             \* FirstReadableChar, CharsInInterruptBuffer, BufferSize
  ring,      \* slots of the interrupt buffer
  user,      \* user[r]: slots of r's buffer
  arrived    \* number of characters that have arrived

bufferVars == <<rx, ring, user, arrived>>

Chars == 0 .. MaxChars

Larger(m, n) == IF m > n THEN m ELSE n
Slots == 0 .. Larger(Larger(BufSize, NewSize), MaxLen) - 1

EmptySlots == [i \in Slots |-> 0]

\* CurrentCharSlot and LastCharSlot are offsets from ReadBufferBase,
\* FirstReadableChar from InterruptReadBuffer.
RxTypeOK ==
  /\ rx \in [base : Reqs \cup {Ring}, cur : Slots, last : Slots,
             first : Slots, count : Nat, size : {BufSize, NewSize}]
  /\ rx.count <= rx.size
  /\ rx.cur <= rx.last
  /\ ring \in [Slots -> Chars]
  /\ user \in [Reqs -> [Slots -> Chars]]
  /\ arrived \in Chars

RxInit ==
  /\ rx = [base |-> Ring, cur |-> 0, last |-> BufSize - 1, first |-> 0,
           count |-> 0, size |-> BufSize]
  /\ ring = EmptySlots
  /\ user = [r \in Reqs |-> EmptySlots]
  /\ arrived = 0

OwnedByIsr == rx.base # Ring

\* The assignments that switch back to the interrupt buffer, or empty it
SwitchToRing ==
  [rx EXCEPT !.base = Ring, !.cur = 0, !.last = rx.size - 1, !.first = 0,
             !.count = 0]

(***************************************************************************)
(* SerialPutChar                                                           *)
(***************************************************************************)

UserBufferFull == OwnedByIsr /\ rx.cur = rx.last

RoomInRing == rx.count < rx.size

\* Mutant: the test for the end of the buffer is off by one.
AdvancedLate == IF rx.cur > rx.last THEN 0 ELSE rx.cur + 1

Advanced == IF rx.cur = rx.last THEN 0 ELSE rx.cur + 1

\* Into the user's buffer; the last slot gives the read up.
PutUser ==
  /\ user' = [user EXCEPT ![rx.base][rx.cur] = arrived']
  /\ rx' = IF UserBufferFull THEN SwitchToRing
                             ELSE [rx EXCEPT !.cur = Advanced]
  /\ UNCHANGED ring

PutRing ==
  /\ IF RoomInRing
       THEN /\ ring' = [ring EXCEPT ![rx.cur] = arrived']
            /\ rx' = [rx EXCEPT !.cur = Advanced, !.count = @ + 1]
       ELSE UNCHANGED <<rx, ring>>
  /\ UNCHANGED user

(***************************************************************************)
(* Reading from the ring                                                   *)
(***************************************************************************)

\* Slots from the first readable character to the end of the ring
FirstTry == rx.last - rx.first + 1

\* The i-th character from the first one on, i = 0, 1, ...
ReadableChar(i) ==
  IF i < FirstTry THEN ring[rx.first + i] ELSE ring[i - FirstTry]

\* FirstReadableChar after n characters were taken
FirstAfter(n) == IF FirstTry > n THEN rx.first + n ELSE n - FirstTry

\* n characters are copied to slots at, at + 1, ... of a buffer.
Copied(slots, at, n) ==
  [i \in Slots |-> IF i \in at .. at + n - 1 THEN ReadableChar(i - at)
                                             ELSE slots[i]]

\* SerialPurgeInterruptBuff
PurgedRing == IF OwnedByIsr THEN rx ELSE SwitchToRing
=============================================================================
