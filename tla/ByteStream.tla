----------------------------- MODULE ByteStream -----------------------------
(***************************************************************************)
(* What a serial port promises to whoever reads from it, whatever buffers  *)
(* the characters pass through: they are delivered in the order in which   *)
(* they arrived, each once.  One is lost only if as many as the typeahead  *)
(* buffer has room for are waiting; else, characters go away only when the *)
(* read that has them already is aborted, and then these, or when the      *)
(* typeahead buffer is purged, and then those that are in it.              *)
(*                                                                         *)
(* Characters are numbered in the order of their arrival.                  *)
(***************************************************************************)
EXTENDS Naturals, Sequences

VARIABLES
  arrived,     \* how many characters have arrived
  pending,     \* those that were neither delivered nor discarded nor lost
  held,        \* how many of them, the first ones, the read under way has
  delivered,   \* those that were delivered
  capacity,    \* room in the typeahead buffer
  aborting,    \* the read under way is being aborted
  purging      \* the typeahead buffer is being purged

vars == <<arrived, pending, held, delivered, capacity, aborting, purging>>

Init ==
  /\ arrived = 0
  /\ pending = <<>>
  /\ held = 0
  /\ delivered = <<>>
  /\ capacity \in Nat \ {0}
  /\ ~ aborting
  /\ ~ purging

\* A character goes to the typeahead buffer, or to the read if that is empty.
Receive ==
  /\ arrived' = arrived + 1
  /\ pending' = Append(pending, arrived')
  /\ \/ held' = held
     \/ held = Len(pending) /\ held' = held + 1
  /\ UNCHANGED <<delivered, capacity>>

Lose ==
  /\ Len(pending) >= capacity
  /\ arrived' = arrived + 1
  /\ UNCHANGED <<pending, held, delivered, capacity>>

\* The read under way takes the first characters of the typeahead buffer.
Take ==
  /\ held' \in held .. Len(pending)
  /\ UNCHANGED <<arrived, pending, delivered, capacity>>

\* It ends, with all that it has and what it takes now.
Deliver(n) ==
  /\ n >= held
  /\ delivered' = delivered \o SubSeq(pending, 1, n)
  /\ pending' = SubSeq(pending, n + 1, Len(pending))
  /\ held' = 0
  /\ UNCHANGED <<arrived, capacity>>

Abort ==
  /\ aborting
  /\ pending' = SubSeq(pending, held + 1, Len(pending))
  /\ held' = 0
  /\ UNCHANGED <<arrived, delivered, capacity>>

Purge ==
  /\ purging
  /\ pending' = SubSeq(pending, 1, held)
  /\ UNCHANGED <<arrived, held, delivered, capacity>>

Grow ==
  /\ capacity' > capacity
  /\ held' = 0
  /\ UNCHANGED <<arrived, pending, delivered>>

\* The application aborts reads and purges as it likes.
Next ==
  /\ \/ Receive \/ Lose
     \/ Take \/ (\E n \in 0 .. Len(pending) : Deliver(n))
     \/ Abort \/ Purge
     \/ Grow
  /\ aborting' \in BOOLEAN
  /\ purging' \in BOOLEAN

Spec == Init /\ [][Next]_vars
=============================================================================
