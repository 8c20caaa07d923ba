---------------------------- MODULE MCXferPacket ----------------------------
(* Model values for TLC's runs of XferPacket.                              *)
EXTENDS XferPacket

CONSTANTS r1, r2, p1, p2

TwoReqs == {r1, r2}
TwoPackets == {p1, p2}

NoneCritical == {}
OneCritical == {r1}

\* With pages of two sectors and at most three sectors in a piece: one piece, or
\* two; from the middle of a page, two chunks for the shorter transfer and for
\* the longer one's first piece, three for the whole of the longer one.
SomeTransfers == {[offset |-> 1, length |-> 2], [offset |-> 1, length |-> 4]}
=============================================================================
