---------------------------- MODULE MCSerialRead ----------------------------
(* Model values for TLC's run of SerialRead.                               *)
EXTENDS SerialRead, TLC

CONSTANTS r1, r2, r3

TwoReqs == {r1, r2}
ThreeReqs == {r1, r2, r3}

Symmetry == Permutations(Reqs)

\* Every combination of timeouts that SERIAL_TIMEOUTS can express
AllModes == {m \in ModeType : ModeAllowed(m)}

\* The ones that wait
WaitingModes ==
  {m \in AllModes : (m.total \/ m.interval) /\ ~ m.one}
=============================================================================
