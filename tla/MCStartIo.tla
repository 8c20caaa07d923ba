----------------------------- MODULE MCStartIo ----------------------------
(* Model values for TLC's runs of StartIo.                              *)
EXTENDS StartIo, TLC

CONSTANTS f1, f2, r1, r2, r3

OneFile == {f1}
TwoFiles == {f1, f2}
TwoReqs == {r1, r2}
ThreeReqs == {r1, r2, r3}

\* Neither handles nor IRPs are told apart by the driver.
Symmetry == Permutations(Files) \cup Permutations(Reqs)
=============================================================================
