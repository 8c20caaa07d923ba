----------------------------- MODULE MCWskEcho ------------------------------
(* Model values for TLC's runs of WskEcho.                                 *)
EXTENDS WskEcho, TLC

CONSTANTS c1, c2

OneConn == {c1}
TwoConns == {c1, c2}

\* Connections are not told apart by the server.
Symmetry == Permutations(Conns)
=============================================================================
