------------------------------ MODULE MCSessions ------------------------------
(* Small instances of Sessions for TLC. *)
EXTENDS Sessions, TLC

CONSTANTS u1, c1, p1, p2

OneClient == {c1}
TwoThreads == {p1, p2}
=============================================================================
